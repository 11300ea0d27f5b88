--------------------------- MODULE Operations_proofs ---------------------------
(***************************************************************************)
(* The parts of the one process that work on the servers: the alert rules, *)
(* the Drive account, the settings of the servers, and retention,          *)
(* pg_hba.conf, the databases and the servers that were found.  What each  *)
(* promises holds whatever the others do, whenever the process dies,       *)
(* because no part changes the state of another: the Quiet lemmas.         *)
(***************************************************************************)
EXTENDS Operations, WellFoundedInduction, TLAPS

-----------------------------------------------------------------------------
(* The parts leave each other alone. *)

\* The Docker pages, their sweeps and the git redeploys do nothing to a server.
LEMMA PagesQuiet == Pages => UNCHANGED <<cronVars, volumeVars, stackVars, serverVars>>
BY DEF Pages

LEMMA CronQuiet ==
    Cron => UNCHANGED <<hostVars, routeVars, gitVars, volumeVars, stackVars, serverVars>>
BY ZenonT(40) DEF Cron, C!SweepTick, C!MinutePasses, C!CreateCronJob, C!SetCronJobEnabled, C!DeleteCronJob,
   C!RunCronJobNow, C!RunEnds, C!RunUnrecorded, C!Elsewhere

LEMMA VolumeBackupQuiet ==
    VolumeBackup => UNCHANGED <<hostVars, routeVars, gitVars, cronVars, stackVars, serverVars>>
BY ZenonT(40) DEF VolumeBackup, V!BackupVolume, V!RestoreVolumeBackup, V!DeleteVolumeBackup, V!UseFiles,
   V!MakeHelper, V!RemoveHelper, V!Stream, V!Copy, V!Close, V!Complete, V!Fail, V!CreateVolume, V!Open,
   V!Clear, V!Upload, V!Unlink, V!VolumeAbandon, V!Browse, V!Change, V!Serve, V!Write,
   V!SecondPasses, V!Elsewhere

LEMMA ComposeQuiet ==
    Compose => UNCHANGED <<hostVars, routeVars, gitVars, cronVars, volumeVars, serverVars>>
BY Zenon DEF Compose, K!Asks, K!DeployCompose, K!RemoveComposeProject, K!WriteFile, K!UpWorks, K!UpFails, K!Save,
   K!Down, K!DeleteRow, K!Erase, K!Elsewhere

DockerPages == Pages \/ Cron \/ VolumeBackup \/ Compose

LEMMA DockerPagesQuiet == DockerPages => UNCHANGED serverVars
BY PagesQuiet, CronQuiet, VolumeBackupQuiet, ComposeQuiet DEF DockerPages

\* Extensions, adoption and the Drive do nothing to what a server does by day,
\* and the first two nothing to the Drive.
LEMMA SettingsQuiet == Settings => UNCHANGED <<dockerVars, dailyVars, adoptionVars, driveVars>>
BY ZenonT(40) DEF Settings, S!EnableExtension, S!ShowLibs, S!AlterLibs, S!AlterCron, S!Restart,
   S!CreateExtension, S!ApplyExpandedConfig, S!SetParam, S!Reload, S!DisableExtension, S!Elsewhere

LEMMA AdoptQuiet == Adopt => UNCHANGED <<dockerVars, dailyVars, settingsVars, driveVars>>
BY ZenonT(40) DEF Adopt, F!DiscoverContainers, F!RegisterDiscovered, F!Inspect, F!JoinNetwork, F!Login,
   F!AllocatePort, F!InsertServer, F!DeleteServer, F!RemoveBox, F!RemoveVolume, F!DeleteRow,
   F!DockerPageStops, F!DockerPageRemoves, F!DockerPageRecreates, F!Elsewhere

LEMMA DriveQuiet == Drive => UNCHANGED <<dockerVars, dailyVars, settingsVars, adoptionVars>>
BY ZenonT(40) DEF Drive, O!SetGDriveConfig, O!GDriveAuthURL, O!GDriveDisconnect, O!TenMinutesPass,
   O!GDriveCallback, O!ReadState, O!ClearState, O!Exchange, O!SaveToken, O!UseDrive,
   O!EnsureBackupsFolder, O!KeepFolder, O!StoreInDrive, O!Elsewhere

\* Retention, pg_hba.conf and the database page do nothing to the alerts, and
\* these and the alerts nothing to what administrators set up.
LEMMA RetainQuiet ==
    Retain => UNCHANGED <<dockerVars, alertVars, hbaVars, databaseVars, adminVars>>
BY ZenonT(40) DEF Retain, D!ListPolicy, D!RunByHand, D!SetRetentionPolicyEnabled, D!DeleteRetentionPolicy,
   D!DayPasses, D!ReadPolicy, D!Begin, D!InsertIntoArchive, D!DeleteExpired, D!Commit,
   D!RecordRun, D!RemoveRow, D!InsertRow, D!Elsewhere

LEMMA EditHbaQuiet ==
    EditHba => UNCHANGED <<dockerVars, retentionVars, alertVars, databaseVars, adminVars>>
BY Zenon DEF EditHba, B!AddHbaRule, B!DeleteHbaRule, B!ReadHba, B!WriteHba, B!ReloadHba, B!Elsewhere

LEMMA MakeDatabasesQuiet ==
    MakeDatabases => UNCHANGED <<dockerVars, retentionVars, alertVars, hbaVars, adminVars>>
BY Zenon DEF MakeDatabases, I!CreateDatabase, I!CreateRole, I!MakeDatabase, I!Connect, I!Grant,
   I!UndoDatabase, I!UndoRole, I!DropDatabase, I!Elsewhere

LEMMA AlertQuiet ==
    Alert => UNCHANGED <<dockerVars, retentionVars, hbaVars, databaseVars, adminVars>>
BY Zenon DEF Alert, A!ListRules, A!SendNotification, A!Mark, A!SweepEnds, A!ServerChanges, A!CounterFalls,
   A!PassOver, A!Measure, A!ChangeRule, A!Elsewhere

-----------------------------------------------------------------------------
(* The alert rules *)

Standing == [state : {"on", "off", "gone"}, last : Int, seen : Int]
Checks == [pc : {"idle", "sweep", "send", "mark"}, todo : SUBSET AlertRules,
           listed : [AlertRules -> Standing], at : AlertRules \cup {None}]

AlertShape ==
    /\ clock \in Nat /\ deadlocks \in Nat
    /\ rule \in [AlertRules -> Standing] /\ check \in Checks
    /\ told \in [AlertRules -> Int] /\ since \in [AlertRules -> Int] /\ sunk \subseteq AlertRules
    /\ check.pc \in {"send", "mark"} => check.at \in AlertRules \ check.todo
    /\ \A r \in AlertRules : -1 <= told[r] /\ told[r] <= clock

\* A rule that notified says so, as the sweep listed it and in its row, but
\* between the notification and the mark; and one that is about to notify has
\* cooled down.
ToldIsMarked ==
    \A r \in AlertRules \ unmarked :
        /\ rule[r].state # "gone" /\ ~(check.pc = "mark" /\ check.at = r) => told[r] <= rule[r].last
        /\ r \in check.todo => told[r] <= check.listed[r].last
        /\ check.pc = "send" /\ check.at = r => told[r] < 0 \/ clock - told[r] >= Cooldown

AlertInv == AlertShape /\ ToldIsMarked /\ A!DeadlocksMeasuredOnce /\ early = {}

LEMMA AlertConstants ==
    /\ Deadly \subseteq AlertRules /\ None \notin AlertRules
    /\ Threshold \in Nat /\ Cooldown \in Nat /\ Hours \in Nat /\ Budget \in Nat
BY OperationsAssumption DEF A!AlertAssumption

LEMMA AlertInitially == Init => AlertInv
<1> SUFFICES ASSUME A!AlertInit PROVE AlertInv
  BY DEF Init
<1> USE AlertConstants DEF A!AlertInit, A!NoCheck, A!Fresh, A!Never
<1>1. AlertShape  BY DEF AlertShape, Standing, Checks
<1>2. ToldIsMarked /\ A!DeadlocksMeasuredOnce  BY DEF ToldIsMarked, A!DeadlocksMeasuredOnce
<1> QED  BY <1>1, <1>2 DEF AlertInv

LEMMA ListStep == AlertInv /\ A!ListRules => AlertInv'
<1> SUFFICES ASSUME AlertInv, A!ListRules PROVE AlertInv'
  OBVIOUS
<1> USE DEF AlertInv, AlertShape, A!ListRules, A!World, Checks
<1>1. AlertShape'  OBVIOUS
<1>2. ToldIsMarked' /\ A!DeadlocksMeasuredOnce'  BY DEF ToldIsMarked, A!DeadlocksMeasuredOnce
<1> QED  BY <1>1, <1>2

LEMMA PassOverStep == ASSUME AlertInv, NEW r \in AlertRules, A!PassOver(r) PROVE AlertInv'
<1> USE DEF AlertInv, AlertShape, A!PassOver, A!Passed, A!World, Checks
<1>1. AlertShape'  OBVIOUS
<1>2. ToldIsMarked' /\ A!DeadlocksMeasuredOnce'  BY DEF ToldIsMarked, A!DeadlocksMeasuredOnce
<1> QED  BY <1>1, <1>2

LEMMA MeasureStep == ASSUME AlertInv, NEW r \in AlertRules, A!Measure(r) PROVE AlertInv'
<1> USE AlertConstants DEF AlertInv, AlertShape, A!Measure, A!Passed, A!World, Checks
<1>0. PICK fires \in BOOLEAN :
        check' = IF fires THEN [check EXCEPT !.todo = @ \ {r}, !.pc = "send", !.at = r]
                 ELSE [check EXCEPT !.todo = @ \ {r}]
  OBVIOUS
<1>1. AlertShape'
  <2>1. rule' = rule \/ rule' = [rule EXCEPT ![r] = [rule[r] EXCEPT !.seen = deadlocks]]
    OBVIOUS
  <2>2. rule' \in [AlertRules -> Standing]
    BY <2>1 DEF Standing
  <2>3. check' \in Checks
    BY <1>0
  <2>4. since' \in [AlertRules -> Int] /\ sunk' \subseteq AlertRules
    OBVIOUS
  <2>5. check'.pc \in {"send", "mark"} => check'.at \in AlertRules \ check'.todo
    BY <1>0
  <2> QED  BY <2>2, <2>3, <2>4, <2>5
<1>2. ToldIsMarked'  BY <1>0 DEF ToldIsMarked, A!Cooling, A!Never, Standing
<1>3. A!DeadlocksMeasuredOnce'
  <2> SUFFICES ASSUME NEW q \in Deadly, q \notin unmarked', q \notin sunk'
               PROVE  /\ rule'[q].state # "gone" => deadlocks - rule'[q].seen = since'[q]
                      /\ q \in check'.todo => deadlocks - check'.listed[q].seen = since'[q]
    BY DEF A!DeadlocksMeasuredOnce
  <2>1. CASE q = r
    BY <1>0, <2>1 DEF Standing
  <2>2. CASE q # r
    BY <1>0, <2>2 DEF A!DeadlocksMeasuredOnce, Standing
  <2> QED  BY <2>1, <2>2
<1> QED  BY <1>1, <1>2, <1>3

LEMMA SendStep == AlertInv /\ A!SendNotification => AlertInv'
<1> SUFFICES ASSUME AlertInv, A!SendNotification PROVE AlertInv'
  OBVIOUS
<1> USE AlertConstants DEF AlertInv, AlertShape, A!SendNotification, A!World, Checks
<1>1. AlertShape'  OBVIOUS
<1>2. ToldIsMarked' /\ A!DeadlocksMeasuredOnce'  BY DEF ToldIsMarked, A!DeadlocksMeasuredOnce
<1>3. early' = {}  BY DEF ToldIsMarked, A!Never
<1> QED  BY <1>1, <1>2, <1>3

LEMMA MarkStep == AlertInv /\ A!Mark => AlertInv'
<1> SUFFICES ASSUME AlertInv, A!Mark PROVE AlertInv'
  OBVIOUS
<1> USE DEF AlertInv, AlertShape, A!Mark, A!World
<1> DEFINE r == check.at
<1>0. r \in AlertRules /\ r \notin check.todo /\ check \in Checks
  OBVIOUS
<1>1. check' = [pc |-> "sweep", todo |-> check.todo, listed |-> check.listed, at |-> None]
  BY <1>0 DEF Checks
<1>2. \/ rule' = rule /\ unmarked' = unmarked \cup {r}
      \/ /\ rule' = [rule EXCEPT ![r] = [rule[r] EXCEPT !.last = IF rule[r].state = "gone" THEN @ ELSE clock]]
         /\ unmarked' = unmarked
  OBVIOUS
<1>3. AlertShape'
  <2>1. rule' \in [AlertRules -> Standing]
    BY <1>0, <1>2 DEF Standing
  <2>2. check' \in Checks
    BY <1>0, <1>1 DEF Checks
  <2> QED  BY <1>1, <2>1, <2>2
<1>4. \A q \in AlertRules : q # r => rule'[q] = rule[q]
  BY <1>0, <1>2
<1>5. rule'[r].state = rule[r].state /\ rule'[r].seen = rule[r].seen
  BY <1>0, <1>2 DEF Standing
<1>6. ToldIsMarked'
  <2>1. r \notin unmarked' /\ rule[r].state # "gone" => rule'[r].last = clock
    BY <1>0, <1>2 DEF Standing
  <2> QED  BY <1>0, <1>1, <1>2, <1>4, <1>5, <2>1 DEF ToldIsMarked
<1>7. A!DeadlocksMeasuredOnce'
  BY <1>0, <1>1, <1>2, <1>4, <1>5, AlertConstants DEF A!DeadlocksMeasuredOnce
<1> QED  BY <1>3, <1>6, <1>7

LEMMA EndStep == AlertInv /\ A!SweepEnds => AlertInv'
<1> SUFFICES ASSUME AlertInv, A!SweepEnds PROVE AlertInv'
  OBVIOUS
<1> USE DEF AlertInv, AlertShape, A!SweepEnds, A!World, A!NoCheck, A!Fresh, A!Never, Checks
<1>1. AlertShape'  BY DEF Standing
<1>2. ToldIsMarked' /\ A!DeadlocksMeasuredOnce'  BY DEF ToldIsMarked, A!DeadlocksMeasuredOnce
<1> QED  BY <1>1, <1>2

LEMMA ChangeStep ==
    ASSUME AlertInv, NEW r \in AlertRules, NEW s \in {"on", "off", "gone"}, A!ChangeRule(r, s)
    PROVE  AlertInv'
<1> USE DEF AlertInv, AlertShape, A!ChangeRule, A!World
<1>1. AlertShape'  BY DEF Standing
<1>2. ToldIsMarked' /\ A!DeadlocksMeasuredOnce'  BY DEF ToldIsMarked, A!DeadlocksMeasuredOnce, Standing
<1> QED  BY <1>1, <1>2

LEMMA ServerStep == AlertInv /\ A!ServerChanges => AlertInv'
<1> SUFFICES ASSUME AlertInv, A!ServerChanges PROVE AlertInv'
  OBVIOUS
<1> USE AlertConstants DEF AlertInv, AlertShape, A!ServerChanges
<1>1. AlertShape'  BY DEF Checks
<1>2. ToldIsMarked'  BY DEF ToldIsMarked
<1>3. A!DeadlocksMeasuredOnce'
  <2>1. CASE UNCHANGED <<deadlocks, since>>
    BY <2>1 DEF A!DeadlocksMeasuredOnce
  <2>2. CASE deadlocks' = deadlocks + 1
    <3> SUFFICES ASSUME NEW r \in Deadly, r \notin unmarked, r \notin sunk
                 PROVE  /\ rule[r].state # "gone" => deadlocks' - rule[r].seen = since'[r]
                        /\ r \in check.todo => deadlocks' - check.listed[r].seen = since'[r]
      BY DEF A!DeadlocksMeasuredOnce
    <3>1. r \in AlertRules /\ rule[r].seen \in Int /\ check.listed[r].seen \in Int /\ since[r] \in Int
      BY DEF Checks, Standing
    <3>2. since'[r] = since[r] + 1
      BY <2>2, <3>1
    <3> QED  BY <2>2, <3>1, <3>2 DEF A!DeadlocksMeasuredOnce
  <2> QED  BY <2>1, <2>2
<1> QED  BY <1>1, <1>2, <1>3

LEMMA CounterStep == AlertInv /\ A!CounterFalls => AlertInv'
<1> SUFFICES ASSUME AlertInv, A!CounterFalls PROVE AlertInv'
  OBVIOUS
<1> USE AlertConstants DEF AlertInv, AlertShape, A!CounterFalls
<1>1. AlertShape'  BY DEF Checks
<1>2. ToldIsMarked' /\ A!DeadlocksMeasuredOnce'  BY DEF ToldIsMarked, A!DeadlocksMeasuredOnce
<1> QED  BY <1>1, <1>2

LEMMA DropStep == AlertInv /\ A!AlertsDropped => AlertInv'
<1> SUFFICES ASSUME AlertInv, A!AlertsDropped PROVE AlertInv'
  OBVIOUS
<1> USE DEF AlertInv, AlertShape, A!AlertsDropped, A!NoCheck, A!Fresh, A!Never, Checks
<1>1. AlertShape'  BY DEF Standing
<1>2. ToldIsMarked' /\ A!DeadlocksMeasuredOnce'  BY DEF ToldIsMarked, A!DeadlocksMeasuredOnce
<1> QED  BY <1>1, <1>2

LEMMA AlertSteps == AlertInv /\ Alert => AlertInv'
BY ListStep, PassOverStep, MeasureStep, SendStep, MarkStep, EndStep, ChangeStep, ServerStep, CounterStep DEF Alert

LEMMA AlertInvSteps == AlertInv /\ [Next]_vars => AlertInv'
<1> SUFFICES ASSUME AlertInv, [Next]_vars PROVE AlertInv'
  OBVIOUS
<1>0. ASSUME UNCHANGED alertVars PROVE AlertInv'
  BY <1>0 DEF alertVars, AlertInv, AlertShape, ToldIsMarked, A!DeadlocksMeasuredOnce
<1>1. CASE DockerPages
  BY <1>0, <1>1, DockerPagesQuiet DEF serverVars, dailyVars
<1>2. CASE Settings \/ Adopt \/ Drive
  BY <1>0, <1>2, SettingsQuiet, AdoptQuiet, DriveQuiet DEF dailyVars
<1>3. CASE Retain \/ EditHba \/ MakeDatabases
  BY <1>0, <1>3, RetainQuiet, EditHbaQuiet, MakeDatabasesQuiet
<1>4. CASE Alert
  BY <1>4, AlertSteps
<1>5. CASE Crash
  BY <1>5, DropStep DEF Crash
<1>6. CASE UNCHANGED vars
  BY <1>0, <1>6 DEF vars, serverVars, dailyVars
<1> QED  BY <1>1, <1>2, <1>3, <1>4, <1>5, <1>6 DEF Next, DockerPages

\* A rule does not notify twice within its cooldown, and what a sweep measures
\* for a rule on deadlocks are the deadlocks since the last time, unless the
\* counter fell in between, whatever else the process does and whenever it dies.
THEOREM RulesKeepTheirWord == Spec => []AlertsHeld
<1>1. AlertInv => AlertsHeld
  BY DEF AlertInv, AlertsHeld, A!CooldownHolds, A!DeadlocksMeasuredOnce
<1> QED  BY AlertInitially, AlertInvSteps, <1>1, PTL DEF Spec

-----------------------------------------------------------------------------
(* The account of Google Drive *)

\* While nothing was mixed, the folder is of the connected account; a backup
\* whose row did not change has the token that is connected, and a folder it is
\* about to keep is of the account of its token.
FolderInv ==
    /\ O!FolderIsOfAccount
    /\ ~mixed /\ gdrive.token = None => gdrive.folder = None
    /\ \A u \in Uses :
          use[u].pc # "idle" =>
              /\ use[u].token \in O!Tokens
              /\ ~use[u].crossed => use[u].token = gdrive.token
              /\ use[u].pc = "keep" => use[u].folder = use[u].token.account

\* A callback that read state s, and one that was let through with it
Holds(v, s) == visit[v].pc = "clear" /\ visit[v].held = s
Past(v, s) == visit[v].pc \in {"exchange", "save"} /\ visit[v].state = s

\* Unless two callbacks read it together, or it could not be cleared, a state is
\* in one place: stored, read by one callback, taken by one callback, or used up.
InOnePlace(s) ==
    /\ completed[s] <= 1
    /\ gdrive.state = s => completed[s] = 0 /\ \A v \in Visits : ~Past(v, s)
    /\ \A v \in Visits :
          /\ Holds(v, s) => /\ completed[s] = 0
                            /\ \A w \in Visits : ~Past(w, s) /\ (Holds(w, s) => w = v)
          /\ Past(v, s) => completed[s] = 0 /\ \A w \in Visits : Past(w, s) => w = v

\* A state is used only when it was issued.
StateInv ==
    /\ gdrive.state \in O!Issued \cup {0}
    /\ \A v \in Visits :
          /\ visit[v].pc # "idle" => visit[v].state \in O!Issued /\ visit[v].account \in Accounts
          /\ visit[v].held \in O!Issued \cup {0}
    /\ \A s \in O!States \ O!Issued : completed[s] = 0
    /\ \A s \in O!States \ reusable : InOnePlace(s)

DriveInv == O!DriveTypeOK /\ FolderInv /\ StateInv

\* Steps that change neither the stored state nor a callback
LEMMA StatesKept ==
    ASSUME StateInv, gdrive'.state = gdrive.state, UNCHANGED <<flow, visit, completed, reusable>>
    PROVE  StateInv'
BY DEF StateInv, InOnePlace, Holds, Past, O!Issued, O!States

\* Steps that change neither the connection nor a backup
LEMMA FolderKept ==
    ASSUME FolderInv, gdrive'.token = gdrive.token, gdrive'.folder = gdrive.folder, UNCHANGED <<use, mixed>>
    PROVE  FolderInv'
BY DEF FolderInv, O!FolderIsOfAccount, O!Tokens

LEMMA DriveConstants ==
    /\ None \notin Apps /\ None \notin Accounts /\ None \notin O!Tokens
    /\ Budget \in Nat /\ Apps # {} /\ Accounts # {}
BY OperationsAssumption DEF O!DriveAssumption

LEMMA DriveInitially == Init => DriveInv
<1> SUFFICES ASSUME O!DriveInit PROVE DriveInv
  BY DEF Init
<1> USE DriveConstants
<1> DEFINE a == CHOOSE a \in Apps : TRUE
           x == CHOOSE x \in Accounts : TRUE
           token == [app |-> a, account |-> x]
<1>1. a \in Apps /\ x \in Accounts
  OBVIOUS
<1>2. token \in O!Tokens /\ token # None /\ token.account = x
  BY <1>1 DEF O!Tokens
<1>3. \/ gdrive = [app |-> None, token |-> None, folder |-> None, state |-> 0]
      \/ gdrive = [app |-> a, token |-> token, folder |-> None, state |-> 0]
      \/ gdrive = [app |-> a, token |-> token, folder |-> x, state |-> 0]
  BY ZenonT(40) DEF O!DriveInit
<1> HIDE DEF a, x, token
<1>4. gdrive \in O!Connections /\ gdrive.state = 0
  BY <1>1, <1>2, <1>3 DEF O!Connections
<1>5. O!DriveTypeOK
  <2>1. O!NoVisit \in O!Callbacks /\ O!NoUse \in O!BackupCalls
    BY DEF O!NoVisit, O!NoUse, O!Callbacks, O!BackupCalls
  <2>2. visit \in [Visits -> O!Callbacks] /\ use \in [Uses -> O!BackupCalls]
    BY <2>1 DEF O!DriveInit
  <2>3. flow \in [O!States -> Apps \cup {None}] /\ completed \in [O!States -> 0 .. 2]
    BY DEF O!DriveInit
  <2>4. expired \subseteq O!States /\ reusable \subseteq O!States /\ mixed \in BOOLEAN
    BY DEF O!DriveInit
  <2> QED  BY <1>4, <2>2, <2>3, <2>4 DEF O!DriveTypeOK
<1>6. FolderInv
  BY <1>2, <1>3 DEF O!DriveInit, FolderInv, O!FolderIsOfAccount, O!NoUse
<1>7. O!Issued = {}
  BY DEF O!DriveInit, O!Issued
<1>8. StateInv
  BY <1>4, <1>7 DEF O!DriveInit, O!NoVisit, O!States, StateInv, InOnePlace, Holds, Past
<1> QED  BY <1>5, <1>6, <1>8 DEF DriveInv

LEMMA SetConfigStep == ASSUME DriveInv, NEW a \in Apps, O!SetGDriveConfig(a) PROVE DriveInv'
<1> USE DEF DriveInv, O!SetGDriveConfig
<1>1. O!DriveTypeOK'  BY DEF O!DriveTypeOK, O!Connections
<1>2. FolderInv'  BY FolderKept DEF O!DriveTypeOK, O!Connections
<1>3. StateInv'  BY StatesKept DEF O!DriveTypeOK, O!Connections
<1> QED  BY <1>1, <1>2, <1>3

LEMMA AuthURLStep == DriveInv /\ O!GDriveAuthURL => DriveInv'
<1> SUFFICES ASSUME DriveInv, O!GDriveAuthURL PROVE DriveInv'
  OBVIOUS
<1> USE DriveConstants DEF DriveInv
<1>0. PICK s \in O!States \ O!Issued :
        flow' = [flow EXCEPT ![s] = gdrive.app] /\ gdrive' = [gdrive EXCEPT !.state = s]
  BY DEF O!GDriveAuthURL
<1>1. gdrive.app # None /\ UNCHANGED <<expired, visit, use, completed, reusable, mixed>>
  BY DEF O!GDriveAuthURL
<1>2. s \in 0 .. Budget /\ s # 0
  BY DEF O!States
<1>3. /\ gdrive' \in O!Connections /\ gdrive'.state = s
      /\ gdrive'.token = gdrive.token /\ gdrive'.folder = gdrive.folder
  BY <1>0, <1>2 DEF O!DriveTypeOK, O!Connections
<1>4. O!DriveTypeOK'
  <2>1. flow' \in [O!States -> Apps \cup {None}]
    BY <1>0 DEF O!DriveTypeOK, O!Connections
  <2> QED  BY <1>3, <1>1, <2>1 DEF O!DriveTypeOK, O!States
<1>5. FolderInv'  BY <1>3, <1>1, FolderKept
<1>6. O!Issued' = O!Issued \cup {s}
  BY <1>0, <1>1, <1>2 DEF O!DriveTypeOK, O!Issued, O!States
<1>7. completed[s] = 0 /\ \A v \in Visits : ~Past(v, s) /\ ~Holds(v, s)
  BY <1>2 DEF StateInv, Past, Holds
<1>8. ASSUME NEW t \in O!States \ reusable PROVE InOnePlace(t)'
  <2>1. InOnePlace(t)
    BY DEF StateInv
  <2>2. \A v \in Visits : (Holds(v, t)' <=> Holds(v, t)) /\ (Past(v, t)' <=> Past(v, t))
    BY <1>1 DEF Holds, Past
  <2> QED  BY <1>3, <1>1, <1>7, <2>1, <2>2 DEF InOnePlace
<1>9. StateInv'
  BY <1>3, <1>1, <1>6, <1>8 DEF StateInv, O!States
<1> QED  BY <1>4, <1>5, <1>9

LEMMA TenMinutesStep == DriveInv /\ O!TenMinutesPass => DriveInv'
<1> SUFFICES ASSUME DriveInv, O!TenMinutesPass PROVE DriveInv'
  OBVIOUS
<1> USE DEF DriveInv, O!TenMinutesPass
<1>1. O!DriveTypeOK'  BY DEF O!DriveTypeOK, O!Issued
<1>2. FolderInv' /\ StateInv'  BY FolderKept, StatesKept
<1> QED  BY <1>1, <1>2

LEMMA CallbackStep ==
    ASSUME DriveInv, NEW v \in Visits, NEW s \in 1 .. Budget, NEW a \in Accounts, O!GDriveCallback(v, s, a)
    PROVE  DriveInv'
<1> USE DriveConstants DEF DriveInv, O!GDriveCallback
<1>1. O!DriveTypeOK'  BY DEF O!DriveTypeOK, O!Callbacks
<1>2. FolderInv'  BY FolderKept
<1>3. StateInv'  BY DEF O!DriveTypeOK, O!Callbacks, StateInv, InOnePlace, Holds, Past, O!Issued, O!States
<1> QED  BY <1>1, <1>2, <1>3

LEMMA ReadStateStep == ASSUME DriveInv, NEW v \in Visits, O!ReadState(v) PROVE DriveInv'
<1> USE DriveConstants DEF DriveInv, O!ReadState
<1>0. visit' = [visit EXCEPT ![v] = [visit[v] EXCEPT !.pc = "clear", !.held = gdrive.state]]
  BY DEF O!DriveTypeOK, O!Callbacks
<1>1. O!DriveTypeOK'  BY <1>0 DEF O!DriveTypeOK, O!Connections, O!Callbacks
<1>2. FolderInv'  BY FolderKept
<1>3. O!Issued' = O!Issued  BY DEF O!Issued
<1>4. ASSUME NEW s \in O!States \ reusable' PROVE InOnePlace(s)'
  <2>1. s \in O!States \ reusable
    OBVIOUS
  <2>2. gdrive.state = s => \A w \in Visits \ {v} : ~Holds(w, s)
    BY <1>4 DEF Holds
  <2>3. \A w \in Visits : Past(w, s)' <=> Past(w, s) /\ w # v
    BY <1>0 DEF Past, O!DriveTypeOK, O!Callbacks
  <2>4. \A w \in Visits : Holds(w, s)' <=> IF w = v THEN gdrive.state = s ELSE Holds(w, s)
    BY <1>0 DEF Holds, O!DriveTypeOK, O!Callbacks
  <2>5. InOnePlace(s)
    BY <2>1 DEF StateInv
  <2> QED  BY <2>2, <2>3, <2>4, <2>5 DEF InOnePlace
<1>5. StateInv'  BY <1>0, <1>3, <1>4 DEF StateInv, O!DriveTypeOK, O!Connections, O!Callbacks
<1> QED  BY <1>1, <1>2, <1>5

LEMMA ClearStateStep == ASSUME DriveInv, NEW v \in Visits, O!ClearState(v) PROVE DriveInv'
<1> USE DriveConstants DEF DriveInv
<1>0. /\ \/ gdrive' = [gdrive EXCEPT !.state = 0] /\ reusable' = reusable
         \/ /\ gdrive' = gdrive
            /\ reusable' = IF O!Valid(v) /\ gdrive.state = visit[v].state
                           THEN reusable \cup {gdrive.state} ELSE reusable
      /\ visit[v].pc = "clear"
      /\ IF O!Valid(v) THEN visit' = [visit EXCEPT ![v].pc = "exchange"] ELSE visit' = [visit EXCEPT ![v] = O!NoVisit]
      /\ UNCHANGED <<flow, expired, use, completed, mixed>>
  BY DEF O!ClearState, O!VisitEnds
<1>1. O!DriveTypeOK'
  <2>1. gdrive' \in O!Connections
    BY <1>0 DEF O!DriveTypeOK, O!Connections
  <2>2. visit' \in [Visits -> O!Callbacks]
    BY <1>0, SMTT(40) DEF O!DriveTypeOK, O!Callbacks, O!NoVisit
  <2>3. reusable' \subseteq O!States
    BY <1>0 DEF StateInv, O!DriveTypeOK, O!Issued
  <2> QED  BY <1>0, <2>1, <2>2, <2>3 DEF O!DriveTypeOK
<1>2. FolderInv'  BY <1>0, FolderKept DEF O!DriveTypeOK, O!Connections
<1>3. O!Issued' = O!Issued /\ gdrive'.state \in {0, gdrive.state}
  BY <1>0 DEF O!Issued, O!DriveTypeOK, O!Connections
<1>4. ASSUME NEW s \in O!States \ reusable' PROVE InOnePlace(s)'
  <2>1. InOnePlace(s)
    BY <1>0 DEF StateInv
  <2>2. \A w \in Visits : Holds(w, s)' <=> Holds(w, s) /\ w # v
    BY <1>0 DEF Holds, O!DriveTypeOK, O!Callbacks, O!NoVisit
  <2>3. \A w \in Visits : Past(w, s)' => Past(w, s) \/ (w = v /\ Holds(v, s) /\ O!Valid(v))
    BY <1>0 DEF Past, Holds, O!Valid, O!DriveTypeOK, O!Callbacks, O!NoVisit
  <2>4. gdrive'.state = s => gdrive.state = s /\ ~(Holds(v, s) /\ O!Valid(v))
    BY <1>0, <1>3 DEF Holds, O!Valid, O!States, O!DriveTypeOK, O!Connections
  <2> QED  BY <1>0, <2>1, <2>2, <2>3, <2>4 DEF InOnePlace
<1>5. StateInv'  BY <1>0, <1>3, <1>4 DEF StateInv, O!DriveTypeOK, O!Callbacks, O!NoVisit
<1> QED  BY <1>1, <1>2, <1>5

LEMMA ExchangeStep == ASSUME DriveInv, NEW v \in Visits, O!Exchange(v) PROVE DriveInv'
<1> USE DriveConstants DEF DriveInv, O!Exchange, O!VisitEnds, O!NoVisit
<1>1. O!DriveTypeOK'  BY DEF O!DriveTypeOK, O!Callbacks
<1>2. FolderInv'  BY FolderKept
<1>3. O!Issued' = O!Issued  BY DEF O!Issued
<1>4. ASSUME NEW s \in O!States \ reusable' PROVE InOnePlace(s)'
  <2>1. InOnePlace(s)
    BY DEF StateInv
  <2>2. \A w \in Visits : (Holds(w, s)' => Holds(w, s)) /\ (Past(w, s)' => Past(w, s))
    BY DEF Holds, Past, O!DriveTypeOK, O!Callbacks
  <2> QED  BY <2>1, <2>2 DEF InOnePlace
<1>5. StateInv'  BY <1>3, <1>4 DEF StateInv, O!DriveTypeOK, O!Callbacks
<1> QED  BY <1>1, <1>2, <1>5

LEMMA SaveTokenStep == ASSUME DriveInv, NEW v \in Visits, O!SaveToken(v) PROVE DriveInv'
<1> USE DriveConstants DEF DriveInv, O!SaveToken, O!VisitEnds, O!NoVisit, O!Crossed
<1> DEFINE t == visit[v].state
           token == [app |-> flow[t], account |-> visit[v].account]
<1>0. t \in O!Issued /\ t \in O!States /\ token \in O!Tokens /\ token # None
  BY DEF StateInv, O!Issued, O!Tokens, O!DriveTypeOK, O!Callbacks
<1>1. gdrive' = [gdrive EXCEPT !.token = token] /\ token.account = visit[v].account
  OBVIOUS
<1> HIDE DEF token
<1>2. /\ gdrive'.token = token /\ gdrive'.folder = gdrive.folder /\ gdrive'.state = gdrive.state
      /\ gdrive' \in O!Connections
  BY <1>0, <1>1 DEF O!DriveTypeOK, O!Connections
<1>3. ASSUME NEW u \in Uses
      PROVE  use'[u] = [pc |-> use[u].pc, token |-> use[u].token, folder |-> use[u].folder,
                        crossed |-> use[u].pc # "idle"]
  BY DEF O!DriveTypeOK, O!BackupCalls
<1>4. O!DriveTypeOK'
  <2>1. use' \in [Uses -> O!BackupCalls]
    <3>1. \A u \in Uses : /\ use[u].pc \in {"idle", "folder", "keep", "store"}
                           /\ use[u].token \in O!Tokens \cup {None} /\ use[u].folder \in Accounts \cup {None}
      BY DEF O!DriveTypeOK, O!BackupCalls
    <3>2. ASSUME NEW u \in Uses, NEW b \in BOOLEAN
          PROVE  [pc |-> use[u].pc, token |-> use[u].token, folder |-> use[u].folder, crossed |-> b]
                    \in O!BackupCalls
      BY <3>1 DEF O!BackupCalls
    <3>3. ASSUME NEW u \in Uses PROVE use'[u] \in O!BackupCalls
      <4>1. (use[u].pc # "idle") \in BOOLEAN
        OBVIOUS
      <4> QED  BY ONLY <1>3, <3>2, <4>1
    <3> QED  BY <3>3
  <2>2. visit' \in [Visits -> O!Callbacks]
    BY DEF O!DriveTypeOK, O!Callbacks
  <2>3. completed' \in [O!States -> 0 .. 2]
    <3>1. completed[t] \in 0 .. 2 /\ (IF completed[t] = 2 THEN 2 ELSE completed[t] + 1) \in 0 .. 2
      BY <1>0 DEF O!DriveTypeOK
    <3> QED  BY <3>1 DEF O!DriveTypeOK
  <2>4. mixed' \in BOOLEAN
    BY DEF O!DriveTypeOK
  <2> QED  BY <1>2, <2>1, <2>2, <2>3, <2>4 DEF O!DriveTypeOK
<1>5. FolderInv'
  <2>1. ~mixed' => ~mixed /\ (gdrive.token = None \/ gdrive.token.account = token.account)
    BY <1>1
  <2>2. ~mixed' => gdrive.folder = None \/ gdrive.folder = token.account
    BY <2>1 DEF FolderInv, O!FolderIsOfAccount
  <2>3. O!FolderIsOfAccount' /\ gdrive'.token # None
    BY <1>0, <1>2, <2>2 DEF O!FolderIsOfAccount
  <2>4. ASSUME NEW u \in Uses, use'[u].pc # "idle"
        PROVE  /\ use'[u].token \in O!Tokens /\ use'[u].crossed
               /\ use'[u].pc = "keep" => use'[u].folder = use'[u].token.account
    <3>1. /\ use'[u].pc = use[u].pc /\ use'[u].token = use[u].token /\ use'[u].folder = use[u].folder
          /\ use'[u].crossed = (use[u].pc # "idle")
      BY <1>3, ZenonT(40)
    <3> QED  BY <3>1, <2>4, ZenonT(40) DEF FolderInv
  <2> QED  BY <2>3, <2>4 DEF FolderInv, O!Tokens
<1>6. O!Issued' = O!Issued  BY DEF O!Issued
<1>7. Past(v, t)
  BY DEF Past
<1>8. completed[t] = 0 => completed'[t] = 1
  BY <1>0 DEF O!DriveTypeOK
<1>9. ASSUME NEW s \in O!States \ reusable' PROVE InOnePlace(s)'
  <2>1. InOnePlace(s)
    BY DEF StateInv
  <2>2. \A w \in Visits : (Holds(w, s)' => Holds(w, s)) /\ (Past(w, s)' => Past(w, s) /\ w # v)
    BY DEF Holds, Past, O!DriveTypeOK
  <2>3. CASE s = t
    <3>1. completed[s] = 0 /\ (\A w \in Visits : ~Holds(w, s) /\ (Past(w, s) => w = v)) /\ gdrive.state # s
      BY <1>7, <2>1, <2>3 DEF InOnePlace
    <3>2. completed'[s] = 1
      BY <1>8, <2>3, <3>1
    <3> QED  BY <1>2, <2>2, <3>1, <3>2 DEF InOnePlace
  <2>4. CASE s # t
    <3>1. completed'[s] = completed[s]
      BY <1>0, <2>4 DEF O!DriveTypeOK
    <3> QED  BY <1>2, <2>1, <2>2, <3>1 DEF InOnePlace
  <2> QED  BY <2>3, <2>4
<1>10. \A s \in O!States \ O!Issued : completed'[s] = completed[s]
  BY <1>0 DEF O!DriveTypeOK
<1>11. StateInv'  BY <1>2, <1>6, <1>9, <1>10 DEF StateInv, O!DriveTypeOK, O!Callbacks
<1> QED  BY <1>4, <1>5, <1>11

LEMMA DisconnectStep == DriveInv /\ O!GDriveDisconnect => DriveInv'
<1> SUFFICES ASSUME DriveInv, O!GDriveDisconnect PROVE DriveInv'
  OBVIOUS
<1> USE DriveConstants DEF DriveInv, O!GDriveDisconnect, O!Crossed
<1>1. O!DriveTypeOK'  BY ZenonT(40) DEF O!DriveTypeOK, O!Connections, O!BackupCalls
<1>2. FolderInv'
  <2>1. gdrive'.token = None /\ gdrive'.folder = None
    BY DEF O!DriveTypeOK, O!Connections
  <2>2. ASSUME NEW u \in Uses
        PROVE  use'[u] = [pc |-> use[u].pc, token |-> use[u].token, folder |-> use[u].folder,
                          crossed |-> use[u].pc # "idle"]
    BY DEF O!DriveTypeOK, O!BackupCalls
  <2>3. ASSUME NEW u \in Uses, use'[u].pc # "idle"
        PROVE  /\ use'[u].token \in O!Tokens /\ use'[u].crossed
               /\ use'[u].pc = "keep" => use'[u].folder = use'[u].token.account
    BY <2>2, <2>3, ZenonT(40) DEF FolderInv
  <2> QED  BY <2>1, <2>3 DEF FolderInv, O!FolderIsOfAccount, O!Tokens
<1>3. StateInv'  BY StatesKept DEF O!DriveTypeOK, O!Connections
<1> QED  BY <1>1, <1>2, <1>3

LEMMA BackupSteps ==
    ASSUME DriveInv, NEW u \in Uses,
           O!UseDrive(u) \/ O!EnsureBackupsFolder(u) \/ O!KeepFolder(u) \/ O!StoreInDrive(u)
    PROVE  DriveInv'
<1> USE DriveConstants DEF DriveInv, O!UseEnds, O!NoUse
<1>1. CASE O!UseDrive(u)
  <2>1. O!DriveTypeOK'  BY <1>1 DEF O!UseDrive, O!DriveTypeOK, O!Connections, O!BackupCalls
  <2>2. FolderInv'  BY <1>1 DEF O!UseDrive, FolderInv, O!FolderIsOfAccount, O!DriveTypeOK, O!Connections, O!BackupCalls
  <2>3. StateInv'  BY <1>1, StatesKept DEF O!UseDrive
  <2> QED  BY <2>1, <2>2, <2>3
<1>2. CASE O!EnsureBackupsFolder(u)
  <2>1. O!DriveTypeOK'
    <3>1. use[u].token \in O!Tokens /\ use[u].token.account \in Accounts
      BY <1>2 DEF O!EnsureBackupsFolder, FolderInv, O!Tokens
    <3>2. PICK call \in O!BackupCalls : use' = [use EXCEPT ![u] = call]
      <4>1. [use[u] EXCEPT !.pc = "keep", !.folder = use[u].token.account] \in O!BackupCalls
        BY <3>1, ZenonT(40) DEF O!DriveTypeOK, O!BackupCalls
      <4>2. O!NoUse \in O!BackupCalls
        BY DEF O!BackupCalls
      <4> QED  BY <1>2, <4>1, <4>2 DEF O!EnsureBackupsFolder, O!DriveTypeOK
    <3> QED  BY <1>2, <3>2 DEF O!EnsureBackupsFolder, O!DriveTypeOK
  <2>2. FolderInv'  BY <1>2 DEF O!EnsureBackupsFolder, FolderInv, O!FolderIsOfAccount, O!DriveTypeOK, O!BackupCalls
  <2>3. StateInv'  BY <1>2, StatesKept DEF O!EnsureBackupsFolder
  <2> QED  BY <2>1, <2>2, <2>3
<1>3. CASE O!KeepFolder(u)
  <2>1. O!DriveTypeOK'  BY <1>3 DEF O!KeepFolder, O!DriveTypeOK, O!Connections, O!BackupCalls
  <2>2. gdrive' = [gdrive EXCEPT !.folder = use[u].folder] /\ use' = [use EXCEPT ![u] = [use[u] EXCEPT !.pc = "store"]]
    BY <1>3 DEF O!KeepFolder
  <2>3. /\ gdrive'.folder = use[u].token.account /\ gdrive'.token = gdrive.token
        /\ use[u].token \in O!Tokens /\ (~use[u].crossed => use[u].token = gdrive.token)
    BY <1>3, <2>2 DEF O!KeepFolder, FolderInv, O!DriveTypeOK, O!Connections, O!BackupCalls
  <2>4. mixed' <=> mixed \/ use[u].crossed
    BY <1>3 DEF O!KeepFolder, O!DriveTypeOK, O!BackupCalls
  <2>5. \A w \in Uses : /\ use'[w].token = use[w].token /\ use'[w].crossed = use[w].crossed
                        /\ w # u => use'[w] = use[w]
                        /\ use'[u].pc = "store" /\ use[u].pc = "keep"
    BY <1>3, <2>2 DEF O!KeepFolder, O!DriveTypeOK, O!BackupCalls
  <2>6. FolderInv'  BY <2>3, <2>4, <2>5 DEF FolderInv, O!FolderIsOfAccount
  <2>7. StateInv'  BY <1>3, <2>2, StatesKept DEF O!KeepFolder, O!DriveTypeOK, O!Connections
  <2> QED  BY <2>1, <2>6, <2>7
<1>4. CASE O!StoreInDrive(u)
  <2>1. O!DriveTypeOK'  BY <1>4 DEF O!StoreInDrive, O!DriveTypeOK, O!BackupCalls
  <2>2. FolderInv'  BY <1>4 DEF O!StoreInDrive, FolderInv, O!FolderIsOfAccount, O!DriveTypeOK, O!BackupCalls
  <2>3. StateInv'  BY <1>4, StatesKept DEF O!StoreInDrive
  <2> QED  BY <2>1, <2>2, <2>3
<1> QED  BY <1>1, <1>2, <1>3, <1>4

LEMMA DriveDropStep == DriveInv /\ O!DriveDropped => DriveInv'
<1> SUFFICES ASSUME DriveInv, O!DriveDropped PROVE DriveInv'
  OBVIOUS
<1> USE DriveConstants DEF DriveInv, O!DriveDropped, O!NoVisit, O!NoUse
<1>1. O!DriveTypeOK'  BY DEF O!DriveTypeOK, O!Callbacks, O!BackupCalls
<1>2. FolderInv'  BY DEF FolderInv, O!FolderIsOfAccount
<1>3. StateInv'  BY DEF StateInv, InOnePlace, Holds, Past, O!Issued, O!States
<1> QED  BY <1>1, <1>2, <1>3

LEMMA DriveSteps == DriveInv /\ Drive => DriveInv'
BY SetConfigStep, AuthURLStep, TenMinutesStep, CallbackStep, ReadStateStep, ClearStateStep, ExchangeStep,
   SaveTokenStep, DisconnectStep, BackupSteps DEF Drive

LEMMA DriveInvSteps == DriveInv /\ [Next]_vars => DriveInv'
<1> SUFFICES ASSUME DriveInv, [Next]_vars PROVE DriveInv'
  OBVIOUS
<1>0. ASSUME UNCHANGED driveVars PROVE DriveInv'
  <2>1. O!DriveTypeOK'  BY <1>0 DEF driveVars, DriveInv, O!DriveTypeOK
  <2>2. FolderInv' /\ StateInv'  BY <1>0, FolderKept, StatesKept DEF driveVars, DriveInv
  <2> QED  BY <2>1, <2>2 DEF DriveInv
<1>1. CASE DockerPages
  BY <1>0, <1>1, DockerPagesQuiet DEF serverVars, adminVars
<1>2. CASE Settings \/ Adopt
  BY <1>0, <1>2, SettingsQuiet, AdoptQuiet
<1>3. CASE Retain \/ Alert \/ EditHba \/ MakeDatabases
  BY <1>0, <1>3, RetainQuiet, AlertQuiet, EditHbaQuiet, MakeDatabasesQuiet DEF adminVars
<1>4. CASE Drive
  BY <1>4, DriveSteps
<1>5. CASE Crash
  BY <1>5, DriveDropStep DEF Crash
<1>6. CASE UNCHANGED vars
  BY <1>0, <1>6 DEF vars, serverVars, adminVars
<1> QED  BY <1>1, <1>2, <1>3, <1>4, <1>5, <1>6 DEF Next, DockerPages

\* A consent connects an account once, and the folder of the backups is of the
\* account that is connected, however callbacks, backups, disconnects and
\* crashes come in between; except as StateConnectsOnce and FolderIsOfAccount say.
THEOREM DriveIsOfConsent == Spec => []DriveFollowsConsent
<1>1. DriveInv => DriveFollowsConsent
  BY DEF DriveInv, FolderInv, StateInv, InOnePlace, DriveFollowsConsent, O!StateConnectsOnce
<1> QED  BY DriveInitially, DriveInvSteps, <1>1, PTL DEF Spec

-----------------------------------------------------------------------------
(* Extensions and parameters *)

Confs == [libs : Seq(S!Libs), cron : Catalogs \cup {None}, param : [Params -> Int]]
Changes == [pc : {"idle", "show", "alter", "cron", "restart", "create", "set", "reload"},
            ext : S!Libs \cup {None}, db : Catalogs \cup {None}, read : Seq(S!Libs),
            left : SUBSET Params, set : SUBSET Params, restart : BOOLEAN]

SettingsShape ==
    /\ auto \in Confs /\ live \in Confs /\ change \in [Admins -> Changes]
    /\ \A a \in Admins : change[a].pc \in {"show", "alter", "cron", "restart", "create"} =>
                           change[a].ext \in S!Libs

\* A library that runs is in the file too, and so is one that a request is past
\* writing, or one of the two has been erased.
LibsKept ==
    /\ \A e \in S!Libs \ erased : S!Contains(live.libs, e) => S!Contains(auto.libs, e)
    /\ \A a \in Admins :
         LET e == change[a].ext IN
         e \notin erased =>
            /\ change[a].pc \in {"cron", "restart", "create"} => S!Contains(auto.libs, e)
            /\ change[a].pc = "create" => S!Contains(live.libs, e)

GrantedKept ==
    \A g \in granted :
        /\ g[1] \in S!Libs
        /\ g[1] \notin erased => S!Contains(auto.libs, g[1]) /\ S!Contains(live.libs, g[1])
        /\ g[1] \notin erased /\ g[1] = S!Cron => auto.cron = g[2] /\ live.cron = g[2]

\* A request that has set a parameter which takes a restart will say so.
RestartIsSaid ==
    \A a \in Admins : change[a].set \cap Static # {} => change[a].restart

SettingsInv == SettingsShape /\ LibsKept /\ GrantedKept /\ RestartIsSaid /\ S!PendingIsAnnounced

LEMMA SettingsConstants == Static \subseteq Params /\ Budget \in Nat
BY OperationsAssumption DEF S!SettingsAssumption

LEMMA NoChangeIsOne == S!NoChange \in Changes /\ S!NoChange.pc = "idle" /\ S!NoChange.set = {}
BY DEF S!NoChange, Changes

LEMMA ContainsIsRange ==
    ASSUME NEW s \in Seq(S!Libs), NEW e
    PROVE  S!Contains(s, e) <=> e \in S!Range(s)
BY DEF S!Contains, S!Range

LEMMA Prepended ==
    ASSUME NEW s \in Seq(S!Libs), NEW x \in S!Libs, NEW e
    PROVE  /\ <<x>> \o s \in Seq(S!Libs)
           /\ S!Contains(<<x>> \o s, e) <=> e = x \/ S!Contains(s, e)
<1>1. Len(<<x>> \o s) = Len(s) + 1 /\ (<<x>> \o s)[1] = x /\ \A i \in 1 .. Len(s) : (<<x>> \o s)[i + 1] = s[i]
  OBVIOUS
<1>2. ASSUME NEW i \in 1 .. Len(<<x>> \o s), i # 1
      PROVE  \E j \in 1 .. Len(s) : (<<x>> \o s)[i] = s[j]
  <2>1. PICK j \in 1 .. Len(s) : i = j + 1
    <3>1. i - 1 \in 1 .. Len(s) /\ i = (i - 1) + 1
      BY <1>1, <1>2
    <3> QED  BY <3>1
  <2> QED  BY <1>1, <2>1
<1>3. ASSUME S!Contains(<<x>> \o s, e) PROVE e = x \/ S!Contains(s, e)
  BY <1>1, <1>2, <1>3 DEF S!Contains
<1>4. ASSUME e = x \/ S!Contains(s, e) PROVE S!Contains(<<x>> \o s, e)
  <2>1. CASE e = x  BY <1>1, <2>1 DEF S!Contains
  <2>2. CASE S!Contains(s, e)
    <3>1. PICK i \in 1 .. Len(s) : s[i] = e
      BY <2>2 DEF S!Contains
    <3>2. i + 1 \in 1 .. Len(<<x>> \o s) /\ (<<x>> \o s)[i + 1] = e
      BY <1>1, <3>1
    <3> QED  BY <3>2 DEF S!Contains
  <2> QED  BY <1>4, <2>1, <2>2
<1> QED  BY <1>3, <1>4

LEMMA SettingsInitially == Init => SettingsInv
<1> SUFFICES ASSUME S!SettingsInit PROVE SettingsInv
  BY DEF Init
<1> USE DEF S!SettingsInit, S!NoChange
<1>1. "pg_stat_statements" \in S!Libs
  BY DEF S!Libs
<1>2. SettingsShape  BY <1>1 DEF SettingsShape, Confs, Changes
<1>3. LibsKept /\ GrantedKept /\ RestartIsSaid /\ S!PendingIsAnnounced
  BY DEF LibsKept, GrantedKept, RestartIsSaid, S!PendingIsAnnounced
<1> QED  BY <1>2, <1>3 DEF SettingsInv

\* A request arrives: of an extension, or of parameters.
LEMMA AskStep ==
    ASSUME SettingsInv, NEW a \in Admins,
           \/ \E e \in S!Libs, d \in Catalogs : S!EnableExtension(a, e, d)
           \/ \E ps \in SUBSET Params \ {{}} : S!ApplyExpandedConfig(a, ps)
    PROVE  SettingsInv'
<1> USE DEF SettingsInv
<1>1. PICK new \in Changes :
        /\ change' = [change EXCEPT ![a] = new] /\ change[a].pc = "idle"
        /\ UNCHANGED <<auto, live, enabled, granted, erased, announced, refused>>
        /\ new.pc \in {"show", "set"} /\ new.set = {} /\ (new.pc = "show" => new.ext \in S!Libs)
  <2>1. CASE \E e \in S!Libs, d \in Catalogs : S!EnableExtension(a, e, d)
    <3>1. PICK e \in S!Libs, d \in Catalogs : S!EnableExtension(a, e, d)
      BY <2>1
    <3>2. [S!NoChange EXCEPT !.pc = "show", !.ext = e, !.db = d] \in Changes
      BY NoChangeIsOne DEF Changes
    <3> QED  BY <3>1, <3>2 DEF S!EnableExtension, S!NoChange, S!Ready
  <2>2. CASE \E ps \in SUBSET Params \ {{}} : S!ApplyExpandedConfig(a, ps)
    <3>1. PICK ps \in SUBSET Params \ {{}} : S!ApplyExpandedConfig(a, ps)
      BY <2>2
    <3>2. [S!NoChange EXCEPT !.pc = "set", !.left = ps] \in Changes
      BY NoChangeIsOne DEF Changes
    <3> QED  BY <3>1, <3>2 DEF S!ApplyExpandedConfig, S!NoChange, S!Ready
  <2> QED  BY <2>1, <2>2
<1>2. SettingsShape'  BY <1>1 DEF SettingsShape
<1>3. LibsKept' /\ GrantedKept' /\ RestartIsSaid'
  BY <1>1 DEF LibsKept, GrantedKept, RestartIsSaid, SettingsShape
<1>4. S!PendingIsAnnounced'
  BY <1>1 DEF S!PendingIsAnnounced, S!SetBy, SettingsShape
<1> QED  BY <1>2, <1>3, <1>4

LEMMA ShowStep == ASSUME SettingsInv, NEW a \in Admins, S!ShowLibs(a) PROVE SettingsInv'
<1> USE DEF SettingsInv
<1> DEFINE e == change[a].ext
<1>0. e \in S!Libs /\ live.libs \in Seq(S!Libs)
  BY DEF S!ShowLibs, SettingsShape, Confs
<1>1. PICK pc \in {"cron", "restart", "alter"} :
        /\ change' = [change EXCEPT ![a].read = live.libs, ![a].pc = pc]
        /\ pc # "alter" => S!ContainsLib(live.libs, e)
  BY DEF S!ShowLibs, S!AfterLib
<1>2. S!ContainsLib(live.libs, e) => S!Contains(live.libs, e)
  BY <1>0 DEF S!ContainsLib, S!Contains
<1> DEFINE new == [change[a] EXCEPT !.read = live.libs, !.pc = pc]
<1>3. /\ change' = [change EXCEPT ![a] = new] /\ new \in Changes
      /\ new.ext = e /\ new.pc = pc /\ new.set = change[a].set /\ new.restart = change[a].restart
  BY <1>0, <1>1, ZenonT(40) DEF SettingsShape, Changes
<1>4. UNCHANGED <<auto, live, enabled, granted, erased, announced, refused>> /\ change[a].pc = "show"
  BY DEF S!ShowLibs
<1> HIDE DEF new
<1>5. SettingsShape'  BY <1>0, <1>3, <1>4 DEF SettingsShape
<1>6. LibsKept'
  BY <1>0, <1>1, <1>2, <1>3, <1>4 DEF LibsKept, SettingsShape
<1>7. GrantedKept' /\ RestartIsSaid'
  BY <1>3, <1>4 DEF GrantedKept, RestartIsSaid, SettingsShape
<1>8. S!PendingIsAnnounced'
  BY <1>1, <1>3, <1>4 DEF S!PendingIsAnnounced, S!SetBy, SettingsShape
<1> QED  BY <1>5, <1>6, <1>7, <1>8

\* The libraries are written, from what SHOW told.
LEMMA AlterLibsStep == ASSUME SettingsInv, NEW a \in Admins, S!AlterLibs(a) PROVE SettingsInv'
<1> USE DEF SettingsInv
<1> DEFINE e == change[a].ext
           libs == <<e>> \o change[a].read
<1>0. e \in S!Libs /\ auto.libs \in Seq(S!Libs) /\ change[a].read \in Seq(S!Libs)
  BY DEF S!AlterLibs, SettingsShape, Confs, Changes
<1>1. PICK pc \in {"cron", "restart"} : change' = [change EXCEPT ![a].pc = pc]
  BY DEF S!AlterLibs, S!AfterLib, S!Goes
<1>2. /\ auto' = [auto EXCEPT !.libs = libs] /\ change[a].pc = "alter"
      /\ erased' = erased \cup (S!Range(auto.libs) \ (S!Range(change[a].read) \cup {e}))
      /\ UNCHANGED <<live, enabled, granted, announced, refused>>
  BY DEF S!AlterLibs
<1>3. libs \in Seq(S!Libs)
  BY <1>0, Prepended
<1>4. \A x : S!Contains(libs, x) <=> x = e \/ S!Contains(change[a].read, x)
  BY <1>0, Prepended
<1>5. \A x \in S!Libs \ erased' : S!Contains(auto.libs, x) => S!Contains(libs, x)
  BY <1>0, <1>2, <1>4, ContainsIsRange
<1>6. S!Contains(libs, e)
  BY <1>4
<1> HIDE DEF libs
<1>7. auto'.libs = libs /\ auto'.cron = auto.cron /\ auto'.param = auto.param
  BY <1>2 DEF SettingsShape, Confs
<1>8. SettingsShape'
  <2>1. auto' \in Confs
    BY <1>0, <1>2, <1>3 DEF SettingsShape, Confs
  <2>2. change' \in [Admins -> Changes]
    <3>1. change[a] \in Changes /\ [change[a] EXCEPT !.pc = pc] \in Changes
      BY <1>1, ZenonT(40) DEF SettingsShape, Changes
    <3> QED  BY <1>1, <3>1 DEF SettingsShape
  <2> QED  BY <1>0, <1>1, <1>2, <2>1, <2>2, SMTT(40) DEF SettingsShape, Changes
<1>9. \A b \in Admins :
        /\ change'[b].ext = change[b].ext /\ change'[b].set = change[b].set /\ change'[b].restart = change[b].restart
        /\ IF b = a THEN change'[b].pc = pc ELSE change'[b].pc = change[b].pc
  BY <1>1 DEF SettingsShape, Changes
<1>10. LibsKept'
  BY <1>0, <1>1, <1>2, <1>5, <1>6, <1>7, <1>9 DEF LibsKept, SettingsShape
<1>11. GrantedKept' /\ RestartIsSaid'
  BY <1>2, <1>5, <1>7, <1>9 DEF GrantedKept, RestartIsSaid
<1>12. S!PendingIsAnnounced'
  BY <1>1, <1>2, <1>7, <1>9 DEF S!PendingIsAnnounced, S!SetBy
<1> QED  BY <1>8, <1>10, <1>11, <1>12

LEMMA AlterCronStep == ASSUME SettingsInv, NEW a \in Admins, S!AlterCron(a) PROVE SettingsInv'
<1> USE DEF SettingsInv
<1>1. /\ change[a].pc = "cron" /\ change' = [change EXCEPT ![a].pc = "restart"]
      /\ auto' = [auto EXCEPT !.cron = change[a].db]
      /\ granted' = {g \in granted : g[1] = S!Cron => g[2] = change[a].db}
      /\ UNCHANGED <<live, enabled, erased, announced, refused>>
  BY DEF S!AlterCron, S!Goes
<1>2. auto'.libs = auto.libs /\ auto'.cron = change[a].db /\ auto'.param = auto.param
  BY <1>1 DEF SettingsShape, Confs
<1>3. SettingsShape'
  <2>1. auto' \in Confs
    BY <1>1 DEF SettingsShape, Confs, Changes
  <2>2. change' \in [Admins -> Changes]
    BY <1>1, ZenonT(40) DEF SettingsShape, Changes
  <2> QED  BY <1>1, <2>1, <2>2, ZenonT(40) DEF SettingsShape, Changes
<1>4. \A b \in Admins :
        /\ change'[b].ext = change[b].ext /\ change'[b].set = change[b].set /\ change'[b].restart = change[b].restart
        /\ IF b = a THEN change'[b].pc = "restart" ELSE change'[b].pc = change[b].pc
  BY <1>1 DEF SettingsShape, Changes
<1>5. LibsKept'
  BY <1>1, <1>2, <1>4 DEF LibsKept
<1>6. GrantedKept' /\ RestartIsSaid'
  BY <1>1, <1>2, <1>4 DEF GrantedKept, RestartIsSaid
<1>7. S!PendingIsAnnounced'
  BY <1>1, <1>2, <1>4 DEF S!PendingIsAnnounced, S!SetBy
<1> QED  BY <1>3, <1>5, <1>6, <1>7

\* The server comes up with what the file says, and requests whose connection
\* it cut fail; or it does not restart, and this one fails.
LEMMA RestartStep == ASSUME SettingsInv, NEW a \in Admins, S!Restart(a) PROVE SettingsInv'
<1> USE DEF SettingsInv
<1>0. change[a].pc = "restart" /\ UNCHANGED <<auto, enabled, granted, erased>>
  BY DEF S!Restart
<1>1. CASE live' = auto /\ announced' = {} /\ refused' = {}
             /\ \E pc \in {"create", "idle"} :
                   change' = [b \in Admins |->
                        IF b \in S!Cut \/ (b = a /\ pc = "idle") THEN S!NoChange
                        ELSE IF b = a THEN [change[a] EXCEPT !.pc = pc] ELSE change[b]]
  <2>1. PICK pc \in {"create", "idle"} :
          change' = [b \in Admins |->
                        IF b \in S!Cut \/ (b = a /\ pc = "idle") THEN S!NoChange
                        ELSE IF b = a THEN [change[a] EXCEPT !.pc = pc] ELSE change[b]]
    BY <1>1
  <2>2. a \notin S!Cut
    BY <1>0 DEF S!Cut
  <2>3. \A b \in Admins :
          /\ change'[b] \in Changes
          /\ \/ change'[b] = S!NoChange
             \/ /\ change'[b].ext = change[b].ext /\ change'[b].set = change[b].set
                /\ change'[b].restart = change[b].restart
                /\ IF b = a THEN change'[b].pc = "create" ELSE change'[b].pc = change[b].pc
    BY <2>1, <2>2, NoChangeIsOne, ZenonT(40) DEF SettingsShape, Changes
  <2>4. SettingsShape'
    BY <1>0, <1>1, <2>1, <2>3, NoChangeIsOne DEF SettingsShape
  <2>5. LibsKept'
    BY <1>0, <1>1, <2>3, NoChangeIsOne DEF LibsKept, SettingsShape
  <2>6. GrantedKept' /\ RestartIsSaid'
    BY <1>0, <1>1, <2>3, NoChangeIsOne DEF GrantedKept, RestartIsSaid
  <2>7. S!PendingIsAnnounced'
    BY <1>0, <1>1 DEF S!PendingIsAnnounced
  <2> QED  BY <2>4, <2>5, <2>6, <2>7
<1>2. CASE S!Ends(a) /\ UNCHANGED <<live, announced, refused>>
  <2>1. change' = [change EXCEPT ![a] = S!NoChange]
    BY <1>2 DEF S!Ends
  <2>2. SettingsShape'  BY <1>0, <1>2, <2>1, NoChangeIsOne DEF SettingsShape
  <2>3. LibsKept' /\ GrantedKept' /\ RestartIsSaid'
    BY <1>0, <1>2, <2>1, NoChangeIsOne DEF LibsKept, GrantedKept, RestartIsSaid, SettingsShape
  <2>4. S!PendingIsAnnounced'
    BY <1>0, <1>2, <2>1, NoChangeIsOne DEF S!PendingIsAnnounced, S!SetBy, SettingsShape
  <2> QED  BY <2>2, <2>3, <2>4
<1> QED  BY <1>1, <1>2 DEF S!Restart

LEMMA CreateStep == ASSUME SettingsInv, NEW a \in Admins, S!CreateExtension(a) PROVE SettingsInv'
<1> USE DEF SettingsInv
<1> DEFINE e == change[a].ext
           d == change[a].db
<1>1. /\ change[a].pc = "create" /\ change' = [change EXCEPT ![a] = S!NoChange]
      /\ UNCHANGED <<auto, live, erased, announced, refused>>
  BY DEF S!CreateExtension, S!Ends
<1>2. \/ granted' = granted
      \/ /\ granted' = granted \cup {<<e, d>>}
         /\ e = S!Cron => live.cron = d /\ auto.cron = d
  BY DEF S!CreateExtension
<1>3. e \in S!Libs /\ (e \notin erased => S!Contains(auto.libs, e) /\ S!Contains(live.libs, e))
  BY <1>1 DEF LibsKept, SettingsShape
<1>4. SettingsShape'  BY <1>1, NoChangeIsOne DEF SettingsShape
<1>5. LibsKept' /\ RestartIsSaid'
  BY <1>1, NoChangeIsOne DEF LibsKept, RestartIsSaid, SettingsShape
<1>6. GrantedKept'
  BY <1>1, <1>2, <1>3 DEF GrantedKept
<1>7. S!PendingIsAnnounced'
  BY <1>1, NoChangeIsOne DEF S!PendingIsAnnounced, S!SetBy, SettingsShape
<1> QED  BY <1>4, <1>5, <1>6, <1>7

LEMMA DisableStep ==
    ASSUME SettingsInv, NEW e \in S!Libs, NEW d \in Catalogs, S!DisableExtension(e, d) PROVE SettingsInv'
<1> USE DEF SettingsInv, S!DisableExtension
<1>1. SettingsShape' /\ LibsKept' /\ RestartIsSaid'
  BY DEF SettingsShape, LibsKept, RestartIsSaid
<1>2. GrantedKept'  BY DEF GrantedKept
<1>3. S!PendingIsAnnounced'  BY DEF S!PendingIsAnnounced, S!SetBy
<1> QED  BY <1>1, <1>2, <1>3

\* A parameter is set, and noted; or PostgreSQL refuses it.
LEMMA SetParamStep ==
    ASSUME SettingsInv, NEW a \in Admins, NEW p \in Params, S!SetParam(a, p) PROVE SettingsInv'
<1> USE DEF SettingsInv
<1>0. change[a].pc = "set" /\ UNCHANGED <<live, enabled, granted, erased, announced>>
  BY DEF S!SetParam
<1>1. CASE auto' = [auto EXCEPT !.param[p] = @ + 1] /\ refused' = refused
             /\ change' = [change EXCEPT ![a].left = @ \ {p}, ![a].set = @ \cup {p},
                             ![a].restart = @ \/ p \in Static,
                             ![a].pc = IF change[a].left = {p} THEN "reload" ELSE "set"]
  <2>1. PICK pc \in {"set", "reload"} : pc = IF change[a].left = {p} THEN "reload" ELSE "set"
    OBVIOUS
  <2>2. PICK toTell \in BOOLEAN : toTell = (change[a].restart \/ p \in Static)
    OBVIOUS
  <2> DEFINE new == [change[a] EXCEPT !.left = @ \ {p}, !.set = @ \cup {p}, !.restart = toTell, !.pc = pc]
  <2>3. change' = [change EXCEPT ![a] = new]
    BY <1>1, <2>1, <2>2, ZenonT(40) DEF SettingsShape, Changes
  <2>4. /\ new \in Changes /\ new.set = change[a].set \cup {p} /\ new.pc = pc /\ new.ext = change[a].ext
        /\ new.restart = toTell
    BY ZenonT(40) DEF SettingsShape, Changes
  <2>5. toTell <=> change[a].restart \/ p \in Static
    BY <2>2
  <2> HIDE DEF new
  <2>6. /\ auto' \in Confs /\ auto'.libs = auto.libs /\ auto'.cron = auto.cron
        /\ \A q \in Params : q # p => auto'.param[q] = auto.param[q]
    <3> DEFINE versions == [auto.param EXCEPT ![p] = auto.param[p] + 1]
    <3>1. auto \in Confs /\ versions \in [Params -> Int] /\ \A q \in Params : q # p => versions[q] = auto.param[q]
      BY DEF SettingsShape, Confs
    <3>2. auto' = [auto EXCEPT !.param = versions]
      BY <1>1
    <3> HIDE DEF versions
    <3> QED  BY <3>1, <3>2 DEF Confs
  <2>7. SettingsShape'  BY <1>0, <2>3, <2>4, <2>6 DEF SettingsShape
  <2>8. LibsKept' /\ GrantedKept'
    BY <1>0, <2>3, <2>4, <2>6 DEF LibsKept, GrantedKept, SettingsShape
  <2>9. RestartIsSaid'
    BY <2>3, <2>4, <2>5 DEF RestartIsSaid, SettingsShape
  <2>10. S!SetBy({b \in Admins : change[b].pc \in {"set", "reload"}}) \cup {p}
           \subseteq S!SetBy({b \in Admins : change[b].pc \in {"set", "reload"}})'
    BY <1>0, <2>3, <2>4 DEF S!SetBy, SettingsShape
  <2>11. S!PendingIsAnnounced'
    BY <1>0, <1>1, <2>6, <2>10, ZenonT(40) DEF S!PendingIsAnnounced
  <2> QED  BY <2>7, <2>8, <2>9, <2>11
<1>2. CASE S!Ends(a) /\ refused' = refused \cup change[a].set /\ auto' = auto
  <2>1. change' = [change EXCEPT ![a] = S!NoChange]
    BY <1>2 DEF S!Ends
  <2>2. SettingsShape'  BY <1>0, <1>2, <2>1, NoChangeIsOne DEF SettingsShape
  <2>3. LibsKept' /\ GrantedKept' /\ RestartIsSaid'
    BY <1>0, <1>2, <2>1, NoChangeIsOne DEF LibsKept, GrantedKept, RestartIsSaid, SettingsShape
  <2>4. S!SetBy({b \in Admins : change[b].pc \in {"set", "reload"}})
           \subseteq change[a].set \cup S!SetBy({b \in Admins : change[b].pc \in {"set", "reload"}})'
    BY <2>1 DEF S!SetBy, SettingsShape
  <2>5. S!PendingIsAnnounced'
    BY <1>0, <1>2, <2>4 DEF S!PendingIsAnnounced
  <2> QED  BY <2>2, <2>3, <2>5
<1> QED  BY <1>1, <1>2 DEF S!SetParam

\* The server follows the file in all but what takes a restart, and of that the
\* answer tells if it is marked; or the reload fails, with the request.
LEMMA ReloadStep == ASSUME SettingsInv, NEW a \in Admins, S!Reload(a) PROVE SettingsInv'
<1> USE DEF SettingsInv
<1> DEFINE followed == [p \in Params |-> IF p \in Postmaster THEN live.param[p] ELSE auto.param[p]]
<1>1. /\ change[a].pc = "reload" /\ change' = [change EXCEPT ![a] = S!NoChange]
      /\ live' \in {live, S!Reloaded}
      /\ UNCHANGED <<auto, enabled, granted, erased>>
  BY DEF S!Reload, S!Ends
<1>2. /\ live' \in Confs /\ live'.libs = live.libs /\ live'.cron = live.cron
      /\ live'.param = live.param \/ live'.param = followed
      /\ live' = S!Reloaded => live'.param = followed
  <2>1. followed \in [Params -> Int] /\ live \in Confs
    BY DEF SettingsShape, Confs
  <2>2. S!Reloaded = [live EXCEPT !.param = followed]
    BY DEF S!Reloaded
  <2> HIDE DEF followed
  <2>3. LET r == S!Reloaded IN
        r \in Confs /\ r.libs = live.libs /\ r.cron = live.cron /\ r.param = followed
    BY <2>1, <2>2 DEF Confs
  <2> QED  BY <1>1, <2>1, <2>3
<1>3. SettingsShape'  BY <1>1, <1>2, NoChangeIsOne DEF SettingsShape
<1>4. LibsKept' /\ GrantedKept' /\ RestartIsSaid'
  BY <1>1, <1>2, NoChangeIsOne DEF LibsKept, GrantedKept, RestartIsSaid, SettingsShape
<1> DEFINE setters == S!SetBy({b \in Admins : change[b].pc \in {"set", "reload"}})
<1>5. setters \subseteq change[a].set \cup setters'
  BY <1>1 DEF S!SetBy, SettingsShape
<1>6. ASSUME live' = S!Reloaded, refused' = refused \cap Postmaster,
             announced' = IF change[a].restart THEN announced \cup change[a].set ELSE announced
      PROVE  S!PendingIsAnnounced'
  <2>1. change[a].set \cap Static \subseteq announced' /\ announced \subseteq announced'
    BY <1>6 DEF RestartIsSaid
  <2>2. ASSUME NEW p \in Params \ S!Unmarked, live'.param[p] # auto'.param[p]
        PROVE  p \in refused' \cup (announced' \cap Static) \cup setters'
    <3>1. p \in Static /\ p \in Postmaster /\ live.param[p] # auto.param[p]
      BY <1>1, <1>2, <1>6, <2>2 DEF S!Unmarked
    <3>2. p \in refused \cup (announced \cap Static) \cup setters
      BY <3>1 DEF S!PendingIsAnnounced
    <3> QED  BY <1>5, <1>6, <2>1, <3>1, <3>2
  <2> QED  BY <2>2 DEF S!PendingIsAnnounced, S!Unmarked
<1>7. ASSUME refused' = refused \cup change[a].set, announced' = announced
      PROVE  S!PendingIsAnnounced'
  <2>1. ASSUME NEW p \in Params, live'.param[p] # auto'.param[p]
        PROVE  live.param[p] # auto.param[p]
    BY <1>1, <1>2, <2>1
  <2>2. ASSUME NEW p \in Params \ S!Unmarked, live'.param[p] # auto'.param[p]
        PROVE  p \in refused' \cup (announced' \cap Static) \cup setters'
    <3>1. p \in refused \cup (announced \cap Static) \cup setters
      BY <2>1, <2>2 DEF S!PendingIsAnnounced
    <3> QED  BY <1>5, <1>7, <3>1
  <2> QED  BY <2>2 DEF S!PendingIsAnnounced, S!Unmarked
<1>8. S!PendingIsAnnounced'
  BY <1>6, <1>7 DEF S!Reload
<1> QED  BY <1>3, <1>4, <1>8

LEMMA SettingsDroppedStep == SettingsInv /\ S!SettingsDropped => SettingsInv'
<1> SUFFICES ASSUME SettingsInv, S!SettingsDropped PROVE SettingsInv'
  OBVIOUS
<1> USE NoChangeIsOne DEF SettingsInv, S!SettingsDropped
<1>1. SettingsShape' /\ LibsKept' /\ GrantedKept' /\ RestartIsSaid'
  BY DEF SettingsShape, LibsKept, GrantedKept, RestartIsSaid
<1>2. S!PendingIsAnnounced'
  BY DEF S!PendingIsAnnounced, S!SetBy
<1> QED  BY <1>1, <1>2

LEMMA SettingsSteps == SettingsInv /\ Settings => SettingsInv'
BY AskStep, ShowStep, AlterLibsStep, AlterCronStep, RestartStep, CreateStep, SetParamStep, ReloadStep,
   DisableStep DEF Settings

LEMMA SettingsUntouched == SettingsInv /\ UNCHANGED settingsVars => SettingsInv'
<1> SUFFICES ASSUME SettingsInv, UNCHANGED settingsVars PROVE SettingsInv'
  OBVIOUS
<1> USE DEF SettingsInv, settingsVars
<1>1. SettingsShape' /\ LibsKept' /\ GrantedKept' /\ RestartIsSaid'
  BY DEF SettingsShape, LibsKept, GrantedKept, RestartIsSaid
<1>2. S!PendingIsAnnounced'
  BY DEF S!PendingIsAnnounced, S!SetBy
<1> QED  BY <1>1, <1>2

LEMMA SettingsHeld == SettingsInv => SettingsHold
BY DEF SettingsInv, GrantedKept, SettingsHold, S!ExtensionsStay

LEMMA SettingsInvSteps == SettingsInv /\ [Next]_vars => SettingsInv'
<1> SUFFICES ASSUME SettingsInv, [Next]_vars PROVE SettingsInv'
  OBVIOUS
<1>1. CASE DockerPages
  BY <1>1, DockerPagesQuiet, SettingsUntouched DEF serverVars, adminVars
<1>2. CASE Adopt \/ Drive
  BY <1>2, AdoptQuiet, DriveQuiet, SettingsUntouched
<1>3. CASE Retain \/ Alert \/ EditHba \/ MakeDatabases
  BY <1>3, RetainQuiet, AlertQuiet, EditHbaQuiet, MakeDatabasesQuiet, SettingsUntouched DEF adminVars
<1>4. CASE Settings
  BY <1>4, SettingsSteps
<1>5. CASE Crash
  BY <1>5, SettingsDroppedStep DEF Crash
<1>6. CASE UNCHANGED vars
  BY <1>6, SettingsUntouched DEF vars, serverVars, adminVars
<1> QED  BY <1>1, <1>2, <1>3, <1>4, <1>5, <1>6 DEF Next, DockerPages

\* An extension that was enabled keeps its library and pg_cron its database, and
\* a parameter that is marked and waits for a restart is known to, however
\* extensions, parameters, reloads that fail or not, restarts and crashes overlap.
THEOREM SettingsAreFollowed == Spec => []SettingsHold
<1> QED  BY SettingsInitially, SettingsInvSteps, SettingsHeld, PTL DEF Spec

-----------------------------------------------------------------------------
(* Data retention *)

Policies == [state : {"on", "off", "gone"}, action : {"archive", "delete"}, last : Int]
DatedRows == [state : {"unborn", "in", "retained", "removed"}, date : Int]
Deals == [pc : {"idle", "listed", "begin", "insert", "delete", "commit", "record"},
          cutoff : Int, copied : SUBSET Rows, deleted : SUBSET Rows]

RetainShape ==
    /\ today \in Int /\ keyed \in BOOLEAN /\ overlap \in BOOLEAN /\ policy \in Policies
    /\ row \in [Rows -> DatedRows] /\ copies \in [Rows -> Nat] /\ deal \in [D!Runners -> Deals]

\* What a run of an archive policy has under way, rows committed between its two
\* statements apart: it deletes what it copied, and that is old.
Moving(x) ==
    /\ deal[x].copied # {} => deal[x].pc \in {"delete", "commit"}
    /\ \A r \in deal[x].copied : row[r].state # "unborn" /\ row[r].date < deal[x].cutoff
    /\ deal[x].pc = "delete" => \A r \in D!Expired(x) : r \in late \/ r \in deal[x].copied
    /\ deal[x].pc = "commit" =>
         /\ \A r \in deal[x].deleted : r \in late \/ r \in deal[x].copied
         /\ \A r \in deal[x].copied : row[r].state = "in" => r \in deal[x].deleted

TwiceOver == overlap /\ ~keyed

\* Only runs that overlap, on a table without a key, copy a row twice.
CopiedRight(r) ==
    /\ row[r].state = "unborn" => copies[r] = 0
    /\ r \in deal["sweep"].copied /\ r \in deal["hand"].copied => TwiceOver
    /\ r \notin late =>
         /\ row[r].state = "in" => copies[r] = 0
         /\ row[r].state = "retained" => copies[r] = 1 \/ (copies[r] = 2 /\ TwiceOver)
         /\ row[r].state = "retained" /\ (r \in deal["sweep"].copied \/ r \in deal["hand"].copied) =>
                /\ copies[r] = 1 /\ TwiceOver
                /\ ~(r \in deal["sweep"].copied /\ r \in deal["hand"].copied)

RetainInv ==
    /\ RetainShape
    /\ policy.action = "archive" =>
         /\ \A x \in D!Runners : Moving(x)
         /\ D!InTransaction("sweep") /\ D!InTransaction("hand") => overlap
         /\ \A r \in Rows : CopiedRight(r)

LEMMA RetentionConstants == MaxAgeDays \in Nat \ {0} /\ LastDay \in Nat
BY OperationsAssumption DEF D!RetentionAssumption

LEMMA TwoRunners ==
    /\ D!Runners = {"sweep", "hand"}
    /\ D!Other("sweep") = "hand" /\ D!Other("hand") = "sweep"
<1>1. ASSUME NEW y \in D!Runners, y # "sweep" PROVE y = "hand"  BY <1>1 DEF D!Runners
<1>2. ASSUME NEW y \in D!Runners, y # "hand" PROVE y = "sweep"  BY <1>2 DEF D!Runners
<1>3. D!Other("sweep") = "hand"  BY <1>1 DEF D!Other, D!Runners
<1>4. D!Other("hand") = "sweep"  BY <1>2 DEF D!Other, D!Runners
<1> QED  BY <1>3, <1>4 DEF D!Runners

LEMMA NoDealIsOne ==
    D!NoDeal \in Deals /\ D!NoDeal.pc = "idle" /\ D!NoDeal.copied = {} /\ D!NoDeal.deleted = {}
BY DEF D!NoDeal, Deals

LEMMA RetainInitially == Init => RetainInv
<1> SUFFICES ASSUME D!RetentionInit PROVE RetainInv
  BY DEF Init
<1> USE RetentionConstants, TwoRunners, NoDealIsOne DEF D!RetentionInit
<1>1. RetainShape
  <2>1. policy \in Policies
    <3>1. PICK a \in {"archive", "delete"} : policy = [state |-> "on", action |-> a, last |-> D!Never]
      OBVIOUS
    <3> QED  BY <3>1 DEF Policies, D!Never
  <2>2. row \in [Rows -> DatedRows]
    BY DEF DatedRows
  <2>3. keyed \in BOOLEAN /\ overlap \in BOOLEAN
    BY Zenon
  <2>4. today \in Int
    OBVIOUS
  <2> QED  BY <2>1, <2>2, <2>3, <2>4 DEF RetainShape
<1>2. \A x \in D!Runners : Moving(x)
  BY DEF Moving
<1>3. ~D!InTransaction("sweep")
  BY DEF D!InTransaction
<1>4. \A r \in Rows : CopiedRight(r)
  BY DEF CopiedRight
<1> QED  BY <1>1, <1>2, <1>3, <1>4 DEF RetainInv

\* A run goes on, or fails, and has nothing copied when it does.
LEMMA RunGoes ==
    ASSUME RetainInv, NEW x \in D!Runners, NEW new \in Deals,
           deal' = [deal EXCEPT ![x] = new], new.copied = {}, new.pc \notin {"delete", "commit"},
           new.pc = "insert" => overlap' = (overlap \/ D!InTransaction(D!Other(x))),
           new.pc # "insert" => overlap' = overlap,
           policy' \in Policies, policy'.action = policy.action,
           UNCHANGED <<today, keyed, row, copies, late>>
    PROVE  RetainInv'
<1>1. overlap' \in BOOLEAN /\ (overlap => overlap')
  BY DEF RetainInv, RetainShape
<1>2. RetainShape'
  BY <1>1 DEF RetainInv, RetainShape
<1> SUFFICES ASSUME policy.action = "archive"
             PROVE  /\ \A y \in D!Runners : Moving(y)'
                    /\ (D!InTransaction("sweep") /\ D!InTransaction("hand"))' => overlap'
                    /\ \A r \in Rows : CopiedRight(r)'
  BY <1>2 DEF RetainInv
<1>3. deal'[x] = new /\ \A y \in D!Runners : y # x => deal'[y] = deal[y]
  BY DEF RetainInv, RetainShape
<1>4. ASSUME NEW y \in D!Runners PROVE Moving(y)'
  BY <1>3 DEF RetainInv, RetainShape, Moving, D!Expired, Deals
<1>5. (D!InTransaction("sweep") /\ D!InTransaction("hand"))' => overlap'
  <2>1. CASE new.pc = "insert"
    <3>1. D!InTransaction(D!Other(x)) => overlap'
      BY <2>1
    <3>2. D!Other(x) \in D!Runners /\ D!Other(x) # x /\ D!InTransaction(D!Other(x))' = D!InTransaction(D!Other(x))
      BY <1>3, TwoRunners DEF D!InTransaction
    <3> QED  BY <3>1, <3>2, TwoRunners
  <2>2. CASE new.pc # "insert"
    BY <1>1, <1>3, <2>2, TwoRunners DEF D!InTransaction
  <2> QED  BY <2>1, <2>2
<1>6. ASSUME NEW r \in Rows PROVE CopiedRight(r)'
  <2>1. TwiceOver => TwiceOver'
    BY <1>1 DEF TwiceOver
  <2>2. \A y \in D!Runners : deal'[y].copied \subseteq deal[y].copied
    BY <1>3
  <2> QED  BY <2>1, <2>2, TwoRunners DEF RetainInv, CopiedRight
<1> QED  BY <1>4, <1>5, <1>6

LEMMA GoesOn ==
    ASSUME RetainInv, NEW x \in D!Runners,
           \/ x = "sweep" /\ D!ListPolicy
           \/ x = "hand" /\ D!RunByHand
           \/ D!ReadPolicy(x) \/ D!RecordRun(x)
           \/ D!Begin(x) /\ policy.action = "archive"
    PROVE  RetainInv'
<1> USE DEF RetainInv, RetainShape
<1>1. CASE (x = "sweep" /\ D!ListPolicy) \/ (x = "hand" /\ D!RunByHand)
  <2> DEFINE new == [deal[x] EXCEPT !.pc = "listed"]
  <2>1. deal[x].pc = "idle" /\ deal' = [deal EXCEPT ![x] = new] /\ UNCHANGED <<today, policy, keyed, row, copies, late, overlap>>
    BY <1>1 DEF D!ListPolicy, D!RunByHand, D!Goes, D!Quiet
  <2>2. new \in Deals /\ new.copied = deal[x].copied /\ new.pc = "listed"
    BY DEF Deals
  <2> HIDE DEF new
  <2>3. CASE policy.action = "archive"
    <3>1. new.copied = {}
      BY <2>1, <2>2, <2>3 DEF Moving
    <3> QED  BY <2>1, <2>2, <3>1, RunGoes
  <2>4. CASE policy.action # "archive"
    BY <2>1, <2>2, <2>4
  <2> QED  BY <2>3, <2>4
<1>2. CASE D!ReadPolicy(x)
  <2>1. PICK new \in Deals :
          /\ deal' = [deal EXCEPT ![x] = new] /\ new.copied \subseteq deal[x].copied
          /\ new.pc \notin {"insert", "delete", "commit"}
    <3>1. [deal[x] EXCEPT !.pc = "begin"] \in Deals
      BY DEF Deals
    <3> QED  BY <1>2, <3>1, NoDealIsOne DEF D!ReadPolicy, D!Goes, Deals
  <2>2. deal[x].pc = "listed" /\ UNCHANGED <<today, policy, keyed, row, copies, late, overlap>>
    BY <1>2 DEF D!ReadPolicy, D!Quiet
  <2>3. CASE policy.action = "archive"
    <3>1. new.copied = {}
      BY <2>1, <2>2, <2>3 DEF Moving
    <3> QED  BY <2>1, <2>2, <3>1, RunGoes
  <2>4. CASE policy.action # "archive"
    BY <2>1, <2>2, <2>4
  <2> QED  BY <2>3, <2>4
<1>3. CASE D!RecordRun(x)
  <2>1. /\ deal' = [deal EXCEPT ![x] = D!NoDeal]
        /\ UNCHANGED <<today, keyed, row, copies, late, overlap>>
    BY <1>3 DEF D!RecordRun
  <2>2. policy' \in Policies /\ policy'.action = policy.action
    BY <1>3 DEF D!RecordRun, Policies
  <2> QED  BY <2>1, <2>2, NoDealIsOne, RunGoes
<1>4. CASE D!Begin(x) /\ policy.action = "archive"
  <2>0. deal[x].pc = "begin" /\ deal[x].copied = {} /\ UNCHANGED <<today, policy, keyed, row, copies, late>>
    BY <1>4 DEF D!Begin, Moving
  <2>1. CASE /\ deal' = [deal EXCEPT ![x].pc = "insert", ![x].cutoff = today - MaxAgeDays]
             /\ overlap' = (overlap \/ D!InTransaction(D!Other(x)))
    <3> DEFINE new == [deal[x] EXCEPT !.pc = "insert", !.cutoff = today - MaxAgeDays]
    <3>1. deal' = [deal EXCEPT ![x] = new]
      BY <2>1
    <3>0. today - MaxAgeDays \in Int /\ deal[x] \in Deals
      BY RetentionConstants
    <3>2. new \in Deals /\ new.copied = {} /\ new.pc = "insert"
      BY <2>0, <3>0 DEF Deals
    <3> HIDE DEF new
    <3> QED  BY <2>0, <2>1, <3>1, <3>2, RunGoes, ZenonT(40)
  <2>2. CASE deal' = [deal EXCEPT ![x].pc = "record"] /\ overlap' = overlap
    <3>1. [deal[x] EXCEPT !.pc = "record"] \in Deals
      BY DEF Deals
    <3> QED  BY <2>0, <2>2, <3>1, RunGoes DEF Deals
  <2> QED  BY <1>4, <2>1, <2>2 DEF D!Begin, D!Goes
<1> QED  BY <1>1, <1>2, <1>3, <1>4

\* A run that fails is rolled back.
LEMMA AbortStep ==
    ASSUME RetainInv, NEW x \in D!Runners, D!Aborts(x), D!Quiet
    PROVE  RetainInv'
<1>1. [D!NoDeal EXCEPT !.pc = "record"] \in Deals
  BY NoDealIsOne DEF Deals
<1> QED
  BY <1>1, NoDealIsOne, RunGoes DEF D!Aborts, D!Quiet, RetainInv, RetainShape, Deals

\* What is expired is copied; on a table with a key none of it is in the archive
\* or under way to it.
LEMMA InsertStep == ASSUME RetainInv, NEW x \in D!Runners, D!InsertIntoArchive(x) PROVE RetainInv'
<1> USE DEF RetainInv
<1> DEFINE aged == D!Expired(x)
           clash == keyed /\ \E r \in aged : copies[r] > 0
           wait == keyed /\ aged \cap deal[D!Other(x)].copied # {}
<1>0. deal[x].pc = "insert" /\ (wait => clash) /\ D!Quiet
  BY DEF D!InsertIntoArchive
<1>1. CASE ~clash /\ deal' = [deal EXCEPT ![x].pc = "delete", ![x].copied = aged]
  <2> DEFINE new == [deal[x] EXCEPT !.pc = "delete", !.copied = aged]
  <2>1. /\ new \in Deals /\ new.pc = "delete" /\ new.copied = aged /\ new.cutoff = deal[x].cutoff
        /\ new.deleted = deal[x].deleted
    BY DEF RetainShape, Deals, D!Expired
  <2>2. deal' = [deal EXCEPT ![x] = new]
    BY <1>1
  <2> HIDE DEF new
  <2>3. deal'[x] = new /\ \A y \in D!Runners : y # x => deal'[y] = deal[y]
    BY <2>2 DEF RetainShape
  <2>4. RetainShape'
    BY <1>0, <2>1, <2>2 DEF RetainShape, D!Quiet
  <2> SUFFICES ASSUME policy.action = "archive"
               PROVE  /\ \A y \in D!Runners : Moving(y)'
                      /\ (D!InTransaction("sweep") /\ D!InTransaction("hand"))' => overlap'
                      /\ \A r \in Rows : CopiedRight(r)'
    BY <1>0, <2>4 DEF D!Quiet
  <2>5. ASSUME NEW y \in D!Runners PROVE Moving(y)'
    <3>1. CASE y = x
      BY <1>0, <2>1, <2>3, <3>1 DEF Moving, D!Quiet, D!Expired
    <3>2. CASE y # x
      BY <1>0, <2>3, <3>2 DEF Moving, D!Quiet, D!Expired
    <3> QED  BY <3>1, <3>2
  <2>6. (D!InTransaction("sweep") /\ D!InTransaction("hand"))' => overlap'
    BY <1>0, <2>1, <2>3, TwoRunners DEF D!InTransaction, D!Quiet
  <2>7. ASSUME NEW r \in Rows PROVE CopiedRight(r)'
    <3>1. ASSUME r \in aged PROVE row[r].state = "in" /\ (keyed => copies[r] = 0 /\ r \notin deal[D!Other(x)].copied)
      BY <1>0, <1>1, <3>1 DEF D!Expired, RetainShape
    <3>2. r \in aged /\ r \in deal[D!Other(x)].copied => TwiceOver
      <4>1. r \in deal[D!Other(x)].copied => D!InTransaction(D!Other(x))
        BY TwoRunners DEF Moving, D!InTransaction
      <4>2. D!InTransaction(x)
        BY <1>0 DEF D!InTransaction
      <4> QED  BY <3>1, <4>1, <4>2, TwoRunners DEF TwiceOver
    <3>3. deal'[x].copied = aged /\ deal'[D!Other(x)].copied = deal[D!Other(x)].copied
      BY <2>1, <2>3, TwoRunners
    <3>4. CopiedRight(r) /\ UNCHANGED <<row, copies, late, keyed, overlap>>
      BY <1>0 DEF D!Quiet
    <3>5. deal[x].copied = {}
      BY <1>0 DEF Moving
    <3> QED  BY <3>1, <3>2, <3>3, <3>4, <3>5, TwoRunners DEF CopiedRight, TwiceOver
  <2> QED  BY <2>5, <2>6, <2>7
<1>2. CASE D!Aborts(x)
  BY <1>0, <1>2, AbortStep
<1> QED  BY <1>1, <1>2 DEF D!InsertIntoArchive

LEMMA DeleteStep == ASSUME RetainInv, NEW x \in D!Runners, D!DeleteExpired(x) PROVE RetainInv'
<1> USE DEF RetainInv
<1>0. deal[x].pc = "delete" /\ D!Quiet
  BY DEF D!DeleteExpired
<1>1. CASE deal' = [deal EXCEPT ![x].pc = "commit", ![x].deleted = D!Expired(x)]
  <2> DEFINE new == [deal[x] EXCEPT !.pc = "commit", !.deleted = D!Expired(x)]
  <2>1. /\ new \in Deals /\ new.pc = "commit" /\ new.copied = deal[x].copied /\ new.cutoff = deal[x].cutoff
        /\ new.deleted = D!Expired(x)
    BY DEF RetainShape, Deals, D!Expired
  <2>2. deal' = [deal EXCEPT ![x] = new]
    BY <1>1
  <2> HIDE DEF new
  <2>3. deal'[x] = new /\ \A y \in D!Runners : y # x => deal'[y] = deal[y]
    BY <2>2 DEF RetainShape
  <2>4. RetainShape'
    BY <1>0, <2>1, <2>2 DEF RetainShape, D!Quiet
  <2> SUFFICES ASSUME policy.action = "archive"
               PROVE  /\ \A y \in D!Runners : Moving(y)'
                      /\ (D!InTransaction("sweep") /\ D!InTransaction("hand"))' => overlap'
                      /\ \A r \in Rows : CopiedRight(r)'
    BY <1>0, <2>4 DEF D!Quiet
  <2>5. ASSUME NEW y \in D!Runners PROVE Moving(y)'
    <3>1. CASE y = x
      <4>1. \A r \in deal[x].copied : row[r].state = "in" => r \in D!Expired(x)
        BY DEF Moving, D!Expired, RetainShape, Deals
      <4> QED  BY <1>0, <2>1, <2>3, <3>1, <4>1 DEF Moving, D!Quiet
    <3>2. CASE y # x
      BY <1>0, <2>3, <3>2 DEF Moving, D!Quiet, D!Expired
    <3> QED  BY <3>1, <3>2
  <2>6. (D!InTransaction("sweep") /\ D!InTransaction("hand"))' => overlap'
    BY <1>0, <2>1, <2>3, TwoRunners DEF D!InTransaction, D!Quiet
  <2>7. ASSUME NEW r \in Rows PROVE CopiedRight(r)'
    BY <1>0, <2>1, <2>3, TwoRunners DEF CopiedRight, TwiceOver, D!Quiet
  <2> QED  BY <2>5, <2>6, <2>7
<1>2. CASE D!Aborts(x)
  BY <1>0, <1>2, AbortStep
<1> QED  BY <1>1, <1>2 DEF D!DeleteExpired

\* What a run deleted was in the table, and not in the archive: now it is there
\* once, unless another run had copied it too.
LEMMA CommitStep == ASSUME RetainInv, NEW x \in D!Runners, D!Commit(x) PROVE RetainInv'
<1> USE DEF RetainInv
<1> DEFINE gone == {r \in deal[x].deleted : row[r].state = "in"}
           new == [D!NoDeal EXCEPT !.pc = "record"]
<1>0. /\ deal[x].pc = "commit" /\ D!Aborts(x)
      /\ UNCHANGED <<today, policy, keyed, late, overlap>>
  BY DEF D!Commit
<1>1. CASE UNCHANGED <<row, copies>>
  BY <1>0, <1>1, AbortStep DEF D!Quiet
<1>2. CASE /\ row' = [r \in Rows |-> IF r \in gone THEN [row[r] EXCEPT !.state = "retained"] ELSE row[r]]
           /\ copies' = [r \in Rows |-> copies[r] + (IF r \in deal[x].copied THEN 1 ELSE 0)]
  <2>1. new \in Deals /\ new.pc = "record" /\ new.copied = {} /\ deal' = [deal EXCEPT ![x] = new]
    BY <1>0, NoDealIsOne DEF D!Aborts, Deals
  <2> HIDE DEF new
  <2>2. deal'[x] = new /\ \A y \in D!Runners : y # x => deal'[y] = deal[y]
    BY <2>1 DEF RetainShape
  <2>3. ASSUME NEW r \in Rows
        PROVE  /\ row'[r] \in DatedRows /\ row'[r].date = row[r].date
               /\ row'[r].state = IF r \in gone THEN "retained" ELSE row[r].state
               /\ copies'[r] = IF r \in deal[x].copied THEN copies[r] + 1 ELSE copies[r]
    BY <1>2 DEF RetainShape, DatedRows
  <2>4. gone \subseteq {r \in Rows : row[r].state = "in"}
    BY DEF RetainShape, Deals
  <2> HIDE DEF gone
  <2>5. RetainShape'
    BY <1>0, <1>2, <2>1, <2>3 DEF RetainShape
  <2> SUFFICES ASSUME policy.action = "archive"
               PROVE  /\ \A y \in D!Runners : Moving(y)'
                      /\ (D!InTransaction("sweep") /\ D!InTransaction("hand"))' => overlap'
                      /\ \A r \in Rows : CopiedRight(r)'
    BY <1>0, <2>5
  <2>6. ASSUME NEW y \in D!Runners PROVE Moving(y)'
    <3>1. CASE y = x
      BY <2>1, <2>2, <3>1 DEF Moving
    <3>2. CASE y # x
      BY <1>0, <2>2, <2>3, <2>4, <3>2 DEF Moving, D!Expired, RetainShape, Deals
    <3> QED  BY <3>1, <3>2
  <2>7. (D!InTransaction("sweep") /\ D!InTransaction("hand"))' => overlap'
    BY <1>0, <2>1, <2>2, TwoRunners DEF D!InTransaction
  <2>8. ASSUME NEW r \in Rows PROVE CopiedRight(r)'
    <3>1. r \in gone => r \in late \/ r \in deal[x].copied
      BY <1>0 DEF Moving, gone
    <3>2. r \in deal[x].copied /\ row[r].state = "in" => r \in gone
      BY <1>0 DEF Moving, gone
    <3>3. r \in deal[x].copied => row[r].state # "unborn"
      BY DEF Moving
    <3>4. CopiedRight(r) /\ row[r].state \in {"unborn", "in", "retained", "removed"} /\ copies[r] \in Nat
      BY DEF RetainShape, DatedRows
    <3>5. deal'[x].copied = {} /\ deal'[D!Other(x)].copied = deal[D!Other(x)].copied
      BY <2>1, <2>2, TwoRunners
    <3>6. TwiceOver' = TwiceOver /\ late' = late
      BY <1>0 DEF TwiceOver
    <3> QED  BY <2>3, <2>4, <3>1, <3>2, <3>3, <3>4, <3>5, <3>6, TwoRunners DEF CopiedRight
  <2> QED  BY <2>6, <2>7, <2>8
<1> QED  BY <1>1, <1>2 DEF D!Commit

LEMMA RowSteps ==
    ASSUME RetainInv, NEW r \in Rows, D!RemoveRow(r) \/ \E d \in D!Today : D!InsertRow(r, d)
    PROVE  RetainInv'
<1> USE DEF RetainInv
<1>1. PICK new \in DatedRows :
        /\ row' = [row EXCEPT ![r] = new]
        /\ \/ row[r].state = "in" /\ new.state = "removed" /\ new.date = row[r].date /\ late' = late
           \/ /\ row[r].state = "unborn" /\ new.state = "in"
              /\ late' = IF \E x \in D!Runners : deal[x].pc = "delete" THEN late \cup {r} ELSE late
  <2>1. CASE D!RemoveRow(r)
    <3>1. [row[r] EXCEPT !.state = "removed"] \in DatedRows
      BY DEF RetainShape, DatedRows
    <3> QED  BY <2>1, <3>1 DEF D!RemoveRow, RetainShape, DatedRows
  <2>2. CASE \E d \in D!Today : D!InsertRow(r, d)
    <3>1. PICK d \in D!Today : D!InsertRow(r, d)
      BY <2>2
    <3>2. [state |-> "in", date |-> d] \in DatedRows
      BY RetentionConstants DEF DatedRows, D!Today
    <3> QED  BY <3>1, <3>2 DEF D!InsertRow
  <2> QED  BY <2>1, <2>2
<1>2. UNCHANGED <<today, policy, keyed, copies, deal, overlap>>
  BY DEF D!RemoveRow, D!InsertRow
<1>3. row'[r] = new /\ (\A q \in Rows : q # r => row'[q] = row[q]) /\ late \subseteq late'
  BY <1>1 DEF RetainShape
<1>4. RetainShape'
  BY <1>1, <1>2 DEF RetainShape
<1> SUFFICES ASSUME policy.action = "archive"
             PROVE  /\ \A y \in D!Runners : Moving(y)'
                    /\ (D!InTransaction("sweep") /\ D!InTransaction("hand"))' => overlap'
                    /\ \A q \in Rows : CopiedRight(q)'
  BY <1>2, <1>4
<1>5. ASSUME NEW y \in D!Runners PROVE Moving(y)'
  <2>1. \A q \in deal[y].copied : q \in Rows
    BY DEF RetainShape, Deals
  <2>2. row[r].state = "in" => D!Expired(y)' \subseteq D!Expired(y) \ {r}
    BY <1>1, <1>2, <1>3 DEF D!Expired
  <2>3. row[r].state = "unborn" => D!Expired(y)' \subseteq D!Expired(y) \cup {r}
    BY <1>1, <1>2, <1>3 DEF D!Expired
  <2> QED  BY <1>1, <1>2, <1>3, <2>1, <2>2, <2>3 DEF Moving
<1>6. (D!InTransaction("sweep") /\ D!InTransaction("hand"))' => overlap'
  BY <1>2 DEF D!InTransaction
<1>7. ASSUME NEW q \in Rows PROVE CopiedRight(q)'
  <2>1. q = r => row[r].state = "in" \/ (row[r].state = "unborn" /\ copies[r] = 0)
    BY <1>1 DEF CopiedRight
  <2> QED  BY <1>1, <1>2, <1>3, <2>1 DEF CopiedRight, TwiceOver
<1> QED  BY <1>5, <1>6, <1>7

LEMMA RetainUntouched ==
    ASSUME RetainInv, today' \in Int, policy' \in Policies, policy'.action = policy.action,
           UNCHANGED <<keyed, row, copies, deal, late, overlap>>
    PROVE  RetainInv'
<1> USE DEF RetainInv
<1>1. RetainShape'  BY DEF RetainShape
<1>2. \A x \in D!Runners : Moving(x) => Moving(x)'  BY DEF Moving, D!Expired
<1>3. \A r \in Rows : CopiedRight(r) => CopiedRight(r)'  BY DEF CopiedRight, TwiceOver
<1>4. \A x \in D!Runners : D!InTransaction(x)' => D!InTransaction(x)  BY DEF D!InTransaction
<1> QED  BY <1>1, <1>2, <1>3, <1>4, TwoRunners

LEMMA PolicySteps ==
    ASSUME RetainInv, D!SetRetentionPolicyEnabled \/ D!DeleteRetentionPolicy \/ D!DayPasses
    PROVE  RetainInv'
<1>1. today' \in Int /\ policy' \in Policies /\ policy'.action = policy.action
  BY DEF RetainInv, RetainShape, Policies, D!SetRetentionPolicyEnabled, D!DeleteRetentionPolicy, D!DayPasses
<1> QED
  BY <1>1, RetainUntouched DEF D!SetRetentionPolicyEnabled, D!DeleteRetentionPolicy, D!DayPasses

LEMMA RetentionDroppedStep == RetainInv /\ D!RetentionDropped => RetainInv'
<1> SUFFICES ASSUME RetainInv, D!RetentionDropped PROVE RetainInv'
  OBVIOUS
<1> USE NoDealIsOne, TwoRunners DEF RetainInv, D!RetentionDropped
<1>1. RetainShape'  BY DEF RetainShape
<1>2. \A x \in D!Runners : Moving(x)'  BY DEF Moving
<1>3. ~D!InTransaction("sweep")'  BY DEF D!InTransaction
<1>4. \A r \in Rows : CopiedRight(r) => CopiedRight(r)'  BY DEF CopiedRight, TwiceOver
<1> QED  BY <1>1, <1>2, <1>3, <1>4

\* Of a policy that deletes only the shape matters.
LEMMA BeginDeletingStep ==
    ASSUME RetainInv, NEW x \in D!Runners, D!Begin(x), policy.action # "archive"
    PROVE  RetainInv'
<1> USE DEF RetainInv, RetainShape
<1>1. policy' = policy /\ UNCHANGED <<today, keyed, row, copies>>
  BY DEF D!Begin
<1>2. overlap' \in BOOLEAN
  BY DEF D!Begin
<1>3. PICK new \in Deals : deal' = [deal EXCEPT ![x] = new]
  <2>1. today - MaxAgeDays \in Int /\ deal[x] \in Deals
    BY RetentionConstants
  <2>2. [deal[x] EXCEPT !.pc = "delete", !.cutoff = today - MaxAgeDays] \in Deals
    BY <2>1 DEF Deals
  <2>3. [deal[x] EXCEPT !.pc = "record"] \in Deals
    BY DEF Deals
  <2> QED  BY <2>2, <2>3 DEF D!Begin, D!Goes
<1> QED  BY <1>1, <1>2, <1>3

LEMMA RetainSteps == RetainInv /\ Retain => RetainInv'
<1> SUFFICES ASSUME RetainInv, Retain PROVE RetainInv'
  OBVIOUS
<1>1. ASSUME NEW x \in D!Runners, D!ReadPolicy(x) \/ D!Begin(x) \/ D!InsertIntoArchive(x) \/ D!DeleteExpired(x)
                                  \/ D!Commit(x) \/ D!RecordRun(x)
      PROVE  RetainInv'
  BY <1>1, GoesOn, BeginDeletingStep, InsertStep, DeleteStep, CommitStep
<1>2. CASE D!ListPolicy \/ D!RunByHand
  BY <1>2, GoesOn, TwoRunners
<1>3. CASE D!SetRetentionPolicyEnabled \/ D!DeleteRetentionPolicy \/ D!DayPasses
  BY <1>3, PolicySteps
<1>4. ASSUME NEW r \in Rows, D!RemoveRow(r) \/ \E d \in D!Today : D!InsertRow(r, d) PROVE RetainInv'
  BY <1>4, RowSteps
<1> QED  BY <1>1, <1>2, <1>3, <1>4 DEF Retain

LEMMA RetainHeld == RetainInv => D!MovedNotLost
<1> SUFFICES ASSUME RetainInv, policy.action = "archive", NEW r \in Rows \ late
             PROVE  /\ row[r].state = "retained" => copies[r] = 1 \/ (copies[r] = 2 /\ overlap /\ ~keyed)
                    /\ row[r].state = "in" => copies[r] = 0
  BY DEF D!MovedNotLost
<1> QED  BY DEF RetainInv, CopiedRight, TwiceOver

-----------------------------------------------------------------------------
(* pg_hba.conf *)

\* A set of naturals has a least element.
LEMMA Least ==
    ASSUME NEW T, T \subseteq Nat, T # {}
    PROVE  \E m \in T : \A k \in T : m <= k
<1> DEFINE order == OpToRel(<, Nat)
<1>1. IsWellFoundedOn(order, Nat)
  BY NatLessThanWellFounded
<1>2. \A x, y \in Nat : <<x, y>> \in order <=> x < y
  BY DEF OpToRel
<1> HIDE DEF order
<1>3. PICK m \in T : \A k \in T : <<k, m>> \notin order
  BY <1>1, WFMin
<1>4. ASSUME NEW k \in T PROVE m <= k
  <2>1. m \in Nat /\ k \in Nat /\ ~(k < m)
    BY <1>2, <1>3
  <2> QED  BY <2>1
<1> QED  BY <1>4

\* Without the first line that is equal to one, all others are there.
LEMMA OthersStay ==
    ASSUME NEW s \in Seq(Rules), NEW e
    PROVE  /\ B!RemoveFirst(s, e) \in Seq(Rules)
           /\ \A r : r # e /\ B!Contains(s, r) => B!Contains(B!RemoveFirst(s, e), r)
<1>1. CASE \A i \in 1 .. Len(s) : s[i] # e
  BY <1>1 DEF B!RemoveFirst
<1>2. CASE \E i \in 1 .. Len(s) : s[i] = e
  <2> DEFINE places == {i \in 1 .. Len(s) : s[i] = e}
             p == B!Min(places)
  <2>1. B!RemoveFirst(s, e) = B!RemoveAt(s, p)
    BY <1>2 DEF B!RemoveFirst, B!SelectInSeq
  <2>2. p \in 1 .. Len(s) /\ s[p] = e
    <3>1. places \subseteq Nat /\ places # {}
      BY <1>2
    <3> HIDE DEF places
    <3>2. \E m \in places : \A k \in places : m <= k
      BY <3>1, Least
    <3>3. p \in places
      BY <3>2 DEF B!Min
    <3> QED  BY <3>3 DEF places
  <2> HIDE DEF p
  <2> DEFINE left == SubSeq(s, 1, p - 1)
             right == SubSeq(s, p + 1, Len(s))
  <2>4. /\ left \in Seq(Rules) /\ Len(left) = p - 1 /\ \A k \in 1 .. p - 1 : left[k] = s[k]
        /\ right \in Seq(Rules) /\ Len(right) = Len(s) - p /\ \A k \in 1 .. Len(s) - p : right[k] = s[p + k]
    BY <2>2
  <2> HIDE DEF left, right
  <2>5. /\ Len(left \o right) = Len(s) - 1
        /\ \A k \in 1 .. p - 1 : (left \o right)[k] = s[k]
        /\ \A k \in 1 .. Len(s) - p : (left \o right)[p - 1 + k] = s[p + k]
    <3>0. left \in Seq(Rules) /\ right \in Seq(Rules)
      BY <2>4
    <3>1. Len(left \o right) = Len(left) + Len(right) /\ Len(s) \in Nat /\ p \in Nat
      BY <2>2, <3>0
    <3>2. ASSUME NEW k \in 1 .. p - 1 PROVE (left \o right)[k] = left[k]
      BY <2>2, <2>4
    <3>3. ASSUME NEW k \in 1 .. Len(s) - p PROVE (left \o right)[p - 1 + k] = right[k]
      <4>1. (left \o right)[Len(left) + k] = right[k]
        BY <2>2, <2>4
      <4> QED  BY <2>2, <2>4, <4>1
    <3> QED  BY <2>4, <3>1, <3>2, <3>3, SMTT(40)
  <2>6. B!RemoveAt(s, p) = left \o right
    BY DEF B!RemoveAt, left, right
  <2>7. ASSUME NEW r, r # e, B!Contains(s, r) PROVE B!Contains(left \o right, r)
    <3>1. PICK i \in 1 .. Len(s) : s[i] = r
      BY <2>7 DEF B!Contains
    <3>2. CASE i < p
      <4>1. i \in 1 .. p - 1 /\ i \in 1 .. Len(left \o right)
        BY <2>2, <2>5, <3>2
      <4> QED  BY <2>5, <3>1, <4>1 DEF B!Contains
    <3>3. CASE i > p
      <4>1. PICK k \in 1 .. Len(s) - p : i = p + k
        <5>1. i - p \in 1 .. Len(s) - p /\ i = p + (i - p)
          BY <2>2, <3>3
        <5> QED  BY <5>1
      <4>2. p - 1 + k \in 1 .. Len(left \o right)
        BY <2>2, <2>5, <4>1
      <4>3. (left \o right)[p - 1 + k] = s[p + k] /\ s[p + k] = r
        BY <2>5, <3>1, <4>1
      <4> QED  BY <4>2, <4>3 DEF B!Contains
    <3>4. i # p
      BY <2>2, <2>7, <3>1
    <3> QED  BY <2>2, <3>2, <3>3, <3>4
  <2> QED  BY <2>1, <2>4, <2>6, <2>7
<1> QED  BY <1>1, <1>2

LEMMA Appended ==
    ASSUME NEW s \in Seq(Rules), NEW e \in Rules
    PROVE  /\ Append(s, e) \in Seq(Rules) /\ B!Contains(Append(s, e), e)
           /\ \A r : B!Contains(s, r) => B!Contains(Append(s, e), r)
<1>1. /\ Append(s, e) \in Seq(Rules) /\ Len(Append(s, e)) = Len(s) + 1 /\ Append(s, e)[Len(s) + 1] = e
      /\ \A i \in 1 .. Len(s) : i \in 1 .. Len(s) + 1 /\ Append(s, e)[i] = s[i]
  OBVIOUS
<1>2. Len(s) + 1 \in 1 .. Len(s) + 1
  OBVIOUS
<1> QED  BY <1>1, <1>2 DEF B!Contains

Edits == [pc : {"idle", "read", "write", "reload"}, op : {"none", "add", "delete"},
          rule : Rules \cup {None}, place : Int, read : Seq(Rules)]

\* A rule that was added is in the file, and PostgreSQL has loaded the file but
\* for an edit that is about to ask for it.
HbaInv ==
    /\ conf \in Seq(Rules) /\ edit \in [Editors -> Edits] /\ unloaded \in BOOLEAN
    /\ \A e \in Editors : edit[e].pc # "idle" => edit[e].rule \in Rules
    /\ B!AddedRulesStay /\ B!EffectiveIsFile

LEMMA HbaConstants == MaxRules \in Nat /\ Rules \ Broken # {} /\ None \notin Rules
BY OperationsAssumption DEF B!HbaAssumption

LEMMA NoEditIsOne == B!NoEdit \in Edits /\ B!NoEdit.pc = "idle"
BY DEF B!NoEdit, Edits

LEMMA HbaInitially == Init => HbaInv
<1> SUFFICES ASSUME B!HbaInit PROVE HbaInv
  BY DEF Init
<1>1. conf \in Seq(Rules)
  BY HbaConstants DEF B!HbaInit
<1> QED
  BY <1>1, NoEditIsOne DEF B!HbaInit, HbaInv, B!AddedRulesStay, B!EffectiveIsFile, B!Loads

\* A request arrives, or has read the file; or it ends without having written.
LEMMA EditGoes ==
    ASSUME HbaInv, NEW e \in Editors, NEW new \in Edits,
           edit' = [edit EXCEPT ![e] = new], new.pc # "reload", edit[e].pc # "reload",
           new.pc # "idle" => new.rule \in Rules,
           UNCHANGED <<conf, effective, written, undone, unloaded>>
    PROVE  HbaInv'
<1>1. edit'[e] = new /\ \A f \in Editors : f # e => edit'[f] = edit[f]
  BY DEF HbaInv
<1>2. edit' \in [Editors -> Edits] /\ \A f \in Editors : edit'[f].pc # "idle" => edit'[f].rule \in Rules
  BY <1>1 DEF HbaInv
<1>3. B!AddedRulesStay' /\ B!EffectiveIsFile'
  BY <1>1 DEF HbaInv, B!AddedRulesStay, B!EffectiveIsFile, B!Loads
<1> QED  BY <1>2, <1>3 DEF HbaInv

LEMMA BeforeWriteSteps ==
    ASSUME HbaInv, NEW e \in Editors,
           \/ \E r \in Rules : B!AddHbaRule(e, r)
           \/ \E i \in 1 .. MaxRules : B!DeleteHbaRule(e, i)
           \/ B!ReadHba(e)
    PROVE  HbaInv'
<1> USE DEF HbaInv
<1>1. CASE \E r \in Rules : B!AddHbaRule(e, r)
  <2>1. PICK r \in Rules : B!AddHbaRule(e, r)
    BY <1>1
  <2> DEFINE new == [B!NoEdit EXCEPT !.pc = "read", !.op = "add", !.rule = r]
  <2>2. new \in Edits /\ new.pc = "read" /\ new.rule = r
    BY NoEditIsOne DEF Edits
  <2>3. edit' = [edit EXCEPT ![e] = new] /\ edit[e].pc = "idle" /\ UNCHANGED <<conf, effective, written, undone, unloaded>>
    BY <2>1 DEF B!AddHbaRule
  <2> HIDE DEF new
  <2> QED  BY <2>2, <2>3, EditGoes
<1>2. CASE \E i \in 1 .. MaxRules : B!DeleteHbaRule(e, i)
  <2>1. PICK i \in 1 .. MaxRules : B!DeleteHbaRule(e, i)
    BY <1>2
  <2> DEFINE new == [B!NoEdit EXCEPT !.pc = "read", !.op = "delete", !.rule = conf[i], !.place = i]
  <2>2. i \in Int /\ i \in DOMAIN conf
    <3>1. i \in DOMAIN conf
      BY <2>1, Zenon DEF B!DeleteHbaRule
    <3>2. i \in Int
      BY HbaConstants
    <3> QED  BY <3>1, <3>2
  <2>3. conf[i] \in Rules
    BY <2>2
  <2>4. new \in Edits /\ new.pc = "read" /\ new.rule = conf[i]
    BY <2>2, <2>3, NoEditIsOne DEF Edits
  <2>5. edit' = [edit EXCEPT ![e] = new] /\ edit[e].pc = "idle" /\ UNCHANGED <<conf, effective, written, undone, unloaded>>
    BY <2>1 DEF B!DeleteHbaRule
  <2> HIDE DEF new
  <2> QED  BY <2>4, <2>5, <2>3, EditGoes
<1>3. CASE B!ReadHba(e)
  <2>1. edit[e].pc = "read" /\ UNCHANGED <<conf, effective, written, undone, unloaded>>
    BY <1>3 DEF B!ReadHba
  <2>2. CASE edit' = [edit EXCEPT ![e].pc = "write", ![e].read = conf]
    <3> DEFINE new == [edit[e] EXCEPT !.pc = "write", !.read = conf]
    <3>1. new \in Edits /\ new.pc = "write" /\ new.rule \in Rules
      BY <2>1 DEF Edits
    <3>2. edit' = [edit EXCEPT ![e] = new]
      BY <2>2
    <3> HIDE DEF new
    <3> QED  BY <2>1, <3>1, <3>2, EditGoes
  <2>3. CASE B!Ends(e)
    BY <2>1, <2>3, NoEditIsOne, EditGoes DEF B!Ends
  <2> QED  BY <1>3, <2>2, <2>3 DEF B!ReadHba
<1> QED  BY <1>1, <1>2, <1>3

\* What an edit read differs from the file by the rules it undoes, and it
\* changes nothing else than its own rule.
LEMMA WriteHbaStep == ASSUME HbaInv, NEW e \in Editors, B!WriteHba(e) PROVE HbaInv'
<1> USE DEF HbaInv
<1> DEFINE read == edit[e].read
           mine == edit[e].rule
<1>0. edit[e].pc = "write" /\ read \in Seq(Rules) /\ mine \in Rules /\ UNCHANGED <<effective, unloaded>>
  BY DEF B!WriteHba, Edits
<1>1. CASE /\ conf' = B!Edited(e) /\ edit' = [edit EXCEPT ![e].pc = "reload"]
           /\ undone' = undone \cup {r \in B!Range(conf) \cup B!Range(read) : B!Contains(conf, r) # B!Contains(read, r)}
           /\ written' = IF edit[e].op = "add" THEN written \cup {mine} ELSE written \ {mine}
  <2>1. conf' \in Seq(Rules)
    BY <1>0, <1>1, Appended, OthersStay DEF B!Edited
  <2>2. ASSUME NEW r \in written' \ undone' PROVE B!Contains(conf', r)
    <3>1. CASE r \in written /\ r # mine
      <4>1. B!Contains(conf, r) /\ r \in B!Range(conf)
        <5>1. B!Contains(conf, r)
          BY <1>1, <2>2, <3>1 DEF B!AddedRulesStay
        <5> QED  BY <5>1 DEF B!Contains, B!Range
      <4>2. B!Contains(read, r)
        BY <1>1, <2>2, <4>1
      <4> QED  BY <1>0, <1>1, <3>1, <4>2, Appended, OthersStay DEF B!Edited
    <3>2. CASE r = mine
      BY <1>0, <1>1, <2>2, <3>2, Appended DEF B!Edited
    <3> QED  BY <1>1, <2>2, <3>1, <3>2
  <2>3. edit' \in [Editors -> Edits] /\ edit'[e].pc = "reload"
        /\ \A f \in Editors : edit'[f].pc # "idle" => edit'[f].rule \in Rules
    BY <1>0, <1>1, ZenonT(40) DEF Edits
  <2> QED  BY <1>0, <2>1, <2>2, <2>3 DEF B!AddedRulesStay, B!EffectiveIsFile
<1>2. CASE B!Ends(e) /\ UNCHANGED <<conf, written, undone>>
  BY <1>0, <1>2, NoEditIsOne, EditGoes DEF B!Ends
<1> QED  BY <1>1, <1>2 DEF B!WriteHba

LEMMA ReloadHbaStep == ASSUME HbaInv, NEW e \in Editors, B!ReloadHba(e) PROVE HbaInv'
<1> USE DEF HbaInv
<1>1. edit[e].pc = "reload" /\ edit' = [edit EXCEPT ![e] = B!NoEdit] /\ UNCHANGED <<conf, written, undone>>
  BY DEF B!ReloadHba, B!Ends
<1>2. \/ effective' = (IF B!Loads(conf) THEN conf ELSE effective) /\ unloaded' = FALSE
      \/ unloaded' = TRUE /\ effective' = effective
  BY DEF B!ReloadHba
<1>3. edit' \in [Editors -> Edits] /\ \A f \in Editors : edit'[f].pc # "idle" => edit'[f].rule \in Rules
  BY <1>1, NoEditIsOne
<1>4. B!AddedRulesStay'
  BY <1>1 DEF B!AddedRulesStay
<1>5. B!EffectiveIsFile'
  BY <1>1, <1>2 DEF B!EffectiveIsFile, B!Loads
<1> QED  BY <1>1, <1>2, <1>3, <1>4, <1>5

LEMMA HbaDroppedStep == HbaInv /\ B!HbaDropped => HbaInv'
<1> SUFFICES ASSUME HbaInv, B!HbaDropped PROVE HbaInv'
  OBVIOUS
<1> USE NoEditIsOne DEF HbaInv, B!HbaDropped
<1>1. unloaded' \in BOOLEAN
  OBVIOUS
<1>2. B!AddedRulesStay'
  BY DEF B!AddedRulesStay
<1>3. B!EffectiveIsFile'
  <2>1. ~unloaded' => ~unloaded /\ \A e \in Editors : edit[e].pc # "reload"
    BY Zenon
  <2> QED  BY <2>1 DEF B!EffectiveIsFile, B!Loads
<1> QED  BY <1>1, <1>2, <1>3

LEMMA HbaSteps == HbaInv /\ EditHba => HbaInv'
BY BeforeWriteSteps, WriteHbaStep, ReloadHbaStep DEF EditHba

LEMMA HbaUntouched == HbaInv /\ UNCHANGED hbaVars => HbaInv'
BY DEF HbaInv, hbaVars, B!AddedRulesStay, B!EffectiveIsFile, B!Loads

-----------------------------------------------------------------------------
(* Databases and their roles *)

Asks == [pc : {"idle", "role", "database", "connect", "grant", "undatabase", "unrole"},
         name : Databases \cup {None}, maker : BOOLEAN, closed : BOOLEAN]

Makes(q, n) == ask[q].name = n /\ ask[q].maker

\* Whoever has made a role has its name to itself, and knows what became of the
\* database unless the name was left half-made before.
DatabaseInv ==
    /\ database \in [Databases -> {"absent", "owned", "granted"}] /\ ask \in [Clients -> Asks]
    /\ \A q \in Clients :
         /\ ask[q].pc # "idle" => ask[q].name \in Databases
         /\ ask[q].maker <=> ask[q].pc \notin {"idle", "role"}
    /\ \A n \in Databases, q \in Clients :
         Makes(q, n) =>
            /\ n \in role /\ n \notin promised
            /\ \A p \in Clients : Makes(p, n) => p = q
            /\ n \notin halved =>
                 /\ ask[q].pc = "database" => database[n] = "absent"
                 /\ ask[q].pc \in {"connect", "grant", "undatabase"} => database[n] = "owned"
    /\ promised \subseteq Databases
    /\ I!PromisedIsThere /\ I!AllOrNothing

LEMMA DatabaseConstants == None \notin Databases
BY OperationsAssumption DEF I!DatabaseAssumption

LEMMA NoAskIsOne == I!NoAsk \in Asks /\ I!NoAsk.pc = "idle" /\ ~I!NoAsk.maker
BY DEF I!NoAsk, Asks

LEMMA DatabaseInitially == Init => DatabaseInv
<1> SUFFICES ASSUME I!DatabaseInit PROVE DatabaseInv
  BY DEF Init
<1> QED
  BY NoAskIsOne DEF I!DatabaseInit, DatabaseInv, Makes, I!PromisedIsThere, I!AllOrNothing

\* One request goes on under its name; what is made under other names stays.
LEMMA AskGoes ==
    ASSUME DatabaseInv, NEW q \in Clients, NEW new \in Asks, NEW n \in Databases,
           ask' = [ask EXCEPT ![q] = new],
           ask[q].pc # "idle" => ask[q].name = n,
           new.pc # "idle" => new.name = n,
           new.maker <=> new.pc \notin {"idle", "role"},
           database' \in [Databases -> {"absent", "owned", "granted"}],
           \A m \in Databases \ {n} : database'[m] = database[m] /\ (m \in role' <=> m \in role),
           promised \subseteq promised', promised' \subseteq promised \cup {n},
           halved \subseteq halved', halved' \subseteq halved \cup {n},
           \* what has to be so for this name
           new.maker => n \in role' /\ n \notin promised' /\ \A p \in Clients \ {q} : ~Makes(p, n),
           new.maker /\ n \notin halved' =>
              /\ new.pc = "database" => database'[n] = "absent"
              /\ new.pc \in {"connect", "grant", "undatabase"} => database'[n] = "owned",
           \A p \in Clients \ {q} : Makes(p, n) => UNCHANGED <<database, role, promised, halved>>,
           n \in promised' => database'[n] = "granted" /\ n \in role',
           ~new.maker /\ n \notin halved' /\ (\A p \in Clients \ {q} : ~Makes(p, n)) =>
              (n \in role' <=> database'[n] = "granted") /\ (n \notin role' => database'[n] = "absent")
    PROVE  DatabaseInv'
<1> USE DEF DatabaseInv
<1>1. ask'[q] = new /\ \A p \in Clients : p # q => ask'[p] = ask[p]
  OBVIOUS
<1>2. \A m \in Databases, p \in Clients : p # q => (Makes(p, m)' <=> Makes(p, m))
  BY <1>1 DEF Makes
<1>3. \A m \in Databases : m # n => ~Makes(q, m) /\ ~Makes(q, m)'
  BY <1>1 DEF Makes
<1>4. Makes(q, n)' <=> new.maker
  BY <1>1, DatabaseConstants DEF Makes
<1>5. \A p \in Clients : /\ ask'[p].pc # "idle" => ask'[p].name \in Databases
                         /\ ask'[p].maker <=> ask'[p].pc \notin {"idle", "role"}
  BY <1>1
<1>6. ASSUME NEW m \in Databases, NEW p \in Clients, Makes(p, m)'
      PROVE  /\ m \in role' /\ m \notin promised'
             /\ \A o \in Clients : Makes(o, m)' => o = p
             /\ m \notin halved' =>
                  /\ ask'[p].pc = "database" => database'[m] = "absent"
                  /\ ask'[p].pc \in {"connect", "grant", "undatabase"} => database'[m] = "owned"
  <2>1. CASE m # n
    BY <1>1, <1>2, <1>3, <1>6, <2>1
  <2>2. CASE m = n /\ p = q
    BY <1>1, <1>2, <1>4, <1>6, <2>2
  <2>3. CASE m = n /\ p # q
    BY <1>1, <1>2, <1>4, <1>6, <2>3
  <2> QED  BY <2>1, <2>2, <2>3
<1>7. I!PromisedIsThere'
  BY DEF I!PromisedIsThere
<1>8. I!AllOrNothing'
  <2> SUFFICES ASSUME NEW m \in Databases \ halved', \A p \in Clients : ~Makes(p, m)'
               PROVE  (m \in role' <=> database'[m] = "granted") /\ (m \notin role' => database'[m] = "absent")
    BY DEF I!AllOrNothing, Makes
  <2>1. CASE m # n
    <3>1. \A p \in Clients : ~Makes(p, m)
      BY <1>2, <1>3, <2>1
    <3> QED  BY <2>1, <3>1 DEF I!AllOrNothing, Makes
  <2>2. CASE m = n
    BY <1>2, <1>4, <2>2
  <2> QED  BY <2>1, <2>2
<1> QED  BY <1>1, <1>5, <1>6, <1>7, <1>8

\* Until the role is made, a request changes nothing that others see.
LEMMA BeforeRoleSteps ==
    ASSUME DatabaseInv, NEW q \in Clients,
           (\E n \in Databases : I!CreateDatabase(q, n)) \/ I!CreateRole(q)
    PROVE  DatabaseInv'
<1>1. CASE \E n \in Databases : I!CreateDatabase(q, n)
  <2>1. PICK n \in Databases : I!CreateDatabase(q, n)
    BY <1>1
  <2> DEFINE new == [I!NoAsk EXCEPT !.pc = "role", !.name = n]
  <2>2. new \in Asks /\ new.pc = "role" /\ new.name = n /\ ~new.maker
    BY NoAskIsOne DEF Asks
  <2>3. ask' = [ask EXCEPT ![q] = new] /\ ask[q].pc = "idle" /\ UNCHANGED <<role, database, promised, halved>>
    BY <2>1 DEF I!CreateDatabase, I!At
  <2> HIDE DEF new
  <2>4. ~Makes(q, n)
    BY <2>3 DEF DatabaseInv, Makes
  <2> QED
    BY <2>2, <2>3, <2>4, AskGoes DEF DatabaseInv, I!PromisedIsThere, I!AllOrNothing, Makes
<1>2. CASE I!CreateRole(q)
  <2> DEFINE n == ask[q].name
  <2>1. ask[q].pc = "role" /\ n \in Databases /\ ~ask[q].maker /\ UNCHANGED <<database, promised, halved>>
    BY <1>2 DEF DatabaseInv, I!CreateRole, I!At
  <2>2. CASE /\ n \notin role /\ role' = role \cup {n}
             /\ ask' = [ask EXCEPT ![q].pc = "database", ![q].maker = TRUE]
    <3> DEFINE new == [ask[q] EXCEPT !.pc = "database", !.maker = TRUE]
    <3>0. ask[q] \in Asks
      BY DEF DatabaseInv
    <3>1. new \in Asks /\ new.pc = "database" /\ new.name = n /\ new.maker
      BY <3>0 DEF Asks
    <3>2. ask' = [ask EXCEPT ![q] = new]
      BY <2>2
    <3> HIDE DEF new
    <3>3. \A p \in Clients : ~Makes(p, n)
      BY <2>1, <2>2 DEF DatabaseInv
    <3>4. n \notin promised
      BY <2>2 DEF DatabaseInv, I!PromisedIsThere
    <3>5. n \notin halved => database[n] = "absent"
      BY <2>1, <2>2, <3>3 DEF DatabaseInv, I!AllOrNothing, Makes
    <3>6. database \in [Databases -> {"absent", "owned", "granted"}]
      BY DEF DatabaseInv
    <3> HIDE DEF n
    <3> QED
      BY <2>1, <2>2, <3>1, <3>2, <3>3, <3>4, <3>5, <3>6, AskGoes, ZenonT(40) DEF n
  <2>3. CASE I!Gone(q) /\ role' = role
    <3>1. ask' = [ask EXCEPT ![q] = I!NoAsk]
      BY <2>3 DEF I!Gone
    <3>2. ~Makes(q, n)
      BY <2>1 DEF Makes
    <3> QED
      BY <2>1, <2>3, <3>1, <3>2, NoAskIsOne, AskGoes DEF DatabaseInv, I!PromisedIsThere, I!AllOrNothing, Makes
  <2> QED  BY <1>2, <2>2, <2>3 DEF I!CreateRole, I!Name
<1> QED  BY <1>1, <1>2

\* What holds for the one that has made the role
LEMMA MakerIsAlone ==
    ASSUME DatabaseInv, NEW q \in Clients, ask[q].pc \notin {"idle", "role"}, NEW n, n = ask[q].name
    PROVE  /\ n \in Databases /\ ask[q].maker /\ ask[q] \in Asks /\ n \in role /\ n \notin promised
           /\ \A p \in Clients \ {q} : ~Makes(p, n)
           /\ n \notin halved => /\ ask[q].pc = "database" => database[n] = "absent"
                                 /\ ask[q].pc \in {"connect", "grant", "undatabase"} => database[n] = "owned"
           /\ database \in [Databases -> {"absent", "owned", "granted"}]
BY DEF DatabaseInv, Makes

\* It goes on to the next statement, having made or dropped the database or not.
LEMMA MakerGoes ==
    ASSUME DatabaseInv, NEW q \in Clients, ask[q].pc \notin {"idle", "role"},
           NEW n \in Databases, n = ask[q].name,
           NEW pc \in {"database", "connect", "grant", "undatabase", "unrole"}, NEW closed \in BOOLEAN,
           ask' = [ask EXCEPT ![q] = [ask[q] EXCEPT !.pc = pc, !.closed = closed]],
           NEW to \in {"absent", "owned", "granted"}, database' = [database EXCEPT ![n] = to],
           n \notin halved => /\ pc = "database" => to = "absent"
                              /\ pc \in {"connect", "grant", "undatabase"} => to = "owned",
           UNCHANGED <<role, promised, halved>>
    PROVE  DatabaseInv'
<1> DEFINE new == [ask[q] EXCEPT !.pc = pc, !.closed = closed]
<1>1. /\ n \in role /\ n \notin promised /\ (\A p \in Clients \ {q} : ~Makes(p, n))
      /\ database \in [Databases -> {"absent", "owned", "granted"}] /\ ask[q] \in Asks /\ ask[q].maker
  BY MakerIsAlone
<1>2. new \in Asks /\ new.pc = pc /\ new.name = n /\ new.maker
  BY <1>1 DEF Asks
<1> HIDE DEF new
<1>3. /\ database' \in [Databases -> {"absent", "owned", "granted"}] /\ database'[n] = to
      /\ \A m \in Databases \ {n} : database'[m] = database[m]
  BY <1>1
<1>4. ask' = [ask EXCEPT ![q] = new]
  BY DEF new
<1>5. /\ promised \subseteq promised' /\ promised' \subseteq promised \cup {n}
      /\ halved \subseteq halved' /\ halved' \subseteq halved \cup {n}
      /\ n \in role' /\ n \notin promised' /\ \A m \in Databases \ {n} : m \in role' <=> m \in role
      /\ n \notin halved' => n \notin halved
  BY <1>1
<1>6. /\ new.maker <=> new.pc \notin {"idle", "role"}
      /\ n \notin halved' =>
            /\ new.pc = "database" => database'[n] = "absent"
            /\ new.pc \in {"connect", "grant", "undatabase"} => database'[n] = "owned"
  BY <1>2, <1>3, <1>5
<1> QED  BY <1>1, <1>2, <1>3, <1>4, <1>5, <1>6, AskGoes

LEMMA MakerSteps ==
    ASSUME DatabaseInv, NEW q \in Clients, I!MakeDatabase(q) \/ I!Connect(q) \/ I!UndoDatabase(q)
    PROVE  DatabaseInv'
<1> DEFINE n == ask[q].name
<1>1. ask[q].pc \in {"database", "connect", "undatabase"} /\ UNCHANGED <<role, promised, halved>>
  BY DEF I!MakeDatabase, I!Connect, I!UndoDatabase, I!At
<1>2. /\ n \in Databases /\ database \in [Databases -> {"absent", "owned", "granted"}] /\ ask[q] \in Asks
      /\ n \notin halved => /\ ask[q].pc = "database" => database[n] = "absent"
                            /\ ask[q].pc \in {"connect", "undatabase"} => database[n] = "owned"
  BY <1>1, MakerIsAlone
<1>3. PICK pc \in {"connect", "grant", "undatabase", "unrole"}, closed \in BOOLEAN,
           to \in {"absent", "owned", "granted"} :
        /\ ask' = [ask EXCEPT ![q] = [ask[q] EXCEPT !.pc = pc, !.closed = closed]]
        /\ database' = [database EXCEPT ![n] = to]
        /\ n \notin halved => (pc \in {"connect", "grant", "undatabase"} => to = "owned")
  <2>1. \A pc : [ask EXCEPT ![q].pc = pc] = [ask EXCEPT ![q] = [ask[q] EXCEPT !.pc = pc, !.closed = ask[q].closed]]
    BY <1>2, ZenonT(40) DEF DatabaseInv, Asks
  <2>2. ask[q].closed \in BOOLEAN /\ database[n] \in {"absent", "owned", "granted"}
        /\ database = [database EXCEPT ![n] = database[n]]
    BY <1>2 DEF Asks
  <2>3. CASE I!MakeDatabase(q)
    <3>1. CASE database' = [database EXCEPT ![n] = "owned"] /\ ask' = [ask EXCEPT ![q].pc = "connect"]
      BY <2>1, <2>2, <3>1, Zenon
    <3>2. CASE database' = database /\ ask' = [ask EXCEPT ![q].pc = "unrole"]
      BY <2>1, <2>2, <3>2, Zenon
    <3> QED  BY <2>3, <3>1, <3>2, Zenon DEF I!MakeDatabase, I!Goes, I!Name
  <2>4. CASE I!Connect(q)
    <3>0. ask[q].pc = "connect" /\ database' = database
      BY <2>4 DEF I!Connect, I!At
    <3>1. CASE ask' = [ask EXCEPT ![q].pc = "grant", ![q].closed = FALSE]
      BY <1>2, <2>2, <3>0, <3>1, Zenon
    <3>2. CASE ask' = [ask EXCEPT ![q].pc = "undatabase"]
      BY <1>2, <2>1, <2>2, <3>0, <3>2, Zenon
    <3> QED  BY <2>4, <3>1, <3>2, Zenon DEF I!Connect, I!Goes
  <2>5. CASE I!UndoDatabase(q)
    <3>0. ask' = [ask EXCEPT ![q].pc = "unrole"]
      BY <2>5 DEF I!UndoDatabase, I!Goes
    <3>1. CASE database' = [database EXCEPT ![n] = "absent"]
      BY <2>1, <2>2, <3>0, <3>1, Zenon
    <3>2. CASE database' = database
      BY <2>1, <2>2, <3>0, <3>2, Zenon
    <3> QED  BY <2>5, <3>1, <3>2, Zenon DEF I!UndoDatabase, I!Name
  <2> QED  BY <2>3, <2>4, <2>5, Zenon
<1> HIDE DEF n
<1> QED  BY <1>1, <1>2, <1>3, MakerGoes, ZenonT(40) DEF n

LEMMA GrantStep == ASSUME DatabaseInv, NEW q \in Clients, I!Grant(q) PROVE DatabaseInv'
<1> DEFINE n == ask[q].name
<1>1. ask[q].pc = "grant" /\ UNCHANGED <<role, halved>>
  BY DEF I!Grant, I!At
<1>2. /\ n \in Databases /\ database \in [Databases -> {"absent", "owned", "granted"}] /\ ask[q] \in Asks
      /\ n \in role /\ (\A p \in Clients \ {q} : ~Makes(p, n))
      /\ n \notin halved => database[n] = "owned"
  BY <1>1, MakerIsAlone
<1>3. CASE /\ database' = [database EXCEPT ![n] = "granted"] /\ I!Gone(q)
           /\ promised' = promised \cup {n}
  <2>1. ask' = [ask EXCEPT ![q] = I!NoAsk]
    BY <1>3 DEF I!Gone
  <2>2. /\ database' \in [Databases -> {"absent", "owned", "granted"}] /\ database'[n] = "granted"
        /\ \A m \in Databases \ {n} : database'[m] = database[m]
    BY <1>2, <1>3
  <2> HIDE DEF n
  <2> QED  BY <1>1, <1>2, <1>3, <2>1, <2>2, NoAskIsOne, AskGoes DEF n
<1>4. CASE /\ ask' \in {[ask EXCEPT ![q].pc = "undatabase", ![q].closed = c] : c \in BOOLEAN}
           /\ UNCHANGED <<database, promised>>
  <2>1. PICK c \in BOOLEAN : ask' = [ask EXCEPT ![q] = [ask[q] EXCEPT !.pc = "undatabase", !.closed = c]]
    BY <1>4
  <2>2. database[n] \in {"absent", "owned", "granted"} /\ database' = [database EXCEPT ![n] = database[n]]
    BY <1>2, <1>4
  <2> HIDE DEF n
  <2> QED  BY <1>1, <1>2, <1>4, <2>1, <2>2, MakerGoes, Zenon DEF n
<1> QED  BY <1>3, <1>4 DEF I!Grant, I!Name

LEMMA UndoRoleStep == ASSUME DatabaseInv, NEW q \in Clients, I!UndoRole(q) PROVE DatabaseInv'
<1> DEFINE n == ask[q].name
<1>1. ask[q].pc = "unrole" /\ ask' = [ask EXCEPT ![q] = I!NoAsk] /\ UNCHANGED <<database, promised>>
  BY DEF I!UndoRole, I!At, I!Gone
<1>2. \/ database[n] = "absent" /\ role' = role \ {n} /\ halved' = halved
      \/ role' = role /\ halved' = halved \cup {n}
  BY DEF I!UndoRole, I!Name
<1>3. /\ n \in Databases /\ database \in [Databases -> {"absent", "owned", "granted"}]
      /\ n \notin promised /\ (\A p \in Clients \ {q} : ~Makes(p, n))
  BY <1>1, MakerIsAlone
<1> HIDE DEF n
<1> QED  BY <1>1, <1>2, <1>3, NoAskIsOne, AskGoes DEF n

LEMMA DropDatabaseStep == ASSUME DatabaseInv, NEW n \in Databases, I!DropDatabase(n) PROVE DatabaseInv'
<1> USE DEF DatabaseInv
<1>1. /\ database' = [database EXCEPT ![n] = "absent"] /\ promised' = promised \ {n}
      /\ halved' = halved \cup {n} /\ UNCHANGED <<role, ask>>
  BY DEF I!DropDatabase
<1>2. /\ database' \in [Databases -> {"absent", "owned", "granted"}]
      /\ \A m \in Databases \ {n} : database'[m] = database[m]
  BY <1>1
<1>3. I!PromisedIsThere' /\ I!AllOrNothing'
  BY <1>1, <1>2 DEF I!PromisedIsThere, I!AllOrNothing
<1> QED  BY <1>1, <1>2, <1>3 DEF Makes

\* When the process dies the names of those that had made a role are half-made.
LEMMA DatabasesDroppedStep == DatabaseInv /\ I!DatabasesDropped => DatabaseInv'
<1> SUFFICES ASSUME DatabaseInv, I!DatabasesDropped PROVE DatabaseInv'
  OBVIOUS
<1> USE NoAskIsOne DEF DatabaseInv
<1>1. /\ ask' = [q \in Clients |-> I!NoAsk] /\ UNCHANGED <<role, database, promised>>
      /\ \A m \in Databases \ halved' : m \notin halved /\ \A q \in Clients : ~Makes(q, m)
  BY DatabaseConstants DEF I!DatabasesDropped, Makes, I!Name
<1>2. I!AllOrNothing'
  BY <1>1 DEF I!AllOrNothing, Makes
<1>3. \A q \in Clients : \A m : ~Makes(q, m)'
  BY <1>1 DEF Makes
<1> QED  BY <1>1, <1>2, <1>3 DEF I!PromisedIsThere

LEMMA DatabaseSteps == DatabaseInv /\ MakeDatabases => DatabaseInv'
BY BeforeRoleSteps, MakerSteps, GrantStep, UndoRoleStep, DropDatabaseStep DEF MakeDatabases

LEMMA DatabasesUntouched == DatabaseInv /\ UNCHANGED databaseVars => DatabaseInv'
BY DEF DatabaseInv, databaseVars, Makes, I!PromisedIsThere, I!AllOrNothing

-----------------------------------------------------------------------------
(* Servers that were found *)

Containing == [state : {"none", "running", "exited"}, kind : {"postgres", "own", "app"},
               port : F!Ports, volume : F!Disks \cup {None}, net : BOOLEAN]
Dealings == [pc : {"idle", "inspect", "join", "login", "port", "insert", "remove", "volume", "unrow"},
             id : Boxes \cup {None}, name : Labels \cup {None}, port : F!Ports, net : BOOLEAN, keep : BOOLEAN]

\* What is registered is a PostgreSQL container, and its id is given to no other.
Postgres(c) == c \in Boxes /\ host[c].kind = "postgres"

\* What a request has in hand still holds when its next call is made.
DealHolds(x) ==
    /\ x.pc # "idle" => Postgres(x.id) /\ x.name \in Labels
    /\ x.pc \in {"inspect", "join", "login", "port", "insert"} =>
          (x.id \in F!Known => x.id \in doubled)
    /\ x.pc \in {"join", "login"} => x.port = host[x.id].port
    /\ x.pc = "port" => host[x.id].port = 0
    /\ x.pc = "insert" => host[x.id].port \in {0, x.port}
    /\ x.pc = "remove" => x.keep \/ host[x.id].volume \in unwanted \cup {None}
    /\ x.pc = "volume" => host[x.id].volume \in unwanted
    /\ x.pc \in {"volume", "unrow"} => ~F!Exists(x.id)

RowsHold ==
    /\ servers \subseteq F!ServerRows
    /\ \A s, t \in servers : s.name = t.name \/ s.port = t.port => s = t
    /\ \A s \in servers : host[s.id].port \in {0, s.port}
    /\ \A c \in page \cup deleted \cup F!Known : Postgres(c)
    /\ page \cap F!Known \subseteq stale

AdoptionInv ==
    /\ host \in [Boxes -> Containing] /\ adopt \in [Adopters -> Dealings]
    /\ \A a \in Adopters : DealHolds(adopt[a])
    /\ RowsHold
    /\ F!OneServerPerContainer /\ F!DeletionIsWhole

LEMMA AdoptionConstants ==
    /\ PortStart \in Nat \ {0} /\ PortEnd \in Nat /\ None \notin Boxes /\ None \notin Labels
    /\ \A c \in DOMAIN Found : /\ c \in Boxes /\ Found[c].kind \in {"postgres", "own", "app"}
                               /\ Found[c].port \in F!Ports
BY OperationsAssumption DEF F!AdoptionAssumption, F!Ports

LEMMA NoAdoptionIsOne == F!NoAdoption \in Dealings /\ F!NoAdoption.pc = "idle"
BY AdoptionConstants DEF F!NoAdoption, Dealings, F!Ports

LEMMA AdoptionInitially == Init => AdoptionInv
<1> SUFFICES ASSUME F!AdoptionInit PROVE AdoptionInv
  BY DEF Init
<1> USE DEF F!AdoptionInit
<1>1. ASSUME NEW c \in Boxes
      PROVE  /\ host[c] \in Containing
             /\ c \in DOMAIN Found /\ Found[c].kind = "postgres" => host[c].kind = "postgres"
  <2>1. CASE c \in DOMAIN Found
    <3>1. host[c] = [state |-> "running", kind |-> Found[c].kind, port |-> Found[c].port,
                     volume |-> Found[c].volume, net |-> FALSE]
      BY <2>1
    <3>2. Found[c].volume \in F!Disks
      BY <2>1 DEF F!Disks
    <3> QED  BY <2>1, <3>1, <3>2, AdoptionConstants DEF Containing
  <2>2. CASE c \notin DOMAIN Found
    <3>1. host[c] = F!NoBox
      BY <2>2
    <3> QED  BY <2>2, <3>1, AdoptionConstants DEF Containing, F!NoBox, F!Ports
  <2> QED  BY <2>1, <2>2
<1>2. host \in [Boxes -> Containing]
  <2>1. \A c \in Boxes : host[c] \in Containing
    BY <1>1
  <2> QED  BY <2>1
<1>3. F!Known = {} /\ page \subseteq Boxes /\ \A c \in page : Postgres(c)
  BY <1>1, AdoptionConstants DEF F!Known, Postgres
<1>4. \A a \in Adopters : adopt[a] = F!NoAdoption
  OBVIOUS
<1>5. \A a \in Adopters : DealHolds(adopt[a])
  BY <1>4, NoAdoptionIsOne DEF DealHolds
<1> QED
  BY <1>2, <1>3, <1>5, NoAdoptionIsOne DEF AdoptionInv, RowsHold, F!OneServerPerContainer, F!DeletionIsWhole

\* Nothing makes a PostgreSQL container anew, or another of it.
HostGoes ==
    /\ host' \in [Boxes -> Containing]
    /\ \A c \in Boxes : Postgres(c) =>
          /\ host'[c].kind = "postgres" /\ host'[c].port = host[c].port /\ host'[c].volume = host[c].volume
          /\ F!Exists(c)' => F!Exists(c)

LEMMA HostStays == AdoptionInv /\ host' = host => HostGoes
BY DEF AdoptionInv, HostGoes, Postgres, F!Exists

\* What is in hand and in the rows stays right while more is known to be doubled
\* or unwanted.
LEMMA DealStays ==
    ASSUME AdoptionInv, HostGoes, NEW x \in Dealings, DealHolds(x),
           F!Known' \subseteq F!Known, doubled \subseteq doubled', unwanted \subseteq unwanted'
    PROVE  DealHolds(x)'
BY AdoptionConstants DEF DealHolds, HostGoes, Postgres

LEMMA AdoptionGoes ==
    ASSUME AdoptionInv, HostGoes, NEW a \in Adopters, NEW new \in Dealings,
           adopt' = [adopt EXCEPT ![a] = new], DealHolds(new)',
           UNCHANGED <<servers, page, stale, deleted>>,
           doubled \subseteq doubled', unwanted \subseteq unwanted',
           F!Disks \ data' \subseteq unwanted'
    PROVE  AdoptionInv'
<1> USE DEF AdoptionInv
<1>1. F!Known' = F!Known
  BY DEF F!Known
<1>2. ASSUME NEW b \in Adopters PROVE DealHolds(adopt[b])'
  <2>1. CASE b = a
    <3>1. adopt'[b] = new
      BY <2>1
    <3> QED  BY <3>1 DEF DealHolds, Postgres, F!Exists
  <2>2. CASE b # a
    <3>1. adopt'[b] = adopt[b] /\ adopt[b] \in Dealings /\ DealHolds(adopt[b])
      BY <2>2
    <3>2. PICK x \in Dealings : x = adopt[b] /\ x = adopt'[b]
      BY <3>1
    <3>3. DealHolds(x)'
      BY <1>1, <3>1, <3>2, DealStays
    <3> QED  BY <3>2, <3>3 DEF DealHolds, Postgres, F!Exists
  <2> QED  BY <2>1, <2>2
<1>3. RowsHold'
  <2>1. \A s \in servers : s.id \in F!Known /\ Postgres(s.id) /\ host'[s.id].port = host[s.id].port
    BY DEF RowsHold, F!Known, HostGoes, Postgres
  <2> QED  BY <1>1, <2>1 DEF RowsHold, HostGoes, Postgres
<1>4. F!OneServerPerContainer'
  <2>1. \A s \in servers : s.id \in F!Known /\ Postgres(s.id) /\ host'[s.id].port = host[s.id].port
    BY DEF RowsHold, F!Known, HostGoes, Postgres
  <2> QED  BY <2>1 DEF F!OneServerPerContainer
<1>5. F!DeletionIsWhole'
  <2>1. \A c \in deleted : Postgres(c)
    BY DEF RowsHold
  <2> QED  BY <2>1 DEF F!DeletionIsWhole, HostGoes, Postgres
<1> QED  BY <1>2, <1>3, <1>4, <1>5 DEF HostGoes

LEMMA AdoptionEnds ==
    ASSUME AdoptionInv, HostGoes, NEW a \in Adopters, F!Ends(a),
           UNCHANGED <<data, servers, page, stale, doubled, deleted, unwanted>>
    PROVE  AdoptionInv'
<1>1. PICK new \in Dealings : new = F!NoAdoption /\ new.pc = "idle"
  BY NoAdoptionIsOne
<1>2. adopt' = [adopt EXCEPT ![a] = new] /\ DealHolds(new)'
  BY <1>1 DEF F!Ends, DealHolds
<1> QED  BY <1>2, AdoptionGoes DEF AdoptionInv, F!DeletionIsWhole

\* The next free port is in the range, or there is none.
LEMMA NextPortIsOne ==
    ASSUME AdoptionInv, NEW next, next = F!Max({PortStart} \cup {s.port + 1 : s \in servers}), ~(next > PortEnd)
    PROVE  next \in F!Ports
<1> DEFINE above == {PortStart} \cup {s.port + 1 : s \in servers}
           top == PortStart + PortEnd + 1
           below == {top - p : p \in above}
<1>1. \A s \in servers : s.port \in 0 .. PortEnd
  BY DEF AdoptionInv, RowsHold, F!ServerRows, F!Ports
<1>2. \A p \in above : p \in Nat /\ p <= top
  BY <1>1, AdoptionConstants
<1>3. PortStart \in above /\ top \in Nat
  BY AdoptionConstants
<1> HIDE DEF above, top
<1>4. below \subseteq Nat /\ below # {}
  BY <1>2, <1>3
<1>5. PICK m \in below : \A k \in below : m <= k
  BY <1>4, Least
<1>6. PICK p \in above : m = top - p
  OBVIOUS
<1>7. \A k \in above : p >= k
  <2> TAKE k \in above
  <2>1. m <= top - k
    BY <1>5
  <2> QED  BY <1>2, <1>3, <1>6, <2>1
<1>8. next \in above
  BY <1>6, <1>7 DEF F!Max, above
<1>9. next \in Nat
  BY <1>2, <1>8
<1> QED  BY <1>9, AdoptionConstants DEF F!Ports

LEMMA RegisterStep ==
    ASSUME AdoptionInv, NEW a \in Adopters, NEW c \in Boxes, NEW n \in Labels, F!RegisterDiscovered(a, c, n)
    PROVE  AdoptionInv'
<1> DEFINE asked == [F!NoAdoption EXCEPT !.pc = "inspect", !.id = c, !.name = n]
<1>0. asked \in Dealings /\ asked.pc = "inspect" /\ asked.id = c /\ asked.name = n
  BY NoAdoptionIsOne DEF Dealings
<1>1. PICK new \in Dealings : new = asked /\ new.pc = "inspect" /\ new.id = c /\ new.name = n
  BY <1>0
<1>2. /\ adopt' = [adopt EXCEPT ![a] = new] /\ c \in page /\ doubled' = doubled \cup ({c} \cap stale)
      /\ UNCHANGED <<host, data, servers, page, stale, deleted, unwanted>>
  BY <1>1 DEF F!RegisterDiscovered
<1>3. HostGoes
  BY <1>2, HostStays
<1>4. Postgres(c)' /\ F!Known' = F!Known /\ (c \in F!Known => c \in doubled')
  BY <1>2 DEF AdoptionInv, RowsHold, Postgres, F!Known
<1>5. DealHolds(new)'
  BY <1>1, <1>4 DEF DealHolds
<1> QED  BY <1>2, <1>3, <1>5, AdoptionGoes DEF AdoptionInv, F!DeletionIsWhole

LEMMA DiscoverStep == AdoptionInv /\ F!DiscoverContainers => AdoptionInv'
<1> SUFFICES ASSUME AdoptionInv, F!DiscoverContainers PROVE AdoptionInv'
  OBVIOUS
<1> USE DEF AdoptionInv
<1>1. /\ page' = {c \in Boxes : F!Exists(c) /\ c \notin F!Known /\ host[c].kind # "own" /\ F!LooksLikePostgres(c)}
      /\ UNCHANGED <<host, data, servers, adopt, doubled, deleted, unwanted>>
  BY DEF F!DiscoverContainers
<1>2. F!Known' = F!Known /\ \A c : Postgres(c)' = Postgres(c)
  BY <1>1 DEF F!Known, Postgres
<1>3. \A c \in page' : Postgres(c) /\ c \notin F!Known
  BY <1>1 DEF F!LooksLikePostgres, Postgres
<1>4. RowsHold'
  BY <1>1, <1>2, <1>3 DEF RowsHold
<1>5. \A a \in Adopters : DealHolds(adopt[a])'
  BY <1>1, <1>2 DEF DealHolds, F!Exists
<1> QED  BY <1>1, <1>4, <1>5 DEF F!OneServerPerContainer, F!DeletionIsWhole, F!Exists

LEMMA InspectStep == ASSUME AdoptionInv, NEW a \in Adopters, F!Inspect(a) PROVE AdoptionInv'
<1> DEFINE c == adopt[a].id
<1>1. adopt[a].pc = "inspect" /\ UNCHANGED <<host, data, servers, page, stale, doubled, deleted, unwanted>>
  BY DEF F!Inspect, F!Kept
<1>2. HostGoes
  BY <1>1, HostStays
<1>3. CASE adopt' = [adopt EXCEPT ![a].pc = "join", ![a].port = host[c].port, ![a].net = host[c].net]
  <2>1. adopt[a] \in Dealings /\ DealHolds(adopt[a]) /\ host[c].port \in F!Ports /\ host[c].net \in BOOLEAN
    BY <1>1 DEF AdoptionInv, DealHolds, Postgres, Containing
  <2> DEFINE known == [adopt[a] EXCEPT !.pc = "join", !.port = host[c].port, !.net = host[c].net]
  <2>0. /\ known \in Dealings /\ known.pc = "join" /\ known.id = adopt[a].id /\ known.name = adopt[a].name
        /\ known.port = host[adopt[a].id].port
    BY <2>1 DEF Dealings
  <2>2. PICK new \in Dealings :
           /\ new = known /\ new.pc = "join" /\ new.id = adopt[a].id /\ new.name = adopt[a].name
           /\ new.port = host[adopt[a].id].port
    BY <2>0
  <2>3. adopt' = [adopt EXCEPT ![a] = new]
    BY <1>3, <2>2
  <2>4. DealHolds(new)'
    BY <1>1, <2>1, <2>2 DEF DealHolds, Postgres, F!Known
  <2> QED  BY <1>1, <1>2, <2>3, <2>4, AdoptionGoes DEF AdoptionInv, F!DeletionIsWhole
<1>4. CASE F!Ends(a)
  BY <1>1, <1>2, <1>4, AdoptionEnds
<1> QED  BY <1>3, <1>4 DEF F!Inspect

\* A request goes on to its next call, with what it has in hand.
LEMMA CallGoes ==
    ASSUME AdoptionInv, HostGoes, NEW a \in Adopters,
           NEW pc \in {"login", "port", "insert", "volume", "unrow"}, F!Goes(a, pc),
           UNCHANGED <<servers, page, stale, doubled, deleted, unwanted>>, F!Disks \ data' \subseteq unwanted,
           pc \in {"login", "port", "insert"} => adopt[a].pc \in {"join", "login"},
           pc = "login" => adopt[a].pc = "join",
           pc = "port" => adopt[a].port = 0,
           pc \in {"volume", "unrow"} => adopt[a].pc \in {"remove", "volume"} /\ host'[adopt[a].id].state = "none",
           pc = "volume" => adopt[a].pc = "remove" /\ ~adopt[a].keep /\ host[adopt[a].id].volume # None
    PROVE  AdoptionInv'
<1>1. adopt[a] \in Dealings /\ DealHolds(adopt[a])
  BY DEF AdoptionInv
<1> DEFINE next == [adopt[a] EXCEPT !.pc = pc]
<1>0. /\ next \in Dealings /\ next.pc = pc
      /\ next.id = adopt[a].id /\ next.name = adopt[a].name /\ next.port = adopt[a].port
  BY <1>1 DEF Dealings
<1>2. PICK new \in Dealings :
         /\ new = next /\ new.pc = pc
         /\ new.id = adopt[a].id /\ new.name = adopt[a].name /\ new.port = adopt[a].port
  BY <1>0
<1>3. adopt' = [adopt EXCEPT ![a] = new]
  BY <1>2 DEF F!Goes
<1>4. PICK c : c = adopt[a].id
  OBVIOUS
<1>5. /\ Postgres(c) /\ new.name \in Labels /\ Postgres(c)' /\ F!Known' = F!Known
      /\ host'[c].port = host[c].port /\ host'[c].volume = host[c].volume
  BY <1>1, <1>2, <1>4 DEF DealHolds, HostGoes, Postgres, F!Known
<1>6. pc \in {"login", "port", "insert"} => new.port = host[c].port /\ (c \in F!Known => c \in doubled)
  BY <1>1, <1>2, <1>4 DEF DealHolds
<1>7. pc = "volume" => host[c].volume \in unwanted
  BY <1>1, <1>4 DEF DealHolds
<1>8. pc \in {"volume", "unrow"} => ~F!Exists(c)'
  BY <1>4 DEF F!Exists
<1>9. DealHolds(new)'
  BY <1>2, <1>4, <1>5, <1>6, <1>7, <1>8 DEF DealHolds
<1> QED  BY <1>3, <1>9, AdoptionGoes

LEMMA JoinStep == ASSUME AdoptionInv, NEW a \in Adopters, F!JoinNetwork(a) PROVE AdoptionInv'
<1>1. /\ adopt[a].pc = "join" /\ UNCHANGED <<data, servers, page, stale, doubled, deleted, unwanted>>
      /\ F!Disks \ data' \subseteq unwanted
  BY DEF F!JoinNetwork, F!Kept, AdoptionInv, F!DeletionIsWhole
<1>2. \/ F!Goes(a, "login") /\ host' \in {host, [host EXCEPT ![adopt[a].id].net = TRUE]}
      \/ F!Ends(a) /\ host' = host
  BY DEF F!JoinNetwork
<1>3. HostGoes
  <2>1. CASE host' = [host EXCEPT ![adopt[a].id].net = TRUE]
    BY <2>1, ZenonT(40) DEF AdoptionInv, HostGoes, Postgres, F!Exists, Containing
  <2> QED  BY <1>2, <2>1, HostStays
<1>4. CASE F!Goes(a, "login")
  BY <1>1, <1>3, <1>4, CallGoes
<1>5. CASE F!Ends(a)
  BY <1>1, <1>3, <1>5, AdoptionEnds
<1> QED  BY <1>2, <1>4, <1>5

LEMMA LoginStep == ASSUME AdoptionInv, NEW a \in Adopters, F!Login(a) PROVE AdoptionInv'
<1>1. /\ adopt[a].pc = "login" /\ UNCHANGED <<host, data, servers, page, stale, doubled, deleted, unwanted>>
      /\ F!Disks \ data' \subseteq unwanted
  BY DEF F!Login, F!Kept, AdoptionInv, F!DeletionIsWhole
<1>2. HostGoes
  BY <1>1, HostStays
<1>3. CASE F!Goes(a, IF adopt[a].port = 0 THEN "port" ELSE "insert")
  <2>1. CASE adopt[a].port = 0 /\ F!Goes(a, "port")
    BY <1>1, <1>2, <2>1, CallGoes
  <2>2. CASE F!Goes(a, "insert")
    BY <1>1, <1>2, <2>2, CallGoes
  <2> QED  BY <1>3, <2>1, <2>2
<1>4. CASE F!Ends(a)
  BY <1>1, <1>2, <1>4, AdoptionEnds
<1> QED  BY <1>3, <1>4 DEF F!Login

LEMMA AllocateStep == ASSUME AdoptionInv, NEW a \in Adopters, F!AllocatePort(a) PROVE AdoptionInv'
<1>1. /\ adopt[a].pc = "port" /\ UNCHANGED <<host, data, servers, page, stale, doubled, deleted, unwanted>>
  BY DEF F!AllocatePort, F!Kept
<1>2. HostGoes
  BY <1>1, HostStays
<1>3. PICK next : /\ next = F!Max({PortStart} \cup {s.port + 1 : s \in servers})
                  /\ \/ F!Ends(a)
                     \/ ~(next > PortEnd) /\ adopt' = [adopt EXCEPT ![a].pc = "insert", ![a].port = next]
  BY DEF F!AllocatePort
<1>4. CASE F!Ends(a)
  BY <1>1, <1>2, <1>4, AdoptionEnds
<1>5. CASE ~(next > PortEnd) /\ adopt' = [adopt EXCEPT ![a].pc = "insert", ![a].port = next]
  <2>1. next \in F!Ports /\ adopt[a] \in Dealings /\ DealHolds(adopt[a])
    BY <1>3, <1>5, NextPortIsOne DEF AdoptionInv
  <2> DEFINE given == [adopt[a] EXCEPT !.pc = "insert", !.port = next]
  <2>0. given \in Dealings /\ given.pc = "insert" /\ given.id = adopt[a].id /\ given.name = adopt[a].name
    BY <2>1 DEF Dealings
  <2>2. PICK new \in Dealings :
           new = given /\ new.pc = "insert" /\ new.id = adopt[a].id /\ new.name = adopt[a].name
    BY <2>0
  <2>3. adopt' = [adopt EXCEPT ![a] = new]
    BY <1>5, <2>2
  <2>4. DealHolds(new)'
    BY <1>1, <2>1, <2>2 DEF DealHolds, Postgres, F!Known
  <2> QED  BY <1>1, <1>2, <2>3, <2>4, AdoptionGoes DEF AdoptionInv, F!DeletionIsWhole
<1> QED  BY <1>3, <1>4, <1>5

\* A row whose container was registered before is of one that began on a stale
\* page, or with the other under way, and only of a container without a port.
LEMMA InsertServerStep == ASSUME AdoptionInv, NEW a \in Adopters, F!InsertServer(a) PROVE AdoptionInv'
<1>1. adopt[a].pc = "insert" /\ F!Ends(a) /\ UNCHANGED <<host, data, page, deleted, unwanted>>
  BY DEF F!InsertServer
<1>2. HostGoes
  BY <1>1, HostStays
<1>3. CASE UNCHANGED <<servers, stale, doubled>>
  BY <1>1, <1>2, <1>3, AdoptionEnds
<1>4. CASE ~UNCHANGED <<servers, stale, doubled>>
  <2>0. PICK x \in Dealings : x = adopt[a] /\ x.pc = "insert" /\ DealHolds(x)
    BY <1>1 DEF AdoptionInv
  <2> DEFINE s == [name |-> x.name, id |-> x.id, port |-> x.port]
  <2>1. /\ \A t \in servers : t.name # x.name /\ t.port # x.port
        /\ servers' = servers \cup {s} /\ stale' = stale \cup {x.id}
        /\ doubled' = IF \E b \in Adopters \ {a} : adopt[b].id = x.id THEN doubled \cup {x.id} ELSE doubled
    BY <1>4, <2>0 DEF F!InsertServer
  <2>2. /\ s \in F!ServerRows /\ s.id = x.id /\ s.name = x.name /\ s.port = x.port
        /\ Postgres(x.id) /\ host[x.id].port \in {0, x.port} /\ (x.id \in F!Known => x.id \in doubled)
    BY <2>0 DEF DealHolds, Postgres, F!ServerRows, Dealings
  <2> HIDE DEF s
  <2>3. F!Known' = F!Known \cup {x.id} /\ \A t \in servers : t.id \in F!Known
    BY <2>1, <2>2 DEF F!Known
  <2>4. \A c : Postgres(c)' = Postgres(c) /\ F!Exists(c)' = F!Exists(c)
    BY <1>1 DEF Postgres, F!Exists
  <2>5. /\ adopt' \in [Adopters -> Dealings] /\ adopt'[a] = F!NoAdoption
        /\ \A b \in Adopters \ {a} : adopt'[b] = adopt[b]
    BY <1>1, NoAdoptionIsOne DEF F!Ends, AdoptionInv
  <2>6. ASSUME NEW b \in Adopters PROVE DealHolds(adopt[b])'
    <3>1. CASE b = a
      BY <2>5, <3>1, NoAdoptionIsOne DEF DealHolds
    <3>2. CASE b # a
      <4>1. adopt'[b] = adopt[b] /\ DealHolds(adopt[b])
        BY <2>5, <3>2 DEF AdoptionInv
      <4>2. adopt[b].id \in F!Known' => adopt[b].id \in F!Known \/ adopt[b].id \in doubled'
        BY <2>1, <2>3, <3>2
      <4>3. doubled \subseteq doubled'
        BY <2>1
      <4> QED  BY <1>1, <2>4, <4>1, <4>2, <4>3 DEF DealHolds
    <3> QED  BY <3>1, <3>2
  <2>7. RowsHold'
    <3>1. servers' \subseteq F!ServerRows /\ \A t \in servers' : host'[t.id].port \in {0, t.port}
      BY <1>1, <2>1, <2>2 DEF AdoptionInv, RowsHold
    <3>2. \A t, u \in servers' : t.name = u.name \/ t.port = u.port => t = u
      BY <2>1, <2>2 DEF AdoptionInv, RowsHold
    <3>3. \A c \in page' \cup deleted' \cup F!Known' : Postgres(c)'
      BY <1>1, <2>2, <2>3, <2>4 DEF AdoptionInv, RowsHold
    <3>4. page' \cap F!Known' \subseteq stale'
      BY <1>1, <2>1, <2>3 DEF AdoptionInv, RowsHold
    <3> QED  BY <3>1, <3>2, <3>3, <3>4 DEF RowsHold
  <2>8. F!OneServerPerContainer'
    <3> SUFFICES ASSUME NEW t \in servers', NEW u \in servers', t.id = u.id, t # u
                 PROVE  t.id \in doubled' /\ host'[t.id].port = 0
      BY DEF F!OneServerPerContainer
    <3>1. CASE t \in servers /\ u \in servers
      BY <1>1, <2>1, <3>1 DEF AdoptionInv, F!OneServerPerContainer
    <3>2. ASSUME NEW o \in servers, o.id = x.id PROVE x.id \in doubled' /\ host'[x.id].port = 0
      <4>1. x.id \in doubled /\ doubled \subseteq doubled'
        BY <2>1, <2>2, <2>3, <3>2
      <4>2. host[x.id].port \in {0, o.port} /\ o.port # x.port
        BY <2>1, <3>2 DEF AdoptionInv, RowsHold
      <4> QED  BY <1>1, <2>2, <4>1, <4>2
    <3> QED  BY <2>1, <2>2, <3>1, <3>2
  <2>9. F!DeletionIsWhole'
    BY <1>1, <2>4 DEF AdoptionInv, F!DeletionIsWhole
  <2> QED  BY <1>1, <2>5, <2>6, <2>7, <2>8, <2>9 DEF AdoptionInv
<1> QED  BY <1>3, <1>4

LEMMA DeleteServerStep ==
    ASSUME AdoptionInv, NEW a \in Adopters, NEW s \in servers, NEW keep \in BOOLEAN, F!DeleteServer(a, s, keep)
    PROVE  AdoptionInv'
<1> DEFINE asked == [pc |-> "remove", id |-> s.id, name |-> s.name, port |-> s.port, net |-> FALSE, keep |-> keep]
<1>1. s \in F!ServerRows /\ Postgres(s.id)
  BY DEF AdoptionInv, RowsHold, F!Known
<1>2. /\ asked \in Dealings /\ asked.pc = "remove" /\ asked.id = s.id /\ asked.name \in Labels
      /\ asked.keep = keep
  BY <1>1 DEF Dealings, F!ServerRows
<1>3. /\ adopt' = [adopt EXCEPT ![a] = asked]
      /\ unwanted' = IF keep THEN unwanted ELSE unwanted \cup ({host[s.id].volume} \ {None})
      /\ UNCHANGED <<host, data, servers, page, stale, doubled, deleted>>
  BY DEF F!DeleteServer
<1> HIDE DEF asked
<1>4. PICK new \in Dealings : new = asked
  BY <1>2
<1>5. HostGoes
  BY <1>3, HostStays
<1>6. DealHolds(new)'
  BY <1>1, <1>2, <1>3, <1>4 DEF DealHolds, Postgres
<1> QED  BY <1>3, <1>4, <1>5, <1>6, AdoptionGoes DEF AdoptionInv, F!DeletionIsWhole

LEMMA RemoveBoxStep == ASSUME AdoptionInv, NEW a \in Adopters, F!RemoveBox(a) PROVE AdoptionInv'
<1>1. /\ adopt[a].pc = "remove" /\ UNCHANGED <<data, servers, page, stale, doubled, deleted, unwanted>>
      /\ F!Disks \ data' \subseteq unwanted
  BY DEF F!RemoveBox, F!Kept, AdoptionInv, F!DeletionIsWhole
<1> DEFINE c == adopt[a].id
<1>2. CASE F!Ends(a) /\ host' = host
  BY <1>1, <1>2, HostStays, AdoptionEnds
<1>3. CASE /\ host' = [host EXCEPT ![c].state = "none"]
           /\ F!Goes(a, IF adopt[a].keep \/ host[c].volume = None THEN "unrow" ELSE "volume")
  <2>1. HostGoes
    BY <1>3, ZenonT(40) DEF AdoptionInv, HostGoes, Postgres, F!Exists, Containing
  <2>2. c \in Boxes
    BY <1>1 DEF AdoptionInv, DealHolds, Postgres
  <2>3. host'[c].state = "none"
    BY <1>3, <2>2 DEF AdoptionInv, Containing
  <2>4. CASE F!Goes(a, "unrow")
    BY <1>1, <2>1, <2>3, <2>4, CallGoes
  <2>5. CASE F!Goes(a, "volume") /\ ~adopt[a].keep /\ host[c].volume # None
    BY <1>1, <2>1, <2>3, <2>5, CallGoes
  <2> QED  BY <1>3, <2>4, <2>5
<1> QED  BY <1>2, <1>3 DEF F!RemoveBox

LEMMA RemoveVolumeStep == ASSUME AdoptionInv, NEW a \in Adopters, F!RemoveVolume(a) PROVE AdoptionInv'
<1>1. adopt[a].pc = "volume" /\ UNCHANGED <<host, servers, page, stale, doubled, deleted, unwanted>>
  BY DEF F!RemoveVolume, F!Kept
<1>2. HostGoes
  BY <1>1, HostStays
<1>3. CASE F!Ends(a) /\ data' = data
  BY <1>1, <1>2, <1>3, AdoptionEnds
<1>4. CASE data' = data \ {host[adopt[a].id].volume} /\ F!Goes(a, "unrow")
  <2>1. host[adopt[a].id].volume \in unwanted /\ host[adopt[a].id].state = "none"
    BY <1>1 DEF AdoptionInv, DealHolds, F!Exists
  <2>2. F!Disks \ data' \subseteq unwanted
    BY <1>4, <2>1 DEF AdoptionInv, F!DeletionIsWhole
  <2> QED  BY <1>1, <1>2, <1>4, <2>1, <2>2, CallGoes
<1> QED  BY <1>3, <1>4 DEF F!RemoveVolume

LEMMA DeleteServerRowStep == ASSUME AdoptionInv, NEW a \in Adopters, F!DeleteRow(a) PROVE AdoptionInv'
<1>1. /\ adopt[a].pc = "unrow" /\ adopt' = [adopt EXCEPT ![a] = F!NoAdoption]
      /\ servers' \subseteq servers /\ deleted' = deleted \cup {adopt[a].id}
      /\ UNCHANGED <<host, data, page, stale, doubled, unwanted>>
  BY DEF F!DeleteRow, F!Ends
<1>2. Postgres(adopt[a].id) /\ ~F!Exists(adopt[a].id)
  BY <1>1 DEF AdoptionInv, DealHolds
<1>3. F!Known' \subseteq F!Known /\ \A c : Postgres(c)' = Postgres(c) /\ F!Exists(c)' = F!Exists(c)
  BY <1>1 DEF F!Known, Postgres, F!Exists
<1>4. ASSUME NEW b \in Adopters PROVE DealHolds(adopt[b])'
  <2>1. CASE b = a
    BY <1>1, <2>1, NoAdoptionIsOne DEF DealHolds, AdoptionInv
  <2>2. CASE b # a
    <3>1. adopt'[b] = adopt[b] /\ DealHolds(adopt[b])
      BY <1>1, <2>2 DEF AdoptionInv
    <3> QED  BY <1>1, <1>3, <3>1 DEF DealHolds
  <2> QED  BY <2>1, <2>2
<1>5. RowsHold'
  BY <1>1, <1>2, <1>3 DEF AdoptionInv, RowsHold
<1>6. F!OneServerPerContainer'
  BY <1>1 DEF AdoptionInv, F!OneServerPerContainer
<1>7. F!DeletionIsWhole'
  <2>1. \A c \in deleted' : ~F!Exists(c)'
    BY <1>1, <1>2, <1>3 DEF AdoptionInv, F!DeletionIsWhole
  <2> QED  BY <1>1, <2>1 DEF AdoptionInv, F!DeletionIsWhole
<1>8. adopt' \in [Adopters -> Dealings]
  BY <1>1, NoAdoptionIsOne DEF AdoptionInv
<1> QED  BY <1>1, <1>4, <1>5, <1>6, <1>7, <1>8 DEF AdoptionInv

\* The Docker page puts nothing in the place of a PostgreSQL container.
LEMMA DockerPageSteps ==
    ASSUME AdoptionInv, NEW c \in Boxes,
           F!DockerPageStops(c) \/ F!DockerPageRemoves(c) \/ \E d \in Boxes : F!DockerPageRecreates(c, d)
    PROVE  AdoptionInv'
<1>1. UNCHANGED <<data, adopt, servers, page, stale, doubled, deleted, unwanted>> /\ F!Exists(c)
  BY DEF F!DockerPageStops, F!DockerPageRemoves, F!DockerPageRecreates, F!Kept
<1>2. host \in [Boxes -> Containing]
  BY DEF AdoptionInv
<1>3. HostGoes
  <2>1. ASSUME NEW state \in {"none", "running", "exited"}, host' = [host EXCEPT ![c].state = state]
        PROVE  HostGoes
    BY <1>1, <1>2, <2>1 DEF HostGoes, Postgres, F!Exists, Containing
  <2>2. CASE F!DockerPageStops(c) \/ F!DockerPageRemoves(c)
    BY <1>2, <2>1, <2>2 DEF F!DockerPageStops, F!DockerPageRemoves
  <2>3. ASSUME NEW d \in Boxes, F!DockerPageRecreates(c, d) PROVE HostGoes
    <3>1. host' = [host EXCEPT ![c].state = "none", ![d] = host[c]] /\ host[d] = F!NoBox
      BY <2>3 DEF F!DockerPageRecreates
    <3>2. c # d /\ ~Postgres(d)
      BY <1>1, <3>1 DEF F!Exists, Postgres, F!NoBox
    <3> DEFINE gone == [host[c] EXCEPT !.state = "none"]
    <3>3. /\ gone \in Containing /\ host[c] \in Containing /\ gone.state = "none" /\ gone.kind = host[c].kind
          /\ gone.port = host[c].port /\ gone.volume = host[c].volume
      BY <1>2 DEF Containing
    <3>4. host'[c] = gone /\ host'[d] = host[c] /\ \A b \in Boxes \ {c, d} : host'[b] = host[b]
      BY <1>2, <3>1, <3>2
    <3>5. host' \in [Boxes -> Containing]
      <4>1. DOMAIN host' = Boxes /\ host' = [b \in Boxes |-> host'[b]]
        BY <1>2, <3>1
      <4>2. \A b \in Boxes : host'[b] \in Containing
        BY <1>2, <3>3, <3>4
      <4> QED  BY <4>1, <4>2
    <3> HIDE DEF gone
    <3> QED  BY <3>2, <3>3, <3>4, <3>5 DEF HostGoes, Postgres, F!Exists
  <2> QED  BY <2>2, <2>3
<1>4. F!Known' = F!Known
  BY <1>1 DEF F!Known
<1>5. ASSUME NEW b \in Adopters PROVE DealHolds(adopt[b])'
  <2>1. PICK x \in Dealings : x = adopt[b] /\ x = adopt'[b] /\ DealHolds(x)
    BY <1>1 DEF AdoptionInv
  <2>2. DealHolds(x)'
    BY <1>1, <1>3, <1>4, <2>1, DealStays
  <2> QED  BY <2>1, <2>2 DEF DealHolds, Postgres, F!Exists
<1>6. \A b : Postgres(b) => Postgres(b)' /\ host'[b].port = host[b].port /\ (F!Exists(b)' => F!Exists(b))
  BY <1>3 DEF HostGoes, Postgres
<1>7. \A s \in servers : Postgres(s.id)
  BY DEF AdoptionInv, RowsHold, F!Known
<1>8. RowsHold'
  BY <1>1, <1>4, <1>6, <1>7 DEF AdoptionInv, RowsHold
<1>9. F!OneServerPerContainer' /\ F!DeletionIsWhole'
  BY <1>1, <1>6, <1>7 DEF AdoptionInv, RowsHold, F!OneServerPerContainer, F!DeletionIsWhole
<1> QED  BY <1>1, <1>3, <1>5, <1>8, <1>9 DEF AdoptionInv, HostGoes

LEMMA AdoptionDroppedStep == AdoptionInv /\ F!AdoptionDropped => AdoptionInv'
<1> SUFFICES ASSUME AdoptionInv, F!AdoptionDropped PROVE AdoptionInv'
  OBVIOUS
<1>1. /\ adopt' = [a \in Adopters |-> F!NoAdoption]
      /\ UNCHANGED <<host, data, servers, page, stale, doubled, deleted, unwanted>>
  BY DEF F!AdoptionDropped, F!Kept
<1>2. \A a \in Adopters : DealHolds(adopt[a])'
  BY <1>1, NoAdoptionIsOne DEF DealHolds
<1>3. RowsHold' /\ F!OneServerPerContainer' /\ F!DeletionIsWhole'
  BY <1>1 DEF AdoptionInv, RowsHold, F!OneServerPerContainer, F!DeletionIsWhole, F!Known, Postgres, F!Exists
<1> QED  BY <1>1, <1>2, <1>3, NoAdoptionIsOne DEF AdoptionInv

LEMMA AdoptionSteps == AdoptionInv /\ Adopt => AdoptionInv'
BY DiscoverStep, RegisterStep, InspectStep, JoinStep, LoginStep, AllocateStep, InsertServerStep,
   DeleteServerStep, RemoveBoxStep, RemoveVolumeStep, DeleteServerRowStep, DockerPageSteps DEF Adopt

LEMMA AdoptionUntouched == AdoptionInv /\ UNCHANGED adoptionVars => AdoptionInv'
<1> SUFFICES ASSUME AdoptionInv, UNCHANGED adoptionVars PROVE AdoptionInv'
  OBVIOUS
<1>1. UNCHANGED <<host, data, servers, page, adopt, stale, doubled, deleted, unwanted>>
  BY DEF adoptionVars
<1>2. \A a \in Adopters : DealHolds(adopt[a])'
  BY <1>1 DEF DealHolds, AdoptionInv, F!Known, Postgres, F!Exists
<1>3. RowsHold' /\ F!OneServerPerContainer' /\ F!DeletionIsWhole'
  BY <1>1 DEF AdoptionInv, RowsHold, F!OneServerPerContainer, F!DeletionIsWhole, F!Known, Postgres, F!Exists
<1> QED  BY <1>1, <1>2, <1>3 DEF AdoptionInv

-----------------------------------------------------------------------------
(* Retention, pg_hba.conf, the databases and the servers that were found *)

ServersInv == RetainInv /\ HbaInv /\ DatabaseInv /\ AdoptionInv

LEMMA ServersInitially == Init => ServersInv
BY RetainInitially, HbaInitially, DatabaseInitially, AdoptionInitially DEF ServersInv

LEMMA RetentionStays == RetainInv /\ UNCHANGED retentionVars => RetainInv'
BY RetainUntouched DEF RetainInv, RetainShape, retentionVars

\* A part that a step leaves alone stays as it was.
LEMMA ServersUntouched ==
    ASSUME ServersInv,
           RetainInv' \/ UNCHANGED retentionVars, HbaInv' \/ UNCHANGED hbaVars,
           DatabaseInv' \/ UNCHANGED databaseVars, AdoptionInv' \/ UNCHANGED adoptionVars
    PROVE  ServersInv'
BY RetentionStays, HbaUntouched, DatabasesUntouched, AdoptionUntouched DEF ServersInv

LEMMA ServersInvSteps == ServersInv /\ [Next]_vars => ServersInv'
<1> SUFFICES ASSUME ServersInv, [Next]_vars PROVE ServersInv'
  OBVIOUS
<1>1. CASE DockerPages
  BY <1>1, DockerPagesQuiet, ServersUntouched DEF serverVars, dailyVars, adminVars
<1>2. CASE Retain
  BY <1>2, RetainSteps, RetainQuiet, ServersUntouched DEF ServersInv, adminVars
<1>3. CASE EditHba
  BY <1>3, HbaSteps, EditHbaQuiet, ServersUntouched DEF ServersInv, adminVars
<1>4. CASE MakeDatabases
  BY <1>4, DatabaseSteps, MakeDatabasesQuiet, ServersUntouched DEF ServersInv, adminVars
<1>5. CASE Adopt
  BY <1>5, AdoptionSteps, AdoptQuiet, ServersUntouched DEF ServersInv, dailyVars
<1>6. CASE Alert
  BY <1>6, AlertQuiet, ServersUntouched DEF adminVars
<1>7. CASE Settings \/ Drive
  BY <1>7, SettingsQuiet, DriveQuiet, ServersUntouched DEF dailyVars
<1>8. CASE Crash
  BY <1>8, RetentionDroppedStep, HbaDroppedStep, DatabasesDroppedStep, AdoptionDroppedStep DEF Crash, ServersInv
<1>9. CASE UNCHANGED vars
  BY <1>9, ServersUntouched DEF vars, serverVars, dailyVars, adminVars
<1> QED  BY <1>1, <1>2, <1>3, <1>4, <1>5, <1>6, <1>7, <1>8, <1>9 DEF Next, DockerPages

\* A row retention takes out of a table is in the archive, once; a rule added to
\* pg_hba.conf stays and is loaded; a database that was promised is there with
\* its role, and otherwise neither; and no server shares its container or leaves
\* it behind: whatever runs together with them, fails or dies between their steps.
THEOREM ServersAreRight == Spec => []ServersAgree
<1>1. ServersInv => ServersAgree
  BY RetainHeld DEF ServersInv, HbaInv, DatabaseInv, AdoptionInv, ServersAgree
<1> QED  BY ServersInitially, ServersInvSteps, <1>1, PTL DEF Spec

=============================================================================

------------------------------- MODULE Backups -------------------------------
(***************************************************************************)
(* Backups of one managed server: manual dumps, scheduled policies, the    *)
(* sweep that runs them, retention and deletion (internal/server/backup.go,*)
(* backup_policy.go, backup_storage.go, backup_gdrive*.go).                *)
(*                                                                         *)
(* A backup is a row and a file, changed one after the other by whichever  *)
(* goroutine is at it: the worker that dumps, a retention, a delete        *)
(* request.  A step is one SQL statement, pg_dump, or one storage call.    *)
(***************************************************************************)
EXTENDS Naturals, FiniteSets

CONSTANTS
    Backups,        \* ids of backup rows, never reused
    Policies,       \* ids of backup policies
    Slots,          \* delete requests in flight together
    None,           \* no policy, no backup
    Storages,       \* storages in use: "local", "gdrive"
    RetentionCount, \* retention_count of every policy
    MaxSecond,      \* bound on the clock that names the files
    Spaced,         \* no two backups are started within one second
    Outages,        \* may the managed server stop and start?
    Budget          \* bound on requests, due times, outages, faults, crashes

ASSUME BackupsAssumption ==
    /\ None \notin Backups \cup Policies /\ Slots \cap Backups = {}
    /\ Storages \subseteq {"local", "gdrive"}
    /\ RetentionCount \in Nat \ {0} /\ MaxSecond \in Nat /\ Budget \in Nat
    /\ Spaced \in BOOLEAN /\ Outages \in BOOLEAN

VARIABLES
    row,        \* table backups
    policy,     \* table backup_policies: absent, enabled, disabled, deleted
    due,        \* has the next scheduled time of the policy passed?
    disk,       \* local storage: whose dump the file named after a second holds
    drive,      \* Google Drive: backups whose file exists there
    server,     \* the managed server: running, stopped, gone
    job,        \* performBackup and, for a policy, the rest of runPolicyOnce
    deleting,   \* DeleteBackup, called by a request slot or by a job's retention
    sweep,      \* sweepBackupPoliciesOnce: the policies it still has to run
    second,     \* the clock, in seconds
    budget,
    cut,        \* history: an operation on the backup was cut short
    asked,      \* history: backups whose deletion a user asked for
    early       \* history: backups whose delete read a row not yet completed

stores  == <<disk, drive>>
history == <<cut, asked, early>>
vars == <<row, policy, due, disk, drive, server, job, deleting, sweep, second,
          budget, cut, asked, early>>

Row == [status: {"absent", "running", "completed", "failed", "deleted"},
        policy: Policies \cup {None}, storage: Storages \cup {"none"},
        name: 0..MaxSecond, seq: Nat]
Job == [pc: {"idle", "read", "dump", "store", "save", "fail", "record", "list", "expire"},
        by: {"none", "manual", "now", "sweep"}, for: Policies \cup {None},
        ok: BOOLEAN, gone: BOOLEAN, todo: SUBSET Backups]

TypeOK ==
    /\ row \in [Backups -> Row]
    /\ policy \in [Policies -> {"absent", "enabled", "disabled", "deleted"}]
    /\ due \in [Policies -> BOOLEAN]
    /\ disk \in [0..MaxSecond -> Backups \cup {None}] /\ drive \subseteq Backups
    /\ server \in {"running", "stopped", "gone"}
    /\ job \in [Backups -> Job]
    /\ deleting \in [Slots \cup Backups -> [pc: {"idle", "file", "row"}, of: Backups \cup {None}]]
    /\ sweep \in [todo: SUBSET Policies, cur: Backups \cup {None}]
    /\ second \in 0..MaxSecond /\ budget \in Nat
    /\ cut \subseteq Backups /\ asked \subseteq Backups /\ early \subseteq Backups

-----------------------------------------------------------------------------
(* Rows, files, faults *)

IdleJob == [pc |-> "idle", by |-> "none", for |-> None, ok |-> FALSE, gone |-> FALSE, todo |-> {}]
NotDeleting == [pc |-> "idle", of |-> None]

Exists(b) == row[b].status \in {"running", "completed", "failed"}

Held(b) == IF row[b].storage = "local" THEN disk[row[b].name] = b ELSE b \in drive

NoFault  == UNCHANGED <<budget, cut>>
Fault(b) == budget > 0 /\ budget' = budget - 1 /\ cut' = cut \cup {b}
Charged  == budget > 0 /\ budget' = budget - 1 /\ UNCHANGED cut

\* One call on behalf of backup b that may do its work, must report an error,
\* or reports one although it could have done it.
Outcome(b, possible, success, failure) ==
    \/ possible /\ success /\ NoFault
    \/ ~possible /\ failure /\ NoFault
    \/ possible /\ failure /\ Fault(b)

\* Store: a local dump is renamed over whatever bears its name; Drive gives
\* every upload an id of its own.
Put(b) ==
    IF row[b].storage = "local"
    THEN disk' = [disk EXCEPT ![row[b].name] = b] /\ UNCHANGED drive
    ELSE drive' = drive \cup {b} /\ UNCHANGED disk

\* Mutant: what is removed is the directory of the server.
Erase_WholeFolder(b) ==
    IF row[b].storage = "local"
    THEN disk' = [n \in 0..MaxSecond |-> None] /\ UNCHANGED drive
    ELSE drive' = drive \ {b} /\ UNCHANGED disk

\* Delete: the file of that name, whoever wrote it; a missing file is no error.
Erase(b) ==
    IF row[b].storage = "local"
    THEN disk' = [disk EXCEPT ![row[b].name] = None] /\ UNCHANGED drive
    ELSE drive' = drive \ {b} /\ UNCHANGED disk

-----------------------------------------------------------------------------
(* Starting a backup *)

\* insertBackup: the file is named after the current second; ids are interchangeable.
Insert(b, p, st, by) ==
    /\ row[b].status = "absent" /\ b = CHOOSE c \in Backups : row[c].status = "absent"
    /\ Spaced => \A c \in Backups : row[c].status # "absent" => row[c].name # second
    /\ row' = [row EXCEPT ![b] = [status |-> "running", policy |-> p, storage |-> st, name |-> second,
                 seq |-> Cardinality({c \in Backups : row[c].status # "absent"}) + 1]]
    /\ job' = [job EXCEPT ![b] = [IdleJob EXCEPT !.pc = "read", !.by = by, !.for = p]]

\* CreateBackup answers at once; its goroutine drops the request's context.
CreateBackup(b, st) ==
    /\ server = "running" /\ Charged
    /\ Insert(b, None, st, "manual")
    /\ UNCHANGED <<policy, due, stores, server, deleting, sweep, second, asked, early>>

\* RunBackupPolicyNow does not look at enabled, and keeps the request's context.
RunPolicyNow(b, p, st) ==
    /\ policy[p] \in {"enabled", "disabled"} /\ Charged
    /\ Insert(b, p, st, "now")
    /\ UNCHANGED <<policy, due, stores, server, deleting, sweep, second, asked, early>>

\* The client of a "run now" goes away: the call under way is cut short, and
\* every later one that takes the context fails.
ClientGone(b) ==
    /\ job[b].by = "now" /\ job[b].pc # "idle" /\ ~job[b].gone
    /\ budget > 0 /\ budget' = budget - 1
    /\ cut' = cut \cup ({b, deleting[b].of} \ {None})
    /\ job' = [job EXCEPT ![b].gone = TRUE]
    /\ UNCHANGED <<row, policy, due, stores, server, deleting, sweep, second, asked, early>>

-----------------------------------------------------------------------------
(* performBackup, and what follows it in runPolicyOnce *)

\* The end of performBackup: a manual job is over, a policy run is recorded.
Performed(b, ok) ==
    job' = [job EXCEPT ![b] = IF job[b].by = "manual" THEN IdleJob
                              ELSE [@ EXCEPT !.pc = "record", !.ok = ok]]

Step(b, pc) == job' = [job EXCEPT ![b].pc = pc]

\* getBackupAndServer: on an error performBackup returns as it is, without
\* markBackupFailed.
ReadBackup(b) ==
    /\ job[b].pc = "read"
    /\ Outcome(b, Exists(b) /\ server = "running" /\ ~job[b].gone,
               Step(b, "dump"), Performed(b, FALSE))
    /\ UNCHANGED <<row, policy, due, stores, server, deleting, sweep, second, asked, early>>

\* An UPDATE that finds no row is not an error.
SetStatus(b, st) ==
    row' = IF Exists(b) THEN [row EXCEPT ![b].status = st] ELSE row

\* Mutant: the result is saved before the dump is stored.
Dump_SavedFirst(b) ==
    /\ job[b].pc = "dump"
    /\ Outcome(b, server = "running" /\ ~job[b].gone,
               Step(b, "store") /\ SetStatus(b, "completed"), Step(b, "fail") /\ UNCHANGED row)
    /\ UNCHANGED <<policy, due, stores, server, deleting, sweep, second, asked, early>>

Dump(b) ==
    /\ job[b].pc = "dump"
    /\ Outcome(b, server = "running" /\ ~job[b].gone, Step(b, "store"), Step(b, "fail"))
    /\ UNCHANGED <<row, policy, due, stores, server, deleting, sweep, second, asked, early>>

\* A local Store does not look at the context.
Store(b) ==
    /\ job[b].pc = "store"
    /\ Outcome(b, row[b].storage = "local" \/ ~job[b].gone,
               Step(b, "save") /\ Put(b),
               Step(b, "fail") /\ (UNCHANGED stores \/ Put(b)))
    /\ UNCHANGED <<row, policy, due, server, deleting, sweep, second, asked, early>>

SaveCompleted(b) ==
    /\ job[b].pc = "save"
    /\ Outcome(b, ~job[b].gone,
               SetStatus(b, "completed") /\ Performed(b, TRUE),
               UNCHANGED row /\ Step(b, "fail"))
    /\ UNCHANGED <<policy, due, stores, server, deleting, sweep, second, asked, early>>

\* Mutant: the failure is returned but not written to the row.
MarkFailed_Skipped(b) ==
    /\ job[b].pc = "fail"
    /\ Performed(b, FALSE) /\ NoFault
    /\ UNCHANGED <<row, policy, due, stores, server, deleting, sweep, second, asked, early>>

\* Mutant: the status written is the one of a policy run.
MarkFailed_AsPolicyRun(b) ==
    /\ job[b].pc = "fail"
    /\ Outcome(b, ~job[b].gone, SetStatus(b, "error"), UNCHANGED row)
    /\ Performed(b, FALSE)
    /\ UNCHANGED <<policy, due, stores, server, deleting, sweep, second, asked, early>>

\* markBackupFailed: its own error is only logged.
MarkFailed(b) ==
    /\ job[b].pc = "fail"
    /\ Outcome(b, ~job[b].gone, SetStatus(b, "failed"), UNCHANGED row)
    /\ Performed(b, FALSE)
    /\ UNCHANGED <<policy, due, stores, server, deleting, sweep, second, asked, early>>

\* recordPolicyRun sets last_run_at, so the next time lies ahead again.
RecordRun(b) ==
    /\ job[b].pc = "record"
    /\ Outcome(b, ~job[b].gone, due' = [due EXCEPT ![job[b].for] = FALSE], UNCHANGED due)
    /\ job' = [job EXCEPT ![b] = IF job[b].ok THEN [@ EXCEPT !.pc = "list"] ELSE IdleJob]
    /\ UNCHANGED <<row, policy, stores, server, deleting, sweep, second, asked, early>>

CompletedOf(p) == {c \in Backups : row[c].status = "completed" /\ row[c].policy = p}

Newer(b) == {c \in CompletedOf(row[b].policy) : row[c].seq > row[b].seq}

\* Mutant: the OFFSET counts one backup too few.
Expired_OffByOne(p) == {c \in CompletedOf(p) : Cardinality(Newer(c)) >= RetentionCount - 1}

\* Mutant: the list is not filtered by the policy.
Expired_OfAnyPolicy(p) ==
    {c \in Backups : /\ row[c].status = "completed"
                     /\ Cardinality({b \in Backups : row[b].status = "completed" /\ row[b].seq > row[c].seq})
                           >= RetentionCount}

\* ORDER BY started_at DESC OFFSET retention_count.
Expired(p) == {c \in CompletedOf(p) : Cardinality(Newer(c)) >= RetentionCount}

ListExpired(b) ==
    /\ job[b].pc = "list"
    /\ Outcome(b, ~job[b].gone,
               job' = [job EXCEPT ![b].pc = "expire", ![b].todo = Expired(job[b].for)],
               job' = [job EXCEPT ![b] = IdleJob])
    /\ UNCHANGED <<row, policy, due, stores, server, deleting, sweep, second, asked, early>>

\* The loop over the ids found, newest first, and its end.
ExpireNext(b) ==
    /\ job[b].pc = "expire" /\ deleting[b] = NotDeleting
    /\ LET todo == job[b].todo IN
       IF todo = {} THEN job' = [job EXCEPT ![b] = IdleJob] /\ UNCHANGED deleting
       ELSE \E v \in todo :
              /\ \A c \in todo : row[c].seq <= row[v].seq
              /\ job' = [job EXCEPT ![b].todo = todo \ {v}]
              /\ deleting' = [deleting EXCEPT ![b] =
                     IF ~Exists(v) \/ job[b].gone THEN NotDeleting
                     ELSE [pc |-> IF row[v].status = "completed" THEN "file" ELSE "row", of |-> v]]
    /\ UNCHANGED <<row, policy, due, stores, server, sweep, second, budget, history>>

-----------------------------------------------------------------------------
(* DeleteBackup: getBackup, then the file if the row said completed, then the *)
(* row.  d is a request slot, or the job whose retention calls it.            *)

Cancelled(d) == d \in Backups /\ job[d].gone

DeleteRequest(d, b) ==
    /\ deleting[d].pc = "idle" /\ Exists(b) /\ Charged
    /\ deleting' = [deleting EXCEPT ![d] =
           [pc |-> IF row[b].status = "completed" THEN "file" ELSE "row", of |-> b]]
    /\ asked' = asked \cup {b}
    /\ early' = IF row[b].status = "completed" THEN early ELSE early \cup {b}
    /\ UNCHANGED <<row, policy, due, stores, server, job, sweep, second>>

\* Mutant: the file is left for the row to be removed first.
DeleteFile_Skipped(d) ==
    /\ deleting[d].pc = "file"
    /\ deleting' = [deleting EXCEPT ![d].pc = "row"] /\ NoFault
    /\ UNCHANGED <<row, policy, due, stores, server, job, sweep, second, asked, early>>

DeleteFile(d) ==
    LET b == deleting[d].of IN
    /\ deleting[d].pc = "file"
    /\ Outcome(b, row[b].storage = "local" \/ ~Cancelled(d),
               deleting' = [deleting EXCEPT ![d].pc = "row"] /\ Erase(b),
               /\ deleting' = [deleting EXCEPT ![d] = NotDeleting]
               /\ UNCHANGED stores \/ (row[b].storage = "gdrive" /\ Erase(b)))
    /\ UNCHANGED <<row, policy, due, server, job, sweep, second, asked, early>>

DeleteRow(d) ==
    LET b == deleting[d].of IN
    /\ deleting[d].pc = "row"
    /\ Outcome(b, Exists(b) /\ ~Cancelled(d),
               row' = [row EXCEPT ![b].status = "deleted"], UNCHANGED row)
    /\ deleting' = [deleting EXCEPT ![d] = NotDeleting]
    /\ UNCHANGED <<policy, due, stores, server, job, sweep, second, asked, early>>

-----------------------------------------------------------------------------
(* Policies and their sweep *)

CreatePolicy(p) ==
    /\ policy[p] = "absent" /\ server # "gone"
    /\ policy' = [policy EXCEPT ![p] = "enabled"]
    /\ UNCHANGED <<row, due, stores, server, job, deleting, sweep, second, budget, history>>

SetPolicyEnabled(p) ==
    /\ policy[p] \in {"enabled", "disabled"} /\ Charged
    /\ policy' = [policy EXCEPT ![p] = IF @ = "enabled" THEN "disabled" ELSE "enabled"]
    /\ UNCHANGED <<row, due, stores, server, job, deleting, sweep, second, asked, early>>

\* policy_id ON DELETE SET NULL: its backups become nobody's.
DeletePolicy(p) ==
    /\ policy[p] \in {"enabled", "disabled"} /\ Charged
    /\ policy' = [policy EXCEPT ![p] = "deleted"]
    /\ row' = [b \in Backups |-> IF row[b].policy = p THEN [row[b] EXCEPT !.policy = None] ELSE row[b]]
    /\ UNCHANGED <<due, stores, server, job, deleting, sweep, second, asked, early>>

\* The time nextScheduledRun computed from last_run_at comes (module BackupSchedule).
TimeComes(p) ==
    /\ policy[p] \in {"enabled", "disabled"} /\ ~due[p] /\ Charged
    /\ due' = [due EXCEPT ![p] = TRUE]
    /\ UNCHANGED <<row, policy, stores, server, job, deleting, sweep, second, asked, early>>

\* One tick: the enabled policies that are due, run one after the other.
SweepTick ==
    /\ sweep.todo = {} /\ sweep.cur = None
    /\ \E p \in Policies : policy[p] = "enabled" /\ due[p]
    /\ sweep' = [sweep EXCEPT !.todo = {p \in Policies : policy[p] = "enabled" /\ due[p]}]
    /\ UNCHANGED <<row, policy, due, stores, server, job, deleting, second, budget, history>>

SweepStart(b, p, st) ==
    /\ sweep.cur = None /\ p \in sweep.todo /\ policy[p] # "deleted"
    /\ Insert(b, p, st, "sweep")
    /\ sweep' = [todo |-> sweep.todo \ {p}, cur |-> b]
    /\ UNCHANGED <<policy, due, stores, server, deleting, second, budget, history>>

\* The INSERT fails, breaking the foreign key when the policy was deleted since
\* the list was read; recordPolicyRun still counts that as a run.
SweepSkip(p) ==
    /\ sweep.cur = None /\ p \in sweep.todo
    /\ sweep' = [sweep EXCEPT !.todo = @ \ {p}]
    /\ \/ policy[p] = "deleted" /\ UNCHANGED <<due, budget>>
       \/ policy[p] # "deleted" /\ due' = [due EXCEPT ![p] = FALSE]
          /\ budget > 0 /\ budget' = budget - 1
    /\ UNCHANGED <<row, policy, stores, server, job, deleting, second, history>>

\* Mutant: with the last policy that is due, the ticker returns too.
SweepNext_TickerReturns ==
    /\ sweep.cur # None /\ job[sweep.cur].pc = "idle" /\ sweep.todo # {}
    /\ sweep' = [sweep EXCEPT !.cur = None]
    /\ UNCHANGED <<row, policy, due, stores, server, job, deleting, second, budget, history>>

SweepNext ==
    /\ sweep.cur # None /\ job[sweep.cur].pc = "idle"
    /\ sweep' = [sweep EXCEPT !.cur = None]
    /\ UNCHANGED <<row, policy, due, stores, server, job, deleting, second, budget, history>>

-----------------------------------------------------------------------------
(* Around the backups *)

ServerStops ==
    /\ Outages /\ server = "running" /\ Charged /\ server' = "stopped"
    /\ UNCHANGED <<row, policy, due, stores, job, deleting, sweep, second, asked, early>>

ServerStarts ==
    /\ server = "stopped" /\ server' = "running"
    /\ UNCHANGED <<row, policy, due, stores, job, deleting, sweep, second, budget, history>>

\* ON DELETE CASCADE takes rows and policies; the files stay where they are.
ServerDeleted ==
    /\ Outages /\ server # "gone" /\ Charged /\ server' = "gone"
    /\ row' = [b \in Backups |-> IF Exists(b) THEN [row[b] EXCEPT !.status = "deleted"] ELSE row[b]]
    /\ policy' = [p \in Policies |-> "deleted"]
    /\ early' = Backups
    /\ UNCHANGED <<due, stores, job, deleting, sweep, second, asked>>

\* A second in which no backup starts makes no difference.
SecondPasses ==
    /\ \E b \in Backups : row[b].status # "absent" /\ row[b].name = second
    /\ second < MaxSecond /\ second' = second + 1
    /\ UNCHANGED <<row, policy, due, stores, server, job, deleting, sweep, budget, history>>

Busy(b) == job[b].pc # "idle" \/ \E d \in Slots \cup Backups : deleting[d].of = b

\* The backend restarts: workers, requests and the sweep are gone.
Crash ==
    /\ \E b \in Backups : Busy(b)
    /\ budget > 0 /\ budget' = budget - 1
    /\ cut' = cut \cup {b \in Backups : Busy(b)}
    /\ job' = [b \in Backups |-> IdleJob]
    /\ deleting' = [d \in Slots \cup Backups |-> NotDeleting]
    /\ sweep' = [todo |-> {}, cur |-> None]
    /\ UNCHANGED <<row, policy, due, stores, server, second, asked, early>>

Init ==
    /\ row = [b \in Backups |-> [status |-> "absent", policy |-> None, storage |-> "none",
                                 name |-> 0, seq |-> 0]]
    /\ policy = [p \in Policies |-> "absent"] /\ due = [p \in Policies |-> FALSE]
    /\ disk = [n \in 0..MaxSecond |-> None] /\ drive = {}
    /\ server = "running"
    /\ job = [b \in Backups |-> IdleJob]
    /\ deleting = [d \in Slots \cup Backups |-> NotDeleting]
    /\ sweep = [todo |-> {}, cur |-> None]
    /\ second = 0 /\ budget = Budget /\ cut = {} /\ asked = {} /\ early = {}

Working(b) ==
    \/ ReadBackup(b) \/ Dump(b) \/ Store(b) \/ SaveCompleted(b) \/ MarkFailed(b)
    \/ RecordRun(b) \/ ListExpired(b) \/ ExpireNext(b)

Deleting(d) == DeleteFile(d) \/ DeleteRow(d)

Sweeping ==
    \/ SweepTick \/ SweepNext
    \/ \E p \in Policies : SweepSkip(p) \/ \E b \in Backups, st \in Storages : SweepStart(b, p, st)

Next ==
    \/ \E b \in Backups :
          \/ \E st \in Storages :
                CreateBackup(b, st) \/ \E p \in Policies : RunPolicyNow(b, p, st)
          \/ ClientGone(b) \/ Working(b)
          \/ \E d \in Slots : DeleteRequest(d, b)
    \/ \E d \in Slots \cup Backups : Deleting(d)
    \/ \E p \in Policies : CreatePolicy(p) \/ SetPolicyEnabled(p) \/ DeletePolicy(p) \/ TimeComes(p)
    \/ Sweeping
    \/ ServerStops \/ ServerStarts \/ ServerDeleted \/ SecondPasses \/ Crash

Spec == Init /\ [][Next]_vars

-----------------------------------------------------------------------------
(* Safety *)

\* A completed backup can be downloaded and restored, and yields its own dump,
\* until the delete that is about to remove its row has removed the file.
CompletedHasDump ==
    \A b \in Backups :
        row[b].status = "completed" /\ b \notin cut =>
            Held(b) \/ \E d \in Slots \cup Backups : deleting[d] = [pc |-> "row", of |-> b]

\* No dump outlives its row, unless the delete found the backup still running,
\* the whole server was deleted or an operation was cut short.
NoOrphanDump ==
    \A b \in Backups :
        row[b].status = "deleted" /\ b \notin cut \cup early => ~Held(b)

\* Retention only takes backups that have retention_count newer completed ones
\* of the same policy, also when runs, retentions and the sweep overlap, as
\* long as nobody deletes backups by hand meanwhile.
RetentionSparesNewest ==
    \A b \in Backups :
        LET v == deleting[b].of IN
        deleting[b].pc # "idle" /\ Exists(v) /\ row[v].policy # None /\ asked = {} =>
            Cardinality(Newer(v)) >= RetentionCount

\* A manual backup is never deleted by a scheduled policy (backup.md:44): whatever
\* the retention of job j does, by the list it read some steps before, leaves the
\* row and the dump of a completed backup without a policy as they are, as long
\* as no policy is deleted.
ManualBackupKept ==
    [][\A j, b \in Backups :
          /\ deleting'[j] # deleting[j]
          /\ row[b].status = "completed" /\ row[b].policy = None
          /\ \A p \in Policies : policy[p] # "deleted"
          => row'[b] = row[b] /\ (Held(b) => Held(b)')]_vars

-----------------------------------------------------------------------------
(* Liveness *)

\* Queries, pg_dump and storage calls return; the sweep ticks every minute; time passes.
Fairness ==
    /\ \A b \in Backups : WF_vars(Working(b))
    /\ \A d \in Slots \cup Backups : WF_vars(Deleting(d))
    /\ WF_vars(Sweeping) /\ WF_vars(SecondPasses)

FairSpec == Spec /\ Fairness

\* A backup whose dump was started leaves the status running, also when the
\* server is stopped or deleted meanwhile, unless its work was cut short.
DumpEnds ==
    \A b \in Backups : job[b].pc = "dump" ~> row[b].status # "running" \/ b \in cut

\* A policy whose time has come is run, or is no longer enabled, also when its
\* run fails, overlaps one by hand or is ended by a restart of the backend.
DuePolicyRuns ==
    \A p \in Policies : due[p] /\ policy[p] = "enabled" ~> ~due[p] \/ policy[p] # "enabled"

\* The table of backups and the dumps on the disk and in Drive tell one story,
\* and retention takes the oldest first.
DumpsMatchRows == TypeOK /\ CompletedHasDump /\ NoOrphanDump /\ RetentionSparesNewest

=============================================================================

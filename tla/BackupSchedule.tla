---------------------------- MODULE BackupSchedule ----------------------------
(***************************************************************************)
(* When a backup policy runs: nextScheduledRun and the sweep that compares *)
(* it with the clock (internal/server/backup_policy.go).                   *)
(*                                                                         *)
(* A time is a day and an instant of that day, in UTC; day 0 is a Sunday.  *)
(* One policy is followed among the others of the sweep, while the backend *)
(* restarts, runs take as long as they like, the user runs it by hand and  *)
(* switches it off and on.                                                 *)
(***************************************************************************)
EXTENDS Naturals

CONSTANTS
    Frequencies, \* allowedBackupFrequencies
    Weekday,     \* weekday, 0 (Sunday) to 6
    TimeOfDay,   \* time_of_day, an instant of the day
    DayLength,   \* instants in a day
    LastDay,     \* bound on the clock
    FirstDay     \* the days on which the policy may have been created

ASSUME ScheduleAssumption ==
    /\ Frequencies \subseteq {"daily", "weekly"} /\ Weekday \in 0..6
    /\ DayLength \in Nat /\ TimeOfDay \in 0..DayLength - 1
    /\ LastDay \in Nat /\ FirstDay \subseteq 0..LastDay

VARIABLES
    frequency, \* frequency of the policy, given once
    now,       \* the clock
    base,      \* last_run_at, or created_at before the first run
    enabled,   \* enabled
    up,        \* is the backend up?
    ticked,    \* has the minute ticker been heard at this instant?
    round,     \* sweepBackupPoliciesOnce: idle, listed (it read the list with
               \* this policy due and has yet to come to it), busy
    runs,      \* the runs of the policy under way
    swept,     \* history: end of the last recorded run of the sweep, or creation
    overtaken  \* history: a run by hand was recorded since the list was read

scheduleVars == <<frequency, now, base, enabled, up, ticked, round, runs, swept, overtaken>>

Time == [day : Nat, at : 0..DayLength - 1]

Before(t, u) == t.day < u.day \/ (t.day = u.day /\ t.at < u.at)

-----------------------------------------------------------------------------
(* nextScheduledRun *)

On(day) == [day |-> day, at |-> TimeOfDay]

\* Mutant: a time that is not before after will do.
NextScheduledRun_NotStrict(after) ==
    IF frequency = "daily"
    THEN IF Before(On(after.day), after) THEN On(after.day + 1) ELSE On(after.day)
    ELSE LET fits(i) == (after.day + i) % 7 = Weekday /\ ~Before(On(after.day + i), after)
             i == CHOOSE i \in 0..7 : fits(i) /\ \A j \in 0..7 : j < i => ~fits(j)
         IN  On(after.day + i)

\* Daily: today if the time is still to come, else tomorrow.  Weekly: the first
\* of today and the next seven days with the weekday and a time still to come.
NextScheduledRun(after) ==
    IF frequency = "daily"
    THEN IF Before(after, On(after.day)) THEN On(after.day) ELSE On(after.day + 1)
    ELSE LET fits(i) == (after.day + i) % 7 = Weekday /\ Before(after, On(after.day + i))
             i == CHOOSE i \in 0..7 : fits(i) /\ \A j \in 0..7 : j < i => ~fits(j)
         IN  On(after.day + i)

\* What is meant by a scheduled time.
Scheduled(t) == t.at = TimeOfDay /\ (frequency = "weekly" => t.day % 7 = Weekday)

\* n is the first scheduled time strictly after t.
IsNext(n, t) ==
    /\ Scheduled(n) /\ Before(t, n)
    /\ \A u \in Time : Scheduled(u) /\ Before(t, u) => ~Before(u, n)

-----------------------------------------------------------------------------
(* The policy over time *)

ScheduleInit ==
    /\ frequency \in Frequencies
    /\ now \in [day : FirstDay, at : 0..DayLength - 1] /\ base = now /\ swept = now
    /\ enabled = TRUE /\ up = TRUE /\ ticked = FALSE /\ round = "idle"
    /\ runs = {} /\ overtaken = FALSE

\* The clock stops on LastDay, the minute ticker does not; while a sweep is at
\* work its ticks are dropped.
ClockTicks ==
    /\ up => ticked \/ round # "idle"
    /\ now' = IF now.at + 1 < DayLength THEN [now EXCEPT !.at = @ + 1]
              ELSE IF now.day < LastDay THEN [day |-> now.day + 1, at |-> 0] ELSE now
    /\ ticked' = FALSE
    /\ UNCHANGED <<frequency, base, enabled, up, round, runs, swept, overtaken>>

Due == ~Before(now, NextScheduledRun(base))

\* A tick: one SELECT of the enabled policies, each of which is compared with the
\* clock.  If this one is not due, others may be.
ListDuePolicies ==
    /\ up /\ ~ticked /\ ticked' = TRUE /\ round = "idle"
    /\ IF enabled /\ Due THEN round' = "listed" ELSE round' \in {"idle", "busy"}
    /\ UNCHANGED <<frequency, now, base, enabled, up, runs, swept, overtaken>>

\* The SELECT fails: the tick is lost.
ListFails ==
    /\ up /\ ~ticked /\ ticked' = TRUE /\ round = "idle"
    /\ UNCHANGED <<frequency, now, base, enabled, up, round, runs, swept, overtaken>>

\* The turn of the policy comes, when those before it in the list have been run;
\* what became of it since the list was read is not looked at.
StartDueRun ==
    /\ round = "listed" /\ round' = "busy"
    /\ runs' = runs \cup {"sweep"} /\ overtaken' = FALSE
    /\ UNCHANGED <<frequency, now, base, enabled, up, ticked, swept>>

\* The policies behind it have been run too.
SweepEnds ==
    /\ round = "busy" /\ "sweep" \notin runs /\ round' = "idle"
    /\ UNCHANGED <<frequency, now, base, enabled, up, ticked, runs, swept, overtaken>>

RunBackupPolicyNow ==
    /\ up /\ "user" \notin runs /\ runs' = runs \cup {"user"}
    /\ UNCHANGED <<frequency, now, base, enabled, up, ticked, round, swept, overtaken>>

Recorded(r) ==
    /\ r \in runs /\ runs' = runs \ {r}
    /\ swept' = IF r = "sweep" THEN now ELSE swept
    /\ overtaken' = (overtaken \/ (r = "user" /\ round = "listed"))
    /\ UNCHANGED <<frequency, now, enabled, up, ticked, round>>

\* Mutant: a scheduled run does not move last_run_at.
RecordPolicyRun_UserOnly(r) == Recorded(r) /\ base' = IF r = "sweep" THEN base ELSE now

\* Mutant: last_run_at is rounded up, also at the end of the day.
RecordPolicyRun_RoundedUp(r) == Recorded(r) /\ base' = [now EXCEPT !.at = @ + 1]

\* recordPolicyRun: last_run_at is when the run ended, whatever its result.
RecordPolicyRun(r) == Recorded(r) /\ base' = now

\* The UPDATE fails, which is only logged: the policy stays due.
RunNotRecorded(r) ==
    /\ r \in runs /\ runs' = runs \ {r}
    /\ UNCHANGED <<frequency, now, base, enabled, up, ticked, round, swept, overtaken>>

SetBackupPolicyEnabled ==
    /\ up /\ enabled' = ~enabled
    /\ UNCHANGED <<frequency, now, base, up, ticked, round, runs, swept, overtaken>>

\* The backend stops: the list and the runs under way leave no trace.
Stop ==
    /\ up /\ up' = FALSE /\ runs' = {} /\ round' = "idle" /\ ticked' = FALSE /\ overtaken' = FALSE
    /\ UNCHANGED <<frequency, now, base, enabled, swept>>

Restart ==
    /\ ~up /\ up' = TRUE
    /\ UNCHANGED <<frequency, now, base, enabled, ticked, round, runs, swept, overtaken>>

ScheduleNext ==
    \/ ClockTicks \/ ListDuePolicies \/ ListFails \/ StartDueRun \/ SweepEnds \/ RunBackupPolicyNow
    \/ \E r \in {"sweep", "user"} : RecordPolicyRun(r) \/ RunNotRecorded(r)
    \/ SetBackupPolicyEnabled \/ Stop \/ Restart

\* Time passes, the sweep ticks, works through its list, and a stopped backend
\* comes back; neither the SELECT nor the UPDATE of a run fails for ever.
ScheduleFairness ==
    /\ WF_scheduleVars(ClockTicks) /\ WF_scheduleVars(Restart)
    /\ SF_scheduleVars(ListDuePolicies) /\ WF_scheduleVars(StartDueRun) /\ WF_scheduleVars(SweepEnds)
    /\ \A r \in {"sweep", "user"} : SF_scheduleVars(RecordPolicyRun(r))

ScheduleSpec == ScheduleInit /\ [][ScheduleNext]_scheduleVars
FairScheduleSpec == ScheduleSpec /\ ScheduleFairness

-----------------------------------------------------------------------------
ScheduleTypeOK ==
    /\ frequency \in Frequencies /\ now \in Time /\ base \in Time
    /\ enabled \in BOOLEAN /\ up \in BOOLEAN /\ ticked \in BOOLEAN
    /\ round \in {"idle", "listed", "busy"} /\ runs \subseteq {"sweep", "user"}
    /\ swept \in Time /\ overtaken \in BOOLEAN

\* From whatever time the policy last ran, nextScheduledRun yields the first
\* scheduled time strictly after it: no time is skipped and none comes twice.
NextRunIsNext == LET n == NextScheduledRun(base) IN
    /\ Scheduled(n) /\ Before(base, n)
    /\ \A u \in [day : base.day..n.day, at : {TimeOfDay}] :
          Scheduled(u) /\ Before(base, u) => ~Before(u, n)

ScheduleSound == ScheduleTypeOK /\ NextRunIsNext

\* A scheduled time lies after t and has come.
TurnSince(t) == \E d \in t.day..now.day : Scheduled(On(d)) /\ Before(t, On(d)) /\ ~Before(now, On(d))

\* The sweep starts a run only if a scheduled time has passed since the last run
\* it recorded, though it works from a list that may be hours old, the backend
\* restarts and the policy is switched off and on; and since the last run by hand
\* too, unless that was recorded after the list was read.
OneRunPerTime ==
    [][ "sweep" \in runs' \ runs =>
          TurnSince(swept) /\ (~overtaken => TurnSince(base)) ]_scheduleVars

\* When a scheduled time has passed since the last run, the policy runs (or is
\* switched off), also when the backend was down at that time, when the sweep is
\* busy with other policies, and when recording a run fails now and then.
MissedRunIsMadeUp == enabled /\ TurnSince(base) ~> ~TurnSince(base) \/ ~enabled \/ ~up
=============================================================================

------------------------------ MODULE CronJobs ------------------------------
(***************************************************************************)
(* Commands run in a container on a schedule (internal/infra/cron_jobs.go).*)
(*                                                                         *)
(* A sweep looks at the enabled jobs at every tick of a one-minute ticker  *)
(* and starts a goroutine for each job that is due; last_run_at is written *)
(* when the command ends.  A job names its container by id.                *)
(***************************************************************************)
EXTENDS Integers, FiniteSets

CONSTANTS
    Jobs,       \* ids of cron jobs
    Slots,      \* runs going on together
    Schedules,  \* [freq, every, day, at]: what jobs ask for
    Day, Week,  \* minutes of a day, days of a week
    End,        \* bound on the clock
    None, Budget

Frequencies == {"interval", "daily", "weekly"}

CronAssumption ==
    /\ {Day, Week, End} \subseteq Nat \ {0} /\ Budget \in Nat /\ None \notin Jobs
    /\ Schedules \subseteq [freq : Frequencies, every : Nat \ {0}, day : 0 .. Week - 1, at : 0 .. Day - 1]

VARIABLES
    now,        \* the minute, UTC
    ticks,      \* ticks the sweep handled in this minute
    cron,       \* cron_jobs: state, schedule, last_run_at, last_exit_code
    run,        \* runCronJob: the job it runs, by the sweep or by hand
    started,    \* history: the day of the sweep's last start of a job
    twice,      \* history: jobs started by the sweep on a day they had ended on
    seen,       \* history: the day a run of a job last started or ended on
    fresh,      \* history: jobs enabled in this minute, after its last tick
    unticked,   \* history: minutes that passed without a tick
    missed,     \* history: jobs enabled through their minute on a day without a run, and the minute
    working,    \* the containers of the jobs run
    active, rest, budget

cronVars == <<now, ticks, cron, run, started, twice, seen, fresh, unticked, missed>>
Never == -1
NoRun == [job |-> None, hand |-> FALSE]
Unset == [freq |-> "daily", every |-> 1, day |-> 0, at |-> 0]

CronTypeOK ==
    /\ now \in 0 .. End /\ ticks \in 0 .. 2
    /\ cron \in [Jobs -> [state : {"absent", "enabled", "disabled", "deleted"},
                          sched : Schedules \cup {Unset}, last : Never .. End, code : {0, -1}]]
    /\ run \in [Slots -> [job : Jobs \cup {None}, hand : BOOLEAN]]
    /\ started \in [Jobs -> Never .. End] /\ seen \in [Jobs -> Never .. End]
    /\ twice \subseteq Jobs /\ fresh \subseteq Jobs
    /\ unticked \subseteq 0 .. End /\ missed \subseteq [job : Jobs, at : 0 .. End]

-----------------------------------------------------------------------------
Charged == budget > 0 /\ budget' = budget - 1
Elsewhere == UNCHANGED <<rest, active, working>>
DayOf(t) == t \div Day
Minute(t) == t % Day

SameUTCDay(s, t) == s # Never /\ DayOf(s) = DayOf(t)

IsDueTimeOfDay(s, t) ==
    /\ s.freq \in {"daily", "weekly"} /\ Minute(t) = s.at
    /\ s.freq = "weekly" => DayOf(t) % Week = s.day

\* Mutant: a full day has to lie between two runs.
IsCronJobDue_After24h(j, t) ==
    LET c == cron[j] IN
    /\ c.state = "enabled"
    /\ IF c.sched.freq = "interval" THEN c.last = Never \/ t - c.last >= c.sched.every
       ELSE IsDueTimeOfDay(c.sched, t) /\ (c.last = Never \/ t - c.last >= Day)

\* Mutant: last_run_at is not looked at for a time of day.
IsCronJobDue_EveryTick(j, t) ==
    LET c == cron[j] IN
    /\ c.state = "enabled"
    /\ IF c.sched.freq = "interval" THEN c.last = Never \/ t - c.last >= c.sched.every
       ELSE IsDueTimeOfDay(c.sched, t)

IsCronJobDue(j, t) ==
    LET c == cron[j] IN
    /\ c.state = "enabled"
    /\ IF c.sched.freq = "interval" THEN c.last = Never \/ t - c.last >= c.sched.every
       ELSE IsDueTimeOfDay(c.sched, t) /\ ~SameUTCDay(c.last, t)

Running(j) == \E s \in Slots : run[s].job = j
Due == {j \in Jobs : IsCronJobDue(j, now)}
\* Enough slots for one more run of each due job
Room == Cardinality({s \in Slots : run[s].job = None}) >= Cardinality(Due)

\* One tick: a goroutine for every job that is due, running or not.
SweepTick ==
    /\ active /\ Room
    /\ ticks' = ticks + 1
    /\ IF ticks = 0 THEN UNCHANGED budget ELSE ticks < 2 /\ Charged
    /\ \E f \in [Due -> {s \in Slots : run[s].job = None}] :
         /\ \A i, j \in Due : f[i] = f[j] => i = j
         /\ run' = [s \in Slots |-> IF \E j \in Due : f[j] = s
                                    THEN [job |-> CHOOSE j \in Due : f[j] = s, hand |-> FALSE] ELSE run[s]]
    /\ started' = [j \in Jobs |-> IF j \in Due THEN DayOf(now) ELSE started[j]]
    /\ twice' = twice \cup {j \in Due : cron[j].sched.freq # "interval"
                                          /\ started[j] = DayOf(now) /\ ~Running(j)}
    /\ seen' = [j \in Jobs |-> IF j \in Due THEN DayOf(now) ELSE seen[j]]
    /\ fresh' = {}
    /\ UNCHANGED <<now, cron, unticked, missed>> /\ Elsewhere

\* Jobs whose minute this is, enabled since before its last tick, and that have
\* no run to show for the day
Overlooked ==
    {j \in Jobs \ fresh : /\ cron[j].state = "enabled" /\ IsDueTimeOfDay(cron[j].sched, now)
                         /\ seen[j] # DayOf(now)}

\* A minute without a tick costs: the sweep waits for the database, or the
\* backend is down.  Nothing makes up for it in a later minute.
MinutePasses ==
    /\ active /\ now < End /\ now' = now + 1 /\ ticks' = 0
    /\ IF ticks = 0 THEN Charged /\ unticked' = unticked \cup {now} ELSE UNCHANGED <<budget, unticked>>
    /\ missed' = missed \cup {[job |-> j, at |-> now] : j \in Overlooked} /\ fresh' = {}
    /\ UNCHANGED <<cron, run, started, twice, seen>> /\ Elsewhere

CreateCronJob(j, s) ==
    /\ active /\ cron[j].state = "absent" /\ Charged
    /\ cron' = [cron EXCEPT ![j].state = "enabled", ![j].sched = s] /\ fresh' = fresh \cup {j}
    /\ UNCHANGED <<now, ticks, run, started, twice, seen, unticked, missed>> /\ Elsewhere

SetCronJobEnabled(j) ==
    /\ active /\ cron[j].state \in {"enabled", "disabled"} /\ Charged
    /\ cron' = [cron EXCEPT ![j].state = IF @ = "enabled" THEN "disabled" ELSE "enabled"]
    /\ fresh' = fresh \cup {j}
    /\ UNCHANGED <<now, ticks, run, started, twice, seen, unticked, missed>> /\ Elsewhere

DeleteCronJob(j) ==
    /\ active /\ cron[j].state \in {"enabled", "disabled"} /\ Charged
    /\ cron' = [cron EXCEPT ![j].state = "deleted"]
    /\ UNCHANGED <<now, ticks, run, started, twice, seen, fresh, unticked, missed>> /\ Elsewhere

RunCronJobNow(s, j) ==
    /\ active /\ cron[j].state \in {"enabled", "disabled"} /\ run[s].job = None /\ Charged
    /\ run' = [run EXCEPT ![s] = [job |-> j, hand |-> TRUE]]
    /\ seen' = [seen EXCEPT ![j] = DayOf(now)]
    /\ UNCHANGED <<now, ticks, cron, started, twice, fresh, unticked, missed>> /\ Elsewhere

\* runCronJob, once ExecRun returns: an exec that fails, as in a container that
\* is gone or does not run, counts as a run too.
RunEnds(s, ok) ==
    LET j == run[s].job IN
    /\ j # None /\ (ok => working)
    /\ IF working /\ ~ok THEN Charged ELSE UNCHANGED budget
    /\ run' = [run EXCEPT ![s] = NoRun]
    /\ cron' = IF cron[j].state \in {"enabled", "disabled"}
               THEN [cron EXCEPT ![j].last = now, ![j].code = IF ok THEN 0 ELSE -1] ELSE cron
    /\ seen' = [seen EXCEPT ![j] = DayOf(now)]
    /\ UNCHANGED <<now, ticks, started, twice, fresh, unticked, missed>> /\ Elsewhere

\* The UPDATE fails, or the client of a run by hand is gone.
RunUnrecorded(s) ==
    LET j == run[s].job IN
    /\ j # None /\ Charged
    /\ run' = [run EXCEPT ![s] = NoRun]
    /\ started' = [started EXCEPT ![j] = Never] /\ seen' = [seen EXCEPT ![j] = DayOf(now)]
    /\ UNCHANGED <<now, ticks, cron, twice, fresh, unticked, missed>> /\ Elsewhere

\* The backend dies; the commands in the containers are nobody's.
CronDropped ==
    /\ run' = [s \in Slots |-> NoRun]
    /\ started' = [j \in Jobs |-> IF Running(j) THEN Never ELSE started[j]]
    /\ UNCHANGED <<now, ticks, cron, twice, seen, fresh, unticked, missed>>

CronInit ==
    /\ now = 0 /\ ticks = 0
    /\ cron = [j \in Jobs |-> [state |-> "absent", sched |-> Unset, last |-> Never, code |-> 0]]
    /\ run = [s \in Slots |-> NoRun]
    /\ started = [j \in Jobs |-> Never] /\ seen = started
    /\ twice = {} /\ fresh = {} /\ unticked = {} /\ missed = {}

-----------------------------------------------------------------------------
(* What has to hold *)

\* The sweep starts a daily or weekly job once on its day, however often it
\* ticks in that minute and whatever is run by hand, unless the first run is
\* still going on or its end could not be written.
OnceADay == twice = {}

\* A daily or weekly job that is enabled through the minute of its time of day
\* has a run that day, by the sweep, by hand or of the day before that ended
\* late, unless no tick fell into that minute: then the day is lost, as the
\* minute has to be exact (cron_jobs.go:187) and nothing catches up.
NoDayPassedOver == \A m \in missed : m.at \in unticked
=============================================================================

---------------------------- MODULE MetricHistory ----------------------------
(***************************************************************************)
(* The metrics of the platform and of its servers                          *)
(* (internal/server/history.go, platform_history.go, metric_persistence.go,*)
(* metric_rollup.go, metric_query.go and migration 0019).                  *)
(*                                                                         *)
(* Collectors put each sample in a ring in memory and in metric_history;   *)
(* a job turns raw rows older than a day into one row per hour.  A row     *)
(* "hourly" keeps avg, min and max: it is modelled by the set of samples   *)
(* they were computed from.                                                *)
(***************************************************************************)
EXTENDS Integers, Sequences, FiniteSets

CONSTANTS
    Servers,      \* ids of servers
    Platform,     \* the series of the whole platform
    Values,       \* what a sample may measure
    Hour,         \* ticks of the clock in an hour
    RawWindow,    \* rawRetentionWindow, whole hours
    HourlyWindow, \* hourlyRetentionWindow
    MaxLen,       \* points a ring keeps
    MaxLag,       \* ticks a collector needs at most for one pass
    End,          \* bound on the clock
    Events        \* bound on samples, deletions and crashes

Series == Servers \cup {Platform}

ASSUME MetricAssumption ==
    /\ Platform \notin Servers
    /\ Values \subseteq Nat
    /\ {Hour, RawWindow, HourlyWindow, MaxLen, End} \subseteq Nat \ {0}
    /\ {MaxLag, Events} \subseteq Nat
    /\ RawWindow % Hour = 0 /\ MaxLag < RawWindow /\ RawWindow < HourlyWindow

VARIABLES
    now,      \* time.Now()
    running,  \* servers with a row
    pass,     \* collectMetricsOnce: servers still to sample, and its timestamp
    ring,     \* HistoryCollector.points, platformHistory.points
    raw,      \* rows "raw" of each series
    hourly,   \* rows "hourly" of each series: hour -> what it was computed from
    job,      \* the transaction of the rollup: next statement, cutoffs, work so far
    recorded, \* history: the samples ever stored, of servers that still exist
    events

historyVars == <<now, running, pass, ring, raw, hourly, job, recorded, events>>

Times == 0 .. End
Sample == [at : Times, val : Values]
Hours == 0 .. (End \div Hour)                 \* date_trunc('hour', bucket_start)
HourOf(x) == x.at \div Hour
Peak(S) == CHOOSE v \in {x.val : x \in S} : \A x \in S : x.val <= v

NoPass == [todo |-> {}, at |-> 0]
Nothing == [x \in Series |-> {}]
NoJob == [pc |-> "idle", cutoff |-> 0, hourlyCutoff |-> 0,
          summed |-> Nothing, swept |-> Nothing]

HistoryTypeOK ==
    /\ now \in Times /\ events \in Nat
    /\ running \subseteq Servers
    /\ pass \in [todo : SUBSET Servers, at : Times]
    /\ \A x \in Series : ring[x] \in Seq(Sample) /\ Len(ring[x]) <= MaxLen
    /\ raw \in [Series -> SUBSET Sample] /\ recorded \in [Series -> SUBSET Sample]
    /\ hourly \in [Series -> [Hours -> SUBSET Sample]]
    /\ job \in [pc : {"idle", "server", "raw", "hourly"}, cutoff : Int, hourlyCutoff : Int,
                summed : [Series -> SUBSET Sample], swept : [Series -> SUBSET Sample]]

-----------------------------------------------------------------------------
(* The collectors *)

\* Mutant: a full ring refuses the new point instead of dropping the oldest.
AppendPoint_KeepsOldest(x, p) ==
    [ring EXCEPT ![x] = IF Len(@) < MaxLen THEN Append(@, p) ELSE @]

\* Mutant: the ring is never cut.
AppendPoint_Unbounded(x, p) == [ring EXCEPT ![x] = Append(@, p)]

\* append: the newest MaxLen points
AppendPoint(x, p) ==
    LET pts == Append(ring[x], p)
    IN  [ring EXCEPT ![x] = IF Len(pts) > MaxLen THEN Tail(pts) ELSE pts]

\* Mutant: metric_history.server_id without its foreign key.
Record_NoForeignKey(x, p) ==
    /\ raw' = [raw EXCEPT ![x] = IF \E q \in @ : q.at = p.at THEN @ ELSE @ \cup {p}]
    /\ recorded' = [recorded EXCEPT ![x] = @ \cup (raw'[x] \ raw[x])]

\* recordServerMetricRaw / recordPlatformMetricRaw: best effort, ON CONFLICT DO NOTHING,
\* and the foreign key refuses the sample of a server that is gone.
Record(x, p) ==
    \/ /\ x \in running \cup {Platform}
       /\ raw' = [raw EXCEPT ![x] = IF \E q \in @ : q.at = p.at THEN @ ELSE @ \cup {p}]
       /\ recorded' = [recorded EXCEPT ![x] = @ \cup (raw'[x] \ raw[x])]
    \/ UNCHANGED <<raw, recorded>>

CollectorTick ==
    /\ pass.todo = {} /\ running # {}
    /\ pass' = [todo |-> running, at |-> now]
    /\ UNCHANGED <<now, running, ring, raw, hourly, job, recorded, events>>

\* One server of the list the pass read: its container may not answer (continue).
CollectServer(s) ==
    /\ s \in pass.todo
    /\ pass' = IF pass.todo = {s} THEN NoPass ELSE [pass EXCEPT !.todo = @ \ {s}]
    /\ \/ /\ events > 0 /\ events' = events - 1
          /\ \E v \in Values : LET p == [at |-> pass.at, val |-> v] IN
               ring' = AppendPoint(s, p) /\ Record(s, p)
       \/ UNCHANGED <<ring, raw, recorded, events>>
    /\ UNCHANGED <<now, running, hourly, job>>

CollectPlatform ==
    /\ events > 0 /\ events' = events - 1
    /\ \E v \in Values : LET p == [at |-> now, val |-> v] IN
         ring' = AppendPoint(Platform, p) /\ Record(Platform, p)
    /\ UNCHANGED <<now, running, pass, hourly, job>>

-----------------------------------------------------------------------------
(* The rollup: one transaction, statement by statement *)

\* Mutant: bucket_start <= $1.
Old_Inclusive(x, cutoff) == {p \in raw[x] : p.at <= cutoff}

\* What INSERT ... SELECT and DELETE select by bucket_start < $1.
Old(x, cutoff) == {p \in raw[x] : p.at < cutoff}

\* Both cutoffs are taken before the first statement, which sums up the platform.
RollupBegin ==
    LET cutoff == now - RawWindow IN
    /\ job.pc = "idle"
    /\ job' = [pc |-> "server", cutoff |-> cutoff, hourlyCutoff |-> now - HourlyWindow,
               summed |-> [Nothing EXCEPT ![Platform] = Old(Platform, cutoff)],
               swept |-> Nothing]
    /\ UNCHANGED <<now, running, pass, ring, raw, hourly, recorded, events>>

SumServers ==
    /\ job.pc = "server"
    /\ job' = [job EXCEPT !.pc = "raw",
                 !.summed = [x \in Series |-> IF x = Platform THEN @[x] ELSE Old(x, job.cutoff)]]
    /\ UNCHANGED <<now, running, pass, ring, raw, hourly, recorded, events>>

\* Mutant: the raw rows go by the cutoff of the hourly ones.
DeleteRaw_HourlyCutoff ==
    /\ job.pc = "raw"
    /\ job' = [job EXCEPT !.pc = "hourly", !.swept = [x \in Series |-> Old(x, job.hourlyCutoff)]]
    /\ UNCHANGED <<now, running, pass, ring, raw, hourly, recorded, events>>

DeleteRaw ==
    /\ job.pc = "raw"
    /\ job' = [job EXCEPT !.pc = "hourly", !.swept = [x \in Series |-> Old(x, job.cutoff)]]
    /\ UNCHANGED <<now, running, pass, ring, raw, hourly, recorded, events>>

\* Mutant: ON CONFLICT DO NOTHING.
Summarised_KeepsFirst(x, h) ==
    IF hourly[x][h] # {} THEN hourly[x][h] ELSE {p \in job.summed[x] : HourOf(p) = h}

\* ON CONFLICT DO UPDATE: what was summed for an hour replaces that hour's row.
Summarised(x, h) ==
    LET fresh == {p \in job.summed[x] : HourOf(p) = h}
    IN  IF fresh # {} THEN fresh ELSE hourly[x][h]

\* Mutant: no retention of the hourly rows.
DeleteHourly_NoRetention ==
    /\ job.pc = "hourly"
    /\ raw' = [x \in Series |-> raw[x] \ job.swept[x]]
    /\ hourly' = [x \in Series |-> [h \in Hours |-> Summarised(x, h)]]
    /\ job' = NoJob
    /\ UNCHANGED <<now, running, pass, ring, recorded, events>>

\* The last DELETE and the COMMIT.
DeleteHourly ==
    /\ job.pc = "hourly"
    /\ raw' = [x \in Series |-> raw[x] \ job.swept[x]]
    /\ hourly' = [x \in Series |-> [h \in Hours |->
                    IF h * Hour < job.hourlyCutoff THEN {} ELSE Summarised(x, h)]]
    /\ job' = NoJob
    /\ UNCHANGED <<now, running, pass, ring, recorded, events>>

\* defer tx.Rollback: any statement may fail, and the next tick starts over.
Rollback ==
    /\ job.pc # "idle" /\ events > 0
    /\ events' = events - 1 /\ job' = NoJob
    /\ UNCHANGED <<now, running, pass, ring, raw, hourly, recorded>>

-----------------------------------------------------------------------------
(* What happens around them *)

\* The rows the transaction wrote, or the server's row its foreign key locks, make
\* the deletion of the server wait for it.
Locked(s) == job.summed[s] # {} \/ job.swept[s] # {}

\* Service.Delete: history.forget, then the row and (ON DELETE CASCADE) its metrics;
\* the second may fail.
DeleteServer(s) ==
    /\ s \in running /\ events > 0 /\ events' = events - 1
    /\ ring' = [ring EXCEPT ![s] = <<>>]
    /\ \/ /\ ~Locked(s)
          /\ running' = running \ {s}
          /\ raw' = [raw EXCEPT ![s] = {}] /\ recorded' = [recorded EXCEPT ![s] = {}]
          /\ hourly' = [hourly EXCEPT ![s] = [h \in Hours |-> {}]]
       \/ UNCHANGED <<running, raw, recorded, hourly>>
    /\ UNCHANGED <<now, pass, job>>

\* The backend dies and is started again: the rings and the open transaction are gone.
Restart ==
    /\ events > 0 /\ events' = events - 1
    /\ ring' = [x \in Series |-> <<>>] /\ pass' = NoPass /\ job' = NoJob
    /\ UNCHANGED <<now, running, raw, hourly, recorded>>

Tick ==
    /\ now < End /\ now' = now + 1
    /\ pass.todo # {} => now - pass.at < MaxLag
    /\ UNCHANGED <<running, pass, ring, raw, hourly, job, recorded, events>>

HistoryInit ==
    /\ now = 0 /\ running = Servers /\ pass = NoPass
    /\ ring = [x \in Series |-> <<>>]
    /\ raw = Nothing /\ recorded = Nothing
    /\ hourly = [x \in Series |-> [h \in Hours |-> {}]]
    /\ job = NoJob /\ events = Events

Rollup == RollupBegin \/ SumServers \/ DeleteRaw \/ DeleteHourly

HistoryNext ==
    \/ CollectorTick \/ CollectPlatform \/ \E s \in Servers : CollectServer(s)
    \/ Rollup \/ Rollback \/ Restart \/ Tick
    \/ \E s \in Servers : DeleteServer(s)

\* RunMetricRollup runs at boot and every rollupInterval, and PostgreSQL answers.
HistorySpec == HistoryInit /\ [][HistoryNext]_historyVars /\ WF_historyVars(Rollup)

-----------------------------------------------------------------------------
(* What has to hold *)

\* The points a query since a given time answers, raw and hourly together
\* (getServerMetricHistoryDB, getPlatformMetricHistoryDB).
Answer(x, since) ==
    {<<"raw", {p}>> : p \in {q \in raw[x] : q.at >= since}}
        \cup {<<"hourly", hourly[x][h]>> : h \in {g \in Hours : hourly[x][g] # {} /\ g * Hour >= since}}

\* metric_query.go mixes both resolutions in one answer: no sample may weigh on two
\* points of it, whatever failed or crashed between the statements of a rollup, and
\* the point of an hour describes that hour only.
CountedOnce ==
    /\ \A x \in Series : \A a, b \in Answer(x, 0) : a # b => a[2] \cap b[2] = {}
    /\ \A x \in Series : \A h \in Hours : \A p \in hourly[x][h] : HourOf(p) = h

\* Samples of the last day are there one by one: a rollup never takes one too young.
LastDayIsRaw ==
    \A x \in Series : \A p \in recorded[x] : p.at >= now - RawWindow => p \in raw[x]

\* For as long as hours are kept, an hour that was sampled never vanishes: its last
\* sample is raw, or in the row of the hour.
SampledHoursStay ==
    \A x \in Series : \A p \in recorded[x] :
      \/ p \in raw[x] \/ p \in hourly[x][HourOf(p)]
      \/ \E q \in recorded[x] : HourOf(q) = HourOf(p) /\ q.at > p.at
      \/ HourOf(p) * Hour < now - HourlyWindow

\* A deleted server leaves no metric behind and none comes back: not from the
\* collector that still has it in its list, nor from a rollup under way.
GoneStaysGone ==
    \A s \in Servers \ running : raw[s] = {} /\ \A h \in Hours : hourly[s][h] = {}

\* The graph of the last hour is the ring: what was stored after the oldest point of
\* a ring is in the ring.
RingHoldsTheNewest ==
    \A x \in Series : ring[x] # <<>> =>
      \A p \in recorded[x] : p.at > ring[x][1].at => \E i \in DOMAIN ring[x] : ring[x][i] = p

\* The job keeps the table small: raw rows older than a day always go in the end,
\* and so do hourly rows out of their window, however many rollups failed before.
OldRowsGo ==
    <>[](\A x \in Series :
           /\ \A p \in raw[x] : p.at >= now - RawWindow
           /\ \A h \in Hours : hourly[x][h] # {} => h * Hour >= now - HourlyWindow)

\* Migration 0019: min and max of an hour show that the day had a peak after its raw
\* rows are gone.
HourKeepsPeak ==
    \A x \in Series : \A h \in Hours :
      LET sampled == {p \in recorded[x] : HourOf(p) = h} IN
      hourly[x][h] # {} /\ sampled \cap raw[x] = {} => Peak(hourly[x][h]) = Peak(sampled)

\* Every sample is in the history once, at the grain of its age, until its server
\* goes, and the page of a server ends with its newest ones.
SamplesKept ==
    HistoryTypeOK /\ CountedOnce /\ LastDayIsRaw /\ SampledHoursStay /\ GoneStaysGone /\ RingHoldsTheNewest

=============================================================================

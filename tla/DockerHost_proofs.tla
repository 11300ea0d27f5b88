--------------------------- MODULE DockerHost_proofs ---------------------------
(***************************************************************************)
(* The parts of the one process that work on the Docker host: the cron     *)
(* jobs, the backups of volumes and the stacks of docker compose.          *)
(***************************************************************************)
EXTENDS Operations_proofs, HostPages_proofs, FiniteSetTheorems

-----------------------------------------------------------------------------
(* The cron jobs *)

Entries == [state : {"absent", "enabled", "disabled", "deleted"}, sched : Schedules \cup {C!Unset},
            last : C!Never .. End, code : {0, -1}]

Listed(j) == cron[j].state \in {"enabled", "disabled"}

\* A job the sweep started has ended since, on that day or later, unless it
\* runs; the day it last ran is one it was seen on; and once its minute is
\* ticked, it was seen that day.
DaysInv ==
    /\ C!CronTypeOK
    /\ \A j \in Jobs :
         /\ cron[j].state = "absent" => started[j] = C!Never /\ ~C!Running(j)
         /\ started[j] <= C!DayOf(now) /\ seen[j] <= C!DayOf(now) /\ cron[j].last <= now
         /\ started[j] # C!Never /\ Listed(j) /\ ~C!Running(j) =>
              cron[j].last # C!Never /\ started[j] <= C!DayOf(cron[j].last)
         /\ cron[j].last # C!Never => C!DayOf(cron[j].last) <= seen[j]
    /\ ticks # 0 => C!Overlooked = {}
    /\ C!OnceADay /\ C!NoDayPassedOver

LEMMA CronConstants == Day \in Nat \ {0} /\ End \in Nat \ {0} /\ None \notin Jobs
BY OperationsAssumption DEF C!CronAssumption

\* The days follow the minutes.
LEMMA DaysInOrder ==
    ASSUME NEW s \in Nat, NEW t \in Nat, s <= t
    PROVE  C!DayOf(s) \in 0 .. s /\ C!DayOf(s) <= C!DayOf(t)
<1> DEFINE p == s \div Day
           q == t \div Day
<1>1. p \in Nat /\ q \in Nat /\ Day \in Nat /\ Day > 0
  BY CronConstants
<1>2. Day * p <= s /\ t < Day * (q + 1)
  BY CronConstants, SMTT(30)
<1>3. p <= s
  BY <1>1, <1>2, SMTT(30)
<1>4. p <= q
  <2>1. SUFFICES ASSUME p >= q + 1 PROVE FALSE
    BY <1>1
  <2>2. Day * (q + 1) <= Day * p
    BY <1>1, <2>1, SMTT(30)
  <2> HIDE DEF p, q
  <2> QED  BY <1>1, <1>2, <2>2, SMTT(30)
<1> QED  BY <1>1, <1>3, <1>4 DEF C!DayOf

LEMMA Today ==
    ASSUME DaysInv
    PROVE  /\ now \in Nat /\ now <= End /\ End \in Nat
           /\ C!DayOf(now) \in 0 .. End /\ C!DayOf(now) <= C!DayOf(now)
<1>1. now \in Nat /\ now <= End /\ End \in Nat
  BY CronConstants DEF DaysInv, C!CronTypeOK
<1> QED
  BY <1>1, DaysInOrder

LEMMA DaysInitially == Init => DaysInv
<1> SUFFICES ASSUME C!CronInit PROVE DaysInv
  BY DEF Init
<1>1. C!DayOf(0) = 0
  BY CronConstants, DaysInOrder
<1>2. C!CronTypeOK
  BY CronConstants DEF C!CronInit, C!CronTypeOK, C!NoRun, C!Never
<1> QED
  BY <1>1, <1>2, CronConstants
  DEF DaysInv, C!CronInit, C!Never, C!OnceADay, C!NoDayPassedOver, C!Running, C!NoRun, Listed

\* A tick: what is due runs from now on, and is seen today.
LEMMA TickStep == DaysInv /\ C!SweepTick => DaysInv'
<1> SUFFICES ASSUME DaysInv, C!SweepTick PROVE DaysInv'
  OBVIOUS
<1> USE DEF DaysInv
<1>1. now \in Nat /\ now <= End /\ End \in Nat /\ C!DayOf(now) \in 0 .. End /\ now' = now /\ cron' = cron
  BY Today DEF C!SweepTick
<1>2. PICK f \in [C!Due -> {s \in Slots : run[s].job = None}] :
        run' = [s \in Slots |-> IF \E j \in C!Due : f[j] = s
                                THEN [job |-> CHOOSE j \in C!Due : f[j] = s, hand |-> FALSE] ELSE run[s]]
        /\ \A i, j \in C!Due : f[i] = f[j] => i = j
  BY DEF C!SweepTick
<1>3. \A j \in Jobs : (C!Running(j) \/ j \in C!Due) => C!Running(j)'
  <2>1. ASSUME NEW j \in C!Due PROVE C!Running(j)'
    <3>1. f[j] \in Slots /\ run'[f[j]].job = CHOOSE i \in C!Due : f[i] = f[j]
      BY <1>2
    <3>2. (CHOOSE i \in C!Due : f[i] = f[j]) = j
      BY <1>2
    <3> QED  BY <3>1, <3>2 DEF C!Running
  <2>2. ASSUME NEW j \in Jobs, C!Running(j) PROVE C!Running(j)'
    <3>1. PICK s \in Slots : run[s].job = j
      BY <2>2 DEF C!Running
    <3>2. run'[s] = run[s]
      BY <1>2, <3>1, CronConstants
    <3> QED  BY <3>1, <3>2 DEF C!Running
  <2> QED  BY <2>1, <2>2
<1>4. C!Due \subseteq {j \in Jobs : cron[j].state = "enabled"}
  BY DEF C!Due, C!IsCronJobDue
<1>5. ASSUME NEW j \in Jobs, cron[j].state = "absent" PROVE ~C!Running(j)'
  BY <1>2, <1>4, <1>5, CronConstants DEF C!Running
<1>6. ASSUME NEW j \in C!Due, cron[j].sched.freq # "interval", started[j] = C!DayOf(now), ~C!Running(j)
      PROVE  FALSE
  <2>1. j \in Jobs /\ Listed(j) /\ ~C!SameUTCDay(cron[j].last, now)
    BY <1>4, <1>6 DEF Listed, C!Due, C!IsCronJobDue
  <2>2. cron[j].last # C!Never /\ C!DayOf(now) <= C!DayOf(cron[j].last) /\ cron[j].last <= now
    BY <1>1, <1>6, <2>1 DEF C!Never
  <2>3. cron[j].last \in Nat
    BY <2>1, <2>2, CronConstants DEF C!CronTypeOK, C!Never
  <2>4. C!DayOf(cron[j].last) \in Nat /\ C!DayOf(cron[j].last) <= C!DayOf(now)
    BY <1>1, <2>2, <2>3, DaysInOrder
  <2> QED  BY <1>1, <2>1, <2>2, <2>4 DEF C!SameUTCDay
<1>7. ASSUME NEW j \in Jobs \ C!Due, cron[j].state = "enabled", C!IsDueTimeOfDay(cron[j].sched, now),
             seen[j] # C!DayOf(now)
      PROVE  FALSE
  <2>1. C!SameUTCDay(cron[j].last, now)
    BY <1>7 DEF C!Due, C!IsCronJobDue, C!IsDueTimeOfDay
  <2>2. seen[j] \in Int /\ cron[j].last # C!Never
    BY <2>1, <1>7, CronConstants DEF C!SameUTCDay, C!CronTypeOK, C!Never
  <2> QED  BY <1>1, <1>7, <2>1, <2>2 DEF C!SameUTCDay
<1>8. twice' = {} /\ missed' = missed /\ unticked' = unticked /\ fresh' = {}
  BY <1>6 DEF C!SweepTick, C!OnceADay
<1>9. C!CronTypeOK'
  <2>1. run' \in [Slots -> [job : Jobs \cup {None}, hand : BOOLEAN]]
    BY <1>2, <1>4 DEF C!CronTypeOK
  <2>2. ticks' \in 0 .. 2
    BY DEF C!SweepTick, C!CronTypeOK
  <2>3. started' \in [Jobs -> C!Never .. End] /\ seen' \in [Jobs -> C!Never .. End]
    BY <1>1 DEF C!SweepTick, C!CronTypeOK, C!Never
  <2> QED  BY <1>1, <1>8, <2>1, <2>2, <2>3 DEF C!CronTypeOK
<1>12. C!Overlooked' = {}
  <2> SUFFICES ASSUME NEW j \in C!Overlooked' PROVE FALSE
    OBVIOUS
  <2>1. /\ j \in Jobs /\ cron[j].state = "enabled" /\ C!IsDueTimeOfDay(cron[j].sched, now)
        /\ seen'[j] # C!DayOf(now)
    BY <1>1 DEF C!Overlooked, C!IsDueTimeOfDay, C!Minute, C!DayOf
  <2>2. seen'[j] = IF j \in C!Due THEN C!DayOf(now) ELSE seen[j]
    BY <2>1 DEF C!SweepTick
  <2> QED  BY <1>7, <2>1, <2>2
<1>10. \A j \in Jobs :
         IF j \in C!Due THEN started'[j] = C!DayOf(now) /\ seen'[j] = C!DayOf(now)
         ELSE started'[j] = started[j] /\ seen'[j] = seen[j]
  BY DEF C!SweepTick
<1>11. ASSUME NEW j \in Jobs, cron[j].last # C!Never PROVE C!DayOf(cron[j].last) <= seen'[j]
  <2>1. cron[j].last \in 0 .. now
    BY <1>1, <1>11 DEF C!CronTypeOK, C!Never
  <2> QED  BY <1>1, <1>10, <1>11, <2>1, DaysInOrder
<1> QED
  BY <1>1, <1>3, <1>4, <1>5, <1>8, <1>9, <1>10, <1>11, <1>12
  DEF Listed, C!OnceADay, C!NoDayPassedOver, C!CronTypeOK

LEMMA MinuteStep == DaysInv /\ C!MinutePasses => DaysInv'
<1> SUFFICES ASSUME DaysInv, C!MinutePasses PROVE DaysInv'
  OBVIOUS
<1> USE DEF DaysInv
<1>1. /\ now \in Nat /\ now' = now + 1 /\ now' <= End /\ ticks' = 0
      /\ UNCHANGED <<cron, run, started, twice, seen>> /\ fresh' = {}
  BY Today DEF C!MinutePasses
<1>2. C!DayOf(now) \in Nat /\ C!DayOf(now + 1) \in Nat /\ C!DayOf(now) <= C!DayOf(now + 1)
  BY <1>1, DaysInOrder
<1>3. /\ unticked' = (IF ticks = 0 THEN unticked \cup {now} ELSE unticked)
      /\ missed' = missed \cup {[job |-> j, at |-> now] : j \in C!Overlooked}
  BY DEF C!MinutePasses
<1>4. C!CronTypeOK'
  <2>1. C!Overlooked \subseteq Jobs /\ now \in 0 .. End
    BY DEF C!Overlooked, C!CronTypeOK
  <2>2. unticked' \subseteq 0 .. End
    BY <1>3, <2>1 DEF C!CronTypeOK
  <2>3. missed' \subseteq [job : Jobs, at : 0 .. End]
    BY <1>3, <2>1 DEF C!CronTypeOK
  <2> QED  BY <1>1, <2>2, <2>3 DEF C!CronTypeOK
<1>5. C!NoDayPassedOver'
  <2> SUFFICES ASSUME NEW m \in missed' PROVE m.at \in unticked'
    BY DEF C!NoDayPassedOver
  <2>1. CASE m \in missed
    BY <1>3, <2>1 DEF C!NoDayPassedOver
  <2>2. CASE m \notin missed
    <3>1. m.at = now /\ C!Overlooked # {}
      BY <1>3, <2>2
    <3> QED  BY <1>3, <3>1
  <2> QED  BY <2>1, <2>2
<1> QED
  BY <1>1, <1>2, <1>4, <1>5 DEF C!CronTypeOK, C!Never, C!Running, Listed, C!OnceADay

\* What is done to the table of jobs does not touch its last run.
LEMMA TableStep ==
    ASSUME DaysInv, NEW j \in Jobs,
           \/ \E s \in Schedules : C!CreateCronJob(j, s)
           \/ C!SetCronJobEnabled(j)
           \/ C!DeleteCronJob(j)
    PROVE  DaysInv'
<1> USE DEF DaysInv
<1>1. /\ UNCHANGED <<now, ticks, run, started, twice, seen, unticked, missed>>
      /\ fresh \subseteq fresh' /\ fresh' \subseteq Jobs
      /\ j \in fresh' \/ cron'[j].state # "enabled"
      /\ cron' \in [Jobs -> Entries]
      /\ \A i \in Jobs : cron'[i].last = cron[i].last /\ (i # j => cron'[i] = cron[i])
      /\ cron[j].state = "absent" \/ Listed(j)
      /\ cron'[j].state # "absent"
  <2>1. CASE \E s \in Schedules : C!CreateCronJob(j, s)
    <3>1. PICK s \in Schedules : cron' = [cron EXCEPT ![j].state = "enabled", ![j].sched = s]
      BY <2>1 DEF C!CreateCronJob
    <3> DEFINE w == [cron[j] EXCEPT !.state = "enabled", !.sched = s]
    <3>2. /\ w \in Entries
          /\ w.state = "enabled" /\ w.last = cron[j].last
      BY ZenonT(40) DEF Entries, C!CronTypeOK
    <3>3. cron' = [cron EXCEPT ![j] = w]
      BY <3>1 DEF Entries, C!CronTypeOK
    <3> HIDE DEF w
    <3> QED  BY <2>1, <3>2, <3>3 DEF C!CreateCronJob, Entries, C!CronTypeOK
  <2>2. CASE C!SetCronJobEnabled(j)
    BY <2>2, SMTT(40) DEF C!SetCronJobEnabled, Entries, C!CronTypeOK, Listed
  <2>3. CASE C!DeleteCronJob(j)
    BY <2>3, SMTT(40) DEF C!DeleteCronJob, Entries, C!CronTypeOK, Listed
  <2> QED  BY <2>1, <2>2, <2>3
<1>2. C!CronTypeOK'
  BY <1>1 DEF Entries, C!CronTypeOK
<1>3. C!Overlooked' \subseteq C!Overlooked
  <2> SUFFICES ASSUME NEW i \in C!Overlooked' PROVE i \in C!Overlooked
    OBVIOUS
  <2>1. i \in Jobs /\ i \notin fresh' /\ cron'[i].state = "enabled"
    BY DEF C!Overlooked
  <2>2. cron'[i] = cron[i] /\ i \notin fresh
    BY <1>1, <2>1
  <2> QED  BY <1>1, <2>1, <2>2 DEF C!Overlooked, C!IsDueTimeOfDay, C!Minute, C!DayOf
<1> QED
  BY <1>1, <1>2, <1>3 DEF Listed, C!Running, C!OnceADay, C!NoDayPassedOver, C!CronTypeOK

\* A job that runs or has run today is not overlooked.
LEMMA SeenToday ==
    ASSUME DaysInv, NEW j \in Jobs, seen' = [seen EXCEPT ![j] = C!DayOf(now)],
           UNCHANGED <<now, ticks, fresh>>,
           \A i \in Jobs \ {j} : cron'[i] = cron[i]
    PROVE  ticks' # 0 => C!Overlooked' = {}
<1> SUFFICES ASSUME ticks # 0, NEW i \in C!Overlooked' PROVE FALSE
  OBVIOUS
<1>1. /\ i \in Jobs \ fresh /\ cron'[i].state = "enabled" /\ seen'[i] # C!DayOf(now)
      /\ C!IsDueTimeOfDay(cron'[i].sched, now)
  BY DEF C!Overlooked, C!IsDueTimeOfDay, C!Minute, C!DayOf
<1>2. i # j /\ seen'[i] = seen[i] /\ cron'[i] = cron[i]
  BY <1>1 DEF DaysInv, C!CronTypeOK
<1>3. i \in C!Overlooked
  BY <1>1, <1>2 DEF C!Overlooked
<1> QED  BY <1>3 DEF DaysInv

LEMMA ByHandStep ==
    ASSUME DaysInv, NEW j \in Jobs, NEW s \in Slots, C!RunCronJobNow(s, j)
    PROVE  DaysInv'
<1> USE DEF DaysInv, C!RunCronJobNow
<1>1. C!DayOf(now) \in 0 .. End
  BY Today
<1>2. C!CronTypeOK'
  BY <1>1 DEF C!CronTypeOK, C!Never
<1>3. \A i \in Jobs : (C!Running(i) => C!Running(i)') /\ (i # j => (C!Running(i)' => C!Running(i)))
  BY CronConstants DEF C!Running, C!CronTypeOK
<1>4. ASSUME NEW i \in Jobs, cron[i].last # C!Never PROVE C!DayOf(cron[i].last) <= seen'[i]
  <2>1. cron[i].last \in 0 .. now /\ now \in Nat
    BY <1>4 DEF C!CronTypeOK, C!Never
  <2> QED  BY <1>1, <1>4, <2>1, DaysInOrder DEF C!CronTypeOK
<1>5. ticks' # 0 => C!Overlooked' = {}
  BY SeenToday
<1> QED
  BY <1>1, <1>2, <1>3, <1>4, <1>5 DEF Listed, C!OnceADay, C!NoDayPassedOver, C!CronTypeOK

LEMMA RunEndsStep ==
    ASSUME DaysInv, NEW s \in Slots, NEW ok \in BOOLEAN, C!RunEnds(s, ok)
    PROVE  DaysInv'
<1> DEFINE j == run[s].job
<1> USE DEF DaysInv
<1>1. /\ j \in Jobs /\ UNCHANGED <<now, ticks, started, twice, fresh, unticked, missed>>
      /\ run' = [run EXCEPT ![s] = C!NoRun] /\ seen' = [seen EXCEPT ![j] = C!DayOf(now)]
  BY DEF C!RunEnds, C!CronTypeOK
<1>2. now \in Nat /\ C!DayOf(now) \in 0 .. End /\ C!DayOf(now) <= C!DayOf(now)
  BY Today
<1>3. /\ cron' \in [Jobs -> Entries]
      /\ \A i \in Jobs : cron'[i].state = cron[i].state /\ (i # j => cron'[i] = cron[i])
      /\ cron'[j].last \in {cron[j].last, now}
      /\ Listed(j) => cron'[j].last = now
  <2>1. CASE cron[j].state \in {"enabled", "disabled"}
    <3>0. PICK c \in {0, -1} : c = IF ok THEN 0 ELSE -1
      OBVIOUS
    <3> DEFINE w == [cron[j] EXCEPT !.last = now, !.code = c]
    <3>1. now \in C!Never .. End /\ cron[j] \in Entries
      BY <1>1, Today DEF C!CronTypeOK, C!Never, Entries
    <3>2. w \in Entries /\ w.state = cron[j].state /\ w.last = now
      BY <3>1 DEF Entries
    <3>3. cron' = [cron EXCEPT ![j] = w]
      BY <1>1, <2>1, <3>0 DEF C!RunEnds, C!CronTypeOK
    <3> HIDE DEF w
    <3> QED  BY <1>1, <3>2, <3>3 DEF C!CronTypeOK, Entries
  <2>2. CASE cron[j].state \notin {"enabled", "disabled"}
    BY <1>1, <2>2 DEF C!RunEnds, C!CronTypeOK, Entries, Listed
  <2> QED  BY <2>1, <2>2
<1>4. \A i \in Jobs : i # j => (C!Running(i) <=> C!Running(i)')
  BY <1>1, CronConstants DEF C!Running, C!NoRun, C!CronTypeOK
<1>5. C!CronTypeOK'
  <2>1. run' \in [Slots -> [job : Jobs \cup {None}, hand : BOOLEAN]]
    BY <1>1 DEF C!CronTypeOK, C!NoRun
  <2>2. C!DayOf(now) \in C!Never .. End
    BY Today DEF C!Never
  <2>3. seen' \in [Jobs -> C!Never .. End]
    BY <1>1, <2>2 DEF C!CronTypeOK
  <2> QED  BY <1>1, <1>3, <2>1, <2>3 DEF C!CronTypeOK, Entries
<1>6. cron[j].state # "absent"
  BY <1>1 DEF C!Running
<1>7. ASSUME cron[j].last # C!Never PROVE C!DayOf(cron[j].last) <= C!DayOf(now)
  <2>1. cron[j].last \in 0 .. now
    BY <1>1, <1>2, <1>7 DEF C!CronTypeOK, C!Never
  <2> QED  BY <1>2, <2>1, DaysInOrder
<1> HIDE DEF j
<1>8. ticks' # 0 => C!Overlooked' = {}
  BY <1>1, <1>3, SeenToday
<1> QED
  BY <1>1, <1>2, <1>3, <1>4, <1>5, <1>6, <1>7, <1>8
  DEF Listed, C!OnceADay, C!NoDayPassedOver, C!CronTypeOK, C!Never

LEMMA RunUnrecordedStep ==
    ASSUME DaysInv, NEW s \in Slots, C!RunUnrecorded(s)
    PROVE  DaysInv'
<1> DEFINE j == run[s].job
<1> USE DEF DaysInv
<1>1. /\ j \in Jobs /\ UNCHANGED <<now, ticks, cron, twice, fresh, unticked, missed>>
      /\ run' = [run EXCEPT ![s] = C!NoRun]
      /\ started' = [started EXCEPT ![j] = C!Never] /\ seen' = [seen EXCEPT ![j] = C!DayOf(now)]
  BY DEF C!RunUnrecorded, C!CronTypeOK
<1>2. now \in Nat /\ C!DayOf(now) \in 0 .. End
  BY Today
<1>3. \A i \in Jobs : i # j => (C!Running(i) <=> C!Running(i)')
  BY <1>1, CronConstants DEF C!Running, C!NoRun, C!CronTypeOK
<1>4. C!CronTypeOK'
  BY <1>1, <1>2, Today DEF C!CronTypeOK, C!NoRun, C!Never
<1>5. cron[j].state # "absent"
  BY <1>1 DEF C!Running
<1>6. ASSUME cron[j].last # C!Never PROVE C!DayOf(cron[j].last) <= C!DayOf(now)
  <2>1. cron[j].last \in 0 .. now
    BY <1>1, <1>2, <1>6 DEF C!CronTypeOK, C!Never
  <2> QED  BY <1>2, <2>1, DaysInOrder
<1> HIDE DEF j
<1>7. ticks' # 0 => C!Overlooked' = {}
  BY <1>1, SeenToday
<1> QED
  BY <1>1, <1>2, <1>3, <1>4, <1>5, <1>6, <1>7
  DEF Listed, C!OnceADay, C!NoDayPassedOver, C!CronTypeOK, C!Never

\* When the process dies, a run of the sweep's that was under way does not count.
LEMMA CronDroppedStep == DaysInv /\ C!CronDropped => DaysInv'
<1> SUFFICES ASSUME DaysInv, C!CronDropped PROVE DaysInv'
  OBVIOUS
<1> USE DEF DaysInv, C!CronDropped
<1>1. C!CronTypeOK'
  BY CronConstants DEF C!CronTypeOK, C!NoRun, C!Never
<1>2. now \in Nat /\ C!DayOf(now) \in Nat
  BY Today
<1>3. \A j \in Jobs : ~C!Running(j)'
  BY CronConstants DEF C!Running, C!NoRun
<1>4. C!Overlooked' = C!Overlooked
  BY DEF C!Overlooked, C!IsDueTimeOfDay, C!Minute, C!DayOf
<1> QED
  BY <1>1, <1>2, <1>3, <1>4 DEF Listed, C!OnceADay, C!NoDayPassedOver, C!Never

LEMMA CronSteps == DaysInv /\ Cron => DaysInv'
BY TickStep, MinuteStep, TableStep, ByHandStep, RunEndsStep, RunUnrecordedStep DEF Cron

LEMMA DaysInvSteps == DaysInv /\ [Next]_vars => DaysInv'
<1> SUFFICES ASSUME DaysInv, [Next]_vars PROVE DaysInv'
  OBVIOUS
<1>0. ASSUME UNCHANGED cronVars PROVE DaysInv'
  <2>1. C!Overlooked' = C!Overlooked
    BY <1>0 DEF cronVars, C!Overlooked, C!IsDueTimeOfDay, C!Minute, C!DayOf
  <2> QED  BY <1>0, <2>1 DEF cronVars, DaysInv, C!CronTypeOK, C!Running, Listed, C!OnceADay, C!NoDayPassedOver
<1>1. CASE Pages \/ VolumeBackup \/ Compose
  BY <1>0, <1>1, PagesQuiet, VolumeBackupQuiet, ComposeQuiet
<1>2. CASE Retain \/ Alert \/ EditHba \/ MakeDatabases \/ Settings \/ Adopt \/ Drive
  BY <1>0, <1>2, RetainQuiet, AlertQuiet, EditHbaQuiet, MakeDatabasesQuiet, SettingsQuiet, AdoptQuiet,
     DriveQuiet DEF dockerVars
<1>3. CASE Cron
  BY <1>3, CronSteps
<1>4. CASE Crash
  BY <1>4, CronDroppedStep DEF Crash
<1>5. CASE UNCHANGED vars
  BY <1>0, <1>5 DEF vars, dockerVars
<1> QED  BY <1>1, <1>2, <1>3, <1>4, <1>5 DEF Next

\* The sweep starts a daily or weekly job at most once on a day, and no day on
\* which the job is enabled through its minute and a tick falls into it goes
\* without a run, however ticks, runs by hand, runs that last, pauses of the job
\* and crashes fall on it; a day whose minute gets no tick is lost.
THEOREM CronJobsKeepDays == Spec => []CronKeepsDays
<1>1. DaysInv => CronKeepsDays
  BY DEF DaysInv, CronKeepsDays
<1> QED  BY DaysInitially, DaysInvSteps, <1>1, PTL DEF Spec

-----------------------------------------------------------------------------
(* The backups of volumes *)

HandRow ==
    [pc : {"idle", "insert", "helper", "stream", "copy", "close", "unhelp", "complete", "fail", "volume",
           "open", "clear", "upload", "unlink", "browse", "change", "serve"},
     op : {"none", "backup", "restore", "delete", "read", "write", "stat", "download"},
     row : Backups \cup {None}, store : Stores \cup {None},
     new : BOOLEAN, ok : BOOLEAN, data : V!Data \cup {V!Partial}]

\* How far a request of each kind may be, and what it works on
Fit(x) ==
    /\ x.op = "none" => x.pc = "idle" /\ x.row = None
    /\ x.op = "backup" => /\ x.pc \in {"helper", "stream", "copy", "close", "unhelp", "complete", "fail"}
                          /\ x.row \in Backups /\ x.store \in Stores
    /\ x.op = "restore" => /\ x.pc \in {"volume", "open", "helper", "clear", "upload", "unhelp"}
                           /\ x.row \in Backups /\ x.store \in Stores
    /\ x.op = "delete" => x.pc = "unlink" /\ x.row \in Backups
    /\ x.op = "write" => x.pc \in {"helper", "change", "unhelp"} /\ x.row = None /\ x.store \in Stores
    /\ x.op \in {"read", "stat", "download"} =>
          x.pc \in {"helper", "browse", "serve", "unhelp"} /\ x.row = None /\ x.store \in Stores

BackupRow == [state : {"absent", "running", "completed", "failed", "deleted"},
              store : Stores \cup {None}, at : Seconds \cup {0}]

VolumeShape ==
    /\ vol \in [Stores -> V!Data \cup {None}] /\ second \in Seconds
    /\ vb \in [Backups -> BackupRow]
    /\ tar \in [Stores \X Seconds -> V!Data \cup {V!Partial, None}]
    /\ hand \in [Hands -> HandRow]
    /\ took \in [Backups -> SUBSET V!Data] /\ filled \in [Stores -> V!Data \cup {V!Partial, None}]
    /\ \A h \in Hands : Fit(hand[h])

There(b) == vb[b].state # "absent"

\* Every row has a volume and a second, two rows of one file are noted as such,
\* and a backup goes on while its row is running, or is noted as gone astray.
RowsInv ==
    /\ \A b \in Backups : There(b) => vb[b].store \in Stores /\ vb[b].at \in Seconds
    /\ \A a, b \in Backups : a # b /\ There(a) /\ There(b) /\ V!File(a) = V!File(b) => a \in shared
    /\ \A h \in Hands :
         /\ hand[h].row \in Backups => There(hand[h].row)
         /\ hand[h].op = "backup" =>
               /\ vb[hand[h].row].state \in {"running", "deleted"}
               /\ vb[hand[h].row].store = hand[h].store
               /\ vb[hand[h].row].state = "deleted" => hand[h].row \in astray
         /\ hand[h].op = "delete" => vb[hand[h].row].state = "deleted"
    /\ \A g, h \in Hands :
         hand[g].op = "backup" /\ hand[h].op = "backup" /\ hand[g].row = hand[h].row => g = h

\* What a copy has seen of its volume: what it holds now, and what made the file.
TookInv ==
    \A h \in Hands : hand[h].op = "backup" =>
        /\ vol[hand[h].store] = None => hand[h].pc \in {"helper", "fail"}
        /\ hand[h].pc = "copy" => vol[hand[h].store] \in took[hand[h].row]
        /\ hand[h].pc = "close" => hand[h].data \in V!Archives(took[hand[h].row])

\* A backup whose file is written and closed
Saved(h) == hand[h].op = "backup" /\ (hand[h].pc = "complete" \/ (hand[h].pc = "unhelp" /\ hand[h].ok))
Deletes(h, b) == hand[h].op = "delete" /\ hand[h].row = b

FilesInv ==
    /\ \A h \in Hands : Saved(h) /\ hand[h].row \notin shared \cup astray =>
          tar[V!File(hand[h].row)] \in V!Archives(took[hand[h].row])
    /\ \A b \in Backups \ (shared \cup astray) :
         /\ vb[b].state = "completed" => tar[V!File(b)] \in V!Archives(took[b])
         /\ vb[b].state = "failed" => tar[V!File(b)] = None
         /\ vb[b].state = "deleted" => tar[V!File(b)] = None \/ \E h \in Hands : Deletes(h, b)

\* Over a volume that one request at a time writes to, a restore empties it first.
Fills(h, s) == hand[h].op \in {"restore", "write"} /\ hand[h].store = s
FillInv ==
    \A s \in Stores \ crowded :
        /\ filled[s] # None => vol[s] = V!Inside(filled[s])
        /\ \A g, h \in Hands : Fills(g, s) /\ Fills(h, s) => g = h
        /\ \A h \in Hands : Fills(h, s) /\ hand[h].pc = "upload" /\ ~hand[h].new => vol[s] = V!Empty

Aids == {h \in Hands : V!Helped(h)}
HelperInv == helpers \in Nat /\ litter \in Nat /\ helpers = litter + Cardinality(Aids)

VolumesInv == VolumeShape /\ RowsInv /\ TookInv /\ FilesInv /\ FillInv /\ HelperInv

LEMMA VolumeConstants ==
    /\ None \notin Stores \cup Backups \cup Int /\ Seconds \subseteq Nat \ {0} /\ 1 \in Seconds
    /\ {1, 2} \subseteq Contents /\ Contents \subseteq Nat \ {0} /\ IsFiniteSet(Hands)
<1>1. /\ None \notin Stores \cup Backups \cup Int /\ Seconds \subseteq Nat \ {0} /\ 1 \in Seconds
      /\ {1, 2} \subseteq Contents /\ Contents \subseteq 1 .. 9 /\ IsFiniteSet(Hands)
  BY OperationsAssumption, ZenonT(40) DEF V!VolumeAssumption, V!IsFiniteSet, IsFiniteSet
<1>2. Contents \subseteq Nat \ {0}
  BY <1>1
<1> QED  BY <1>1, <1>2

LEMMA DataConstants ==
    /\ V!Empty \in V!Data /\ V!Mixed \in V!Data /\ Contents \subseteq V!Data
    /\ None \notin V!Data /\ None # V!Partial
<1>1. V!Empty \in Nat /\ V!Mixed \in Int /\ V!Partial \in Int /\ Contents \subseteq Nat
  BY VolumeConstants DEF V!Empty, V!Mixed, V!Partial
<1>2. None \notin Int
  BY VolumeConstants
<1>3. V!Data = Nat \cup {V!Mixed} /\ V!Data \subseteq Int
  BY <1>1 DEF V!Data
<1> HIDE DEF V!Data
<1> QED  BY <1>1, <1>2, <1>3, Zenon

LEMMA InsideData ==
    /\ \A d \in V!Data : V!Inside(d) \in V!Data
    /\ \A d \in V!Data \cup {V!Partial} : V!Inside(d) # None
BY VolumeConstants DEF V!Inside, V!Data, V!Mixed, V!Partial

LEMMA AidsCounted == V!NoHelperLeft <=> helpers = litter + Cardinality(Aids)
<1>1. V!Cardinality(Aids) = Cardinality(Aids)
  BY Zenon DEF V!Cardinality, Cardinality
<1> QED  BY <1>1 DEF V!NoHelperLeft, Aids

LEMMA VolumesInitially == Init => VolumesInv
<1> SUFFICES ASSUME V!VolumeInit PROVE VolumesInv
  BY DEF Init
<1>1. V!Free \in HandRow /\ Fit(V!Free) /\ V!Free.op = "none" /\ V!Free.row = None /\ V!Free.pc = "idle"
  BY VolumeConstants, DataConstants DEF V!Free, HandRow, Fit
<1>2. V!NoRow \in BackupRow /\ V!NoRow.state = "absent"
  BY DEF V!NoRow, BackupRow
<1>3. \A h \in Hands : hand[h] = V!Free
  BY DEF V!VolumeInit
<1>4. vol \in [Stores -> V!Data \cup {None}]
  BY VolumeConstants DEF V!VolumeInit, V!Data
<1>5. VolumeShape
  BY <1>1, <1>2, <1>3, <1>4, VolumeConstants DEF V!VolumeInit, VolumeShape
<1>6. RowsInv /\ TookInv /\ FilesInv
  BY <1>1, <1>2, <1>3, VolumeConstants DEF V!VolumeInit, RowsInv, TookInv, FilesInv, There, Saved
<1>7. FillInv
  BY <1>1, <1>3 DEF V!VolumeInit, FillInv, Fills
<1>8. HelperInv
  <2>1. Aids = {}
    BY <1>1, <1>3 DEF Aids, V!Helped
  <2> QED  BY <2>1, FS_EmptySet DEF V!VolumeInit, HelperInv
<1> QED  BY <1>5, <1>6, <1>7, <1>8 DEF VolumesInv

-----------------------------------------------------------------------------
(* How a request goes on *)

Kin(x, y) == x.op = y.op /\ x.row = y.row /\ x.store = y.store /\ x.new = y.new

\* Only h moves: it answers, goes on, or is a download that has asked.
OnlyMoves(h) ==
    /\ hand' \in [Hands -> HandRow] /\ Fit(hand'[h])
    /\ \A g \in Hands \ {h} : hand'[g] = hand[g]
Goes(h) ==
    /\ OnlyMoves(h)
    /\ \/ Kin(hand'[h], hand[h])
       \/ hand'[h].op = "none"
       \/ hand'[h].op = "download" /\ hand[h].op = "stat" /\ hand'[h].store = hand[h].store

LEMMA FreeRow ==
    /\ V!Free \in HandRow /\ Fit(V!Free)
    /\ V!Free.op = "none" /\ V!Free.row = None /\ V!Free.pc = "idle" /\ V!Free.store = None
BY VolumeConstants, DataConstants DEF V!Free, HandRow, Fit

LEMMA Replaced ==
    ASSUME VolumeShape, NEW h \in Hands, NEW w \in HandRow, Fit(w), hand' = [hand EXCEPT ![h] = w]
    PROVE  OnlyMoves(h) /\ hand'[h] = w
BY DEF VolumeShape, OnlyMoves

LEMMA Answered ==
    ASSUME VolumeShape, NEW h \in Hands, hand' = [hand EXCEPT ![h] = V!Free]
    PROVE  Goes(h) /\ hand'[h] = V!Free
BY FreeRow, Replaced DEF Goes

LEMMA StepGoes ==
    ASSUME VolumeShape, NEW h \in Hands, NEW pc, V!Step(h, pc),
           Fit([hand[h] EXCEPT !.pc = pc]), [hand[h] EXCEPT !.pc = pc] \in HandRow
    PROVE  /\ Goes(h) /\ Kin(hand'[h], hand[h])
           /\ hand'[h].pc = pc /\ hand'[h].ok = hand[h].ok /\ hand'[h].data = hand[h].data
<1> DEFINE w == [hand[h] EXCEPT !.pc = pc]
<1>1. hand[h] \in HandRow
  BY DEF VolumeShape
<1>2. Kin(w, hand[h]) /\ w.pc = pc /\ w.ok = hand[h].ok /\ w.data = hand[h].data
  BY <1>1 DEF Kin, HandRow
<1>3. hand' = [hand EXCEPT ![h] = w]
  BY <1>1 DEF V!Step
<1> HIDE DEF w
<1>4. w \in HandRow /\ Fit(w)
  BY DEF w
<1> QED  BY <1>2, <1>3, <1>4, Replaced DEF Goes

LEMMA LeavesGoes ==
    ASSUME VolumeShape, NEW h \in Hands, NEW ok \in BOOLEAN, V!Leaves(h, ok),
           hand[h].op \notin {"none", "delete"}
    PROVE  /\ Goes(h) /\ Kin(hand'[h], hand[h])
           /\ hand'[h].pc = "unhelp" /\ hand'[h].ok = ok /\ hand'[h].data = hand[h].data
<1> DEFINE w == [hand[h] EXCEPT !.pc = "unhelp", !.ok = ok]
<1>1. hand[h] \in HandRow /\ Fit(hand[h])
  BY DEF VolumeShape
<1>2. /\ w \in HandRow /\ Kin(w, hand[h]) /\ w.pc = "unhelp" /\ w.ok = ok /\ w.data = hand[h].data
  BY <1>1 DEF Kin, HandRow
<1>3. hand' = [hand EXCEPT ![h] = w]
  BY <1>1 DEF V!Leaves, HandRow
<1> HIDE DEF w
<1>4. Fit(w)
  BY <1>1, <1>2 DEF Fit, Kin, HandRow
<1> QED  BY <1>2, <1>3, <1>4, Replaced DEF Goes

\* After its helper, a backup completes or fails; what else there is answers.
LEMMA AfterGoes ==
    ASSUME VolumeShape, NEW h \in Hands, NEW ok \in BOOLEAN, V!After(h, ok),
           hand[h].pc \in {"helper", "unhelp"}
    PROVE  /\ Goes(h)
           /\ hand[h].op = "backup" => /\ Kin(hand'[h], hand[h]) /\ hand'[h].ok = hand[h].ok
                                       /\ hand'[h].pc = IF ok THEN "complete" ELSE "fail"
           /\ hand[h].op # "backup" => /\ hand'[h].op \in {"none", "download"}
                                       /\ hand'[h].pc \in {"idle", "helper"}
<1>1. hand[h] \in HandRow /\ Fit(hand[h])
  BY DEF VolumeShape
<1>2. CASE hand[h].op = "backup"
  <2>1. PICK pc \in {"complete", "fail"} : pc = IF ok THEN "complete" ELSE "fail"
    OBVIOUS
  <2> DEFINE w == [hand[h] EXCEPT !.pc = pc]
  <2>2. w \in HandRow /\ Kin(w, hand[h]) /\ w.pc = pc /\ w.ok = hand[h].ok
    BY <1>1 DEF Kin, HandRow
  <2>3. hand' = [hand EXCEPT ![h] = w]
    BY <1>1, <1>2, <2>1 DEF V!After, VolumeShape
  <2> HIDE DEF w
  <2>4. Fit(w)
    BY <1>1, <1>2, <2>2 DEF Fit, Kin
  <2> QED  BY <1>2, <2>1, <2>2, <2>3, <2>4, Replaced DEF Goes
<1>3. CASE hand[h].op = "stat" /\ ok
  <2> DEFINE w == [hand[h] EXCEPT !.pc = "helper", !.op = "download"]
  <2>2. w \in HandRow /\ w.op = "download" /\ w.pc = "helper" /\ w.store = hand[h].store /\ w.row = hand[h].row
    BY <1>1 DEF HandRow
  <2>3. hand' = [hand EXCEPT ![h] = w]
    BY <1>1, <1>3 DEF V!After, VolumeShape
  <2> HIDE DEF w
  <2>4. Fit(w)
    BY <1>1, <1>3, <2>2 DEF Fit
  <2> QED  BY <1>3, <2>2, <2>3, <2>4, Replaced DEF Goes
<1>4. CASE hand[h].op # "backup" /\ ~(hand[h].op = "stat" /\ ok)
  <2>1. hand' = [hand EXCEPT ![h] = V!Free]
    BY <1>4 DEF V!After, VolumeShape
  <2> QED  BY <1>4, <2>1, Answered, FreeRow
<1> QED  BY <1>2, <1>3, <1>4

-----------------------------------------------------------------------------
(* What the steps of a request leave as it is *)

SameFiles ==
    /\ UNCHANGED <<tar, vb, shared>> /\ astray \subseteq astray'
    /\ \A b \in Backups : V!Archives(took[b]) \subseteq V!Archives(took'[b])

\* A step of h that ends neither a copy nor a deletion
LEMMA FilesStay ==
    ASSUME VolumeShape, FilesInv, SameFiles, NEW h \in Hands, OnlyMoves(h),
           Saved(h)' => Saved(h) /\ hand'[h].row = hand[h].row,
           hand[h].op # "delete"
    PROVE  FilesInv'
<1>1. \A b \in Backups : V!File(b)' = V!File(b)
  BY DEF V!File, SameFiles
<1>2. ASSUME NEW g \in Hands, Saved(g)', hand'[g].row \notin shared' \cup astray'
      PROVE  (tar[V!File(hand[g].row)] \in V!Archives(took[hand[g].row]))'
  <2>1. Saved(g) /\ hand'[g].row = hand[g].row
    BY <1>2 DEF OnlyMoves, Saved
  <2>2. hand[g].row \in Backups /\ hand[g].row \notin shared \cup astray
    BY <1>2, <2>1 DEF VolumeShape, Fit, Saved, SameFiles
  <2>3. tar[V!File(hand[g].row)] \in V!Archives(took[hand[g].row])
    BY <2>1, <2>2 DEF FilesInv
  <2> QED  BY <1>1, <2>1, <2>2, <2>3 DEF SameFiles
<1>3. ASSUME NEW b \in Backups \ (shared' \cup astray')
      PROVE  /\ vb'[b].state = "completed" => tar'[V!File(b)'] \in V!Archives(took'[b])
             /\ vb'[b].state = "failed" => tar'[V!File(b)'] = None
             /\ vb'[b].state = "deleted" => tar'[V!File(b)'] = None \/ \E g \in Hands : Deletes(g, b)'
  <2>1. b \in Backups \ (shared \cup astray)
    BY DEF SameFiles
  <2>2. \A g \in Hands : Deletes(g, b) => Deletes(g, b)'
    BY DEF OnlyMoves, Deletes
  <2> QED  BY <1>1, <2>1, <2>2 DEF FilesInv, SameFiles
<1> QED  BY <1>2, <1>3 DEF FilesInv

\* The rows: h goes on, and may set its row.
LEMMA RowsStay ==
    ASSUME VolumeShape, RowsInv, NEW h \in Hands, Goes(h),
           UNCHANGED shared, astray \subseteq astray',
           \A b \in Backups :
              /\ vb'[b].store = vb[b].store /\ vb'[b].at = vb[b].at
              /\ \/ vb'[b].state = vb[b].state
                 \/ /\ b = hand[h].row /\ hand[h].op = "backup" /\ hand'[h].op = "none"
                    /\ vb[b].state \in {"running", "completed", "failed"} /\ vb'[b].state \in {"completed", "failed"}
    PROVE  RowsInv'
<1>1. \A b \in Backups : V!File(b)' = V!File(b) /\ (There(b)' <=> There(b))
  BY DEF V!File, There
<1>2. \A g \in Hands : /\ hand[g] \in HandRow /\ Fit(hand[g])
                       /\ hand'[g].op \in {"backup", "delete"} => Kin(hand'[g], hand[g])
                       /\ hand'[g].row \in Backups => hand'[g].row = hand[g].row
                       /\ g # h => hand'[g] = hand[g]
  BY VolumeConstants DEF VolumeShape, Goes, OnlyMoves, Kin, Fit
<1>3. ASSUME NEW g \in Hands
      PROVE  /\ hand'[g].row \in Backups => There(hand[g].row)'
             /\ hand'[g].op = "backup" =>
                   /\ vb'[hand'[g].row].state \in {"running", "deleted"}
                   /\ vb'[hand'[g].row].store = hand'[g].store
                   /\ vb'[hand'[g].row].state = "deleted" => hand'[g].row \in astray'
             /\ hand'[g].op = "delete" => vb'[hand'[g].row].state = "deleted"
  <2>1. hand'[g].row \in Backups => There(hand[g].row)'
    BY <1>1, <1>2 DEF RowsInv
  <2>2. ASSUME hand'[g].op = "backup"
        PROVE  /\ hand[g].op = "backup" /\ hand[g].row \in Backups
               /\ hand'[g].row = hand[g].row /\ hand'[g].store = hand[g].store
               /\ vb'[hand[g].row].state = vb[hand[g].row].state
    <3>1. hand[g].op = "backup" /\ hand'[g].row = hand[g].row /\ hand'[g].store = hand[g].store
      BY <1>2, <2>2 DEF Kin
    <3>2. hand[g].row \in Backups
      BY <1>2, <3>1 DEF Fit
    <3> QED  BY <2>2, <3>1, <3>2 DEF RowsInv
  <2>3. ASSUME hand'[g].op = "delete" PROVE vb'[hand'[g].row].state = "deleted"
    <3>1. hand[g].op = "delete" /\ hand'[g].row = hand[g].row /\ hand[g].row \in Backups
      BY <1>2, <2>3 DEF Kin, Fit
    <3> QED  BY <3>1 DEF RowsInv
  <2> QED  BY <2>1, <2>2, <2>3 DEF RowsInv
<1>4. \A b \in Backups : There(b)' => vb'[b].store \in Stores /\ vb'[b].at \in Seconds
  BY <1>1 DEF RowsInv
<1>5. \A a, b \in Backups : a # b /\ There(a)' /\ There(b)' /\ V!File(a)' = V!File(b)' => a \in shared'
  BY <1>1 DEF RowsInv
<1>6. \A f, g \in Hands :
         hand'[f].op = "backup" /\ hand'[g].op = "backup" /\ hand'[f].row = hand'[g].row => f = g
  BY <1>2 DEF RowsInv, Kin
<1> QED  BY <1>3, <1>4, <1>5, <1>6 DEF RowsInv

\* A volume that comes to be is empty.
Appears(s) == vol' = [vol EXCEPT ![s] = IF @ = None THEN V!Empty ELSE @]

LEMMA MoreArchives == ASSUME NEW few, NEW more, few \subseteq more PROVE V!Archives(few) \subseteq V!Archives(more)
BY DEF V!Archives

TookGrows == took' \in [Backups -> SUBSET V!Data] /\ \A b \in Backups : took[b] \subseteq took'[b]

LEMMA TookAsItWas == ASSUME VolumeShape, UNCHANGED took PROVE TookGrows
BY DEF VolumeShape, TookGrows

LEMMA TookStays ==
    ASSUME VolumeShape, TookInv, NEW h \in Hands, Goes(h), TookGrows,
           UNCHANGED vol \/ \E s \in Stores : Appears(s),
           hand'[h].op = "backup" =>
              /\ vol'[hand'[h].store] = None => hand'[h].pc \in {"helper", "fail"}
              /\ hand'[h].pc = "copy" => vol'[hand'[h].store] \in took'[hand'[h].row]
              /\ hand'[h].pc = "close" => hand'[h].data \in V!Archives(took'[hand'[h].row])
    PROVE  TookInv'
<1>0. V!Empty # None
  BY VolumeConstants DEF V!Empty
<1>1. \A s \in Stores : vol'[s] = vol[s] \/ (vol[s] = None /\ vol'[s] = V!Empty)
  BY DEF Appears, VolumeShape
<1>2. ASSUME NEW g \in Hands, hand'[g].op = "backup"
      PROVE  /\ hand[g].op = "backup" /\ hand[g].row = hand'[g].row /\ hand[g].store = hand'[g].store
             /\ hand[g].store \in Stores /\ hand[g].row \in Backups
             /\ g # h => hand'[g] = hand[g]
  BY <1>2 DEF Goes, OnlyMoves, Kin, VolumeShape, Fit
<1>3. ASSUME NEW g \in Hands, hand'[g].op = "backup"
      PROVE  /\ vol'[hand'[g].store] = None => hand'[g].pc \in {"helper", "fail"}
             /\ hand'[g].pc = "copy" => vol'[hand'[g].store] \in took'[hand'[g].row]
             /\ hand'[g].pc = "close" => hand'[g].data \in V!Archives(took'[hand'[g].row])
  <2>1. CASE g = h
    BY <1>3, <2>1
  <2>2. CASE g # h
    <3>1. hand'[g] = hand[g] /\ hand[g].op = "backup" /\ hand[g].store \in Stores /\ hand[g].row \in Backups
      BY <1>2, <1>3, <2>2
    <3>2. /\ vol[hand[g].store] = None => hand[g].pc \in {"helper", "fail"}
          /\ hand[g].pc = "copy" => vol[hand[g].store] \in took[hand[g].row]
          /\ hand[g].pc = "close" => hand[g].data \in V!Archives(took[hand[g].row])
      BY <3>1 DEF TookInv
    <3>3. took[hand[g].row] \subseteq took'[hand[g].row]
      BY <3>1 DEF TookGrows
    <3>4. V!Archives(took[hand[g].row]) \subseteq V!Archives(took'[hand[g].row])
      BY <3>3, MoreArchives
    <3>5. vol'[hand[g].store] = vol[hand[g].store]
          \/ (vol[hand[g].store] = None /\ vol'[hand[g].store] = V!Empty)
      BY <1>1, <3>1
    <3>6. /\ vol'[hand[g].store] = None => hand[g].pc \in {"helper", "fail"}
          /\ hand[g].pc = "copy" => vol'[hand[g].store] \in took'[hand[g].row]
      BY <1>0, <3>2, <3>3, <3>5
    <3> QED  BY <3>1, <3>2, <3>4, <3>6
  <2> QED  BY <2>1, <2>2
<1> QED  BY <1>3 DEF TookInv

\* What a step does to a volume, a copy under way sees.
LEMMA TookSees ==
    ASSUME VolumeShape, TookInv, vol' \in [Stores -> V!Data \cup {None}], V!Seen,
           \A s \in Stores : vol[s] # None => vol'[s] # None,
           \A g \in Hands : hand'[g].op = "backup" => hand'[g] = hand[g]
    PROVE  TookInv' /\ TookGrows
<1> DEFINE Fresh(b) == {vol'[hand[h].store] : h \in V!Copying(b)}
<1>1. took' = [b \in Backups |-> took[b] \cup Fresh(b)]
  BY DEF V!Seen
<1>c. ASSUME NEW b \in Backups, NEW h \in V!Copying(b)
      PROVE  /\ h \in Hands /\ hand[h].pc = "copy" /\ hand[h].row = b
             /\ hand[h].op = "backup" /\ hand[h].store \in Stores
  BY DEF V!Copying, VolumeShape, Fit, HandRow
<1>2. ASSUME NEW b \in Backups PROVE Fresh(b) \subseteq V!Data
  <2> SUFFICES ASSUME NEW h \in V!Copying(b)
               PROVE  vol'[hand[h].store] \in V!Data
    OBVIOUS
  <2>1. h \in Hands /\ hand[h].pc = "copy" /\ hand[h].op = "backup" /\ hand[h].store \in Stores
    BY <1>c
  <2>2. vol[hand[h].store] # None
    BY <2>1 DEF TookInv
  <2> QED  BY <2>1, <2>2
<1>3. \A b \in Backups : took'[b] = took[b] \cup Fresh(b)
  BY <1>1
<1>4. ASSUME NEW g \in Hands, hand'[g].op = "backup"
      PROVE  /\ vol'[hand'[g].store] = None => hand'[g].pc \in {"helper", "fail"}
             /\ hand'[g].pc = "copy" => vol'[hand'[g].store] \in took'[hand'[g].row]
             /\ hand'[g].pc = "close" => hand'[g].data \in V!Archives(took'[hand'[g].row])
  <2>1. hand'[g] = hand[g] /\ hand[g].store \in Stores /\ hand[g].row \in Backups
    BY <1>4 DEF VolumeShape, Fit
  <2>2. /\ vol[hand[g].store] = None => hand[g].pc \in {"helper", "fail"}
        /\ hand[g].pc = "close" => hand[g].data \in V!Archives(took[hand[g].row])
    BY <1>4, <2>1 DEF TookInv
  <2>3. hand[g].pc = "copy" => vol'[hand[g].store] \in Fresh(hand[g].row)
    BY <2>1 DEF V!Copying
  <2>4. took'[hand[g].row] = took[hand[g].row] \cup Fresh(hand[g].row)
    BY <1>3, <2>1
  <2> HIDE DEF Fresh
  <2>5. V!Archives(took[hand[g].row]) \subseteq V!Archives(took'[hand[g].row])
    BY <2>4, MoreArchives
  <2>6. vol'[hand[g].store] = None => vol[hand[g].store] = None
    BY <2>1
  <2> QED  BY <2>1, <2>2, <2>3, <2>4, <2>5, <2>6
<1>5. took' \in [Backups -> SUBSET V!Data]
  <2>1. \A b \in Backups : took[b] \cup Fresh(b) \in SUBSET V!Data
    BY <1>2 DEF VolumeShape
  <2> HIDE DEF Fresh
  <2> QED  BY <1>1, <2>1
<1> HIDE DEF Fresh
<1> QED  BY <1>3, <1>4, <1>5 DEF TookInv, TookGrows

\* The volumes: h goes on without writing to one.
LEMMA FillStays ==
    ASSUME VolumeShape, FillInv, NEW h \in Hands, Goes(h), UNCHANGED <<filled, crowded>>,
           UNCHANGED vol \/ \E s \in Stores : Appears(s),
           hand'[h].op = "restore" /\ hand'[h].pc = "upload" => hand'[h].new
    PROVE  FillInv'
<1>0. \A s \in Stores : filled[s] # None => V!Inside(filled[s]) # None
  BY InsideData DEF VolumeShape
<1>1. \A s \in Stores : vol'[s] = vol[s] \/ (vol[s] = None /\ vol'[s] = V!Empty)
  BY DEF Appears, VolumeShape
<1>2. \A g \in Hands, s \in Stores : Fills(g, s)' => Fills(g, s)
  BY DEF Goes, OnlyMoves, Kin, Fills
<1>3. ASSUME NEW s \in Stores \ crowded
      PROVE  /\ filled[s] # None => vol'[s] = V!Inside(filled[s])
             /\ \A f, g \in Hands : Fills(f, s)' /\ Fills(g, s)' => f = g
             /\ \A g \in Hands : Fills(g, s)' /\ hand'[g].pc = "upload" /\ ~hand'[g].new => vol'[s] = V!Empty
  <2>1. filled[s] # None => vol'[s] = V!Inside(filled[s])
    BY <1>0, <1>1 DEF FillInv
  <2>2. \A f, g \in Hands : Fills(f, s)' /\ Fills(g, s)' => f = g
    BY <1>2 DEF FillInv
  <2>3. ASSUME NEW g \in Hands, Fills(g, s)', hand'[g].pc = "upload", ~hand'[g].new
        PROVE  vol'[s] = V!Empty
    <3>1. hand'[g].op = "restore"
      BY <2>3 DEF Fills, Goes, OnlyMoves, VolumeShape, Fit
    <3>2. g # h
      BY <2>3, <3>1
    <3>3. hand[g] = hand'[g]
      BY <3>2 DEF Goes, OnlyMoves
    <3>4. vol[s] = V!Empty
      BY <1>2, <2>3, <3>3 DEF FillInv
    <3> QED  BY <1>1, <3>4
  <2> QED  BY <2>1, <2>2, <2>3
<1> QED  BY <1>3 DEF FillInv

\* h writes to its volume, and says what is in it, or nothing.
LEMMA FillWrites ==
    ASSUME VolumeShape, FillInv, NEW h \in Hands, Goes(h), UNCHANGED crowded,
           NEW s \in Stores, Fills(h, s),
           \A t \in Stores \ {s} : vol'[t] = vol[t] /\ filled'[t] = filled[t],
           s \notin crowded /\ filled'[s] # None => vol'[s] = V!Inside(filled'[s]),
           hand'[h].pc = "upload" => vol'[s] = V!Empty
    PROVE  FillInv'
<1>2. \A g \in Hands, t \in Stores : Fills(g, t)' => Fills(g, t)
  BY DEF Goes, OnlyMoves, Kin, Fills
<1>3. ASSUME NEW t \in Stores \ crowded
      PROVE  /\ filled'[t] # None => vol'[t] = V!Inside(filled'[t])
             /\ \A f, g \in Hands : Fills(f, t)' /\ Fills(g, t)' => f = g
             /\ \A g \in Hands : Fills(g, t)' /\ hand'[g].pc = "upload" /\ ~hand'[g].new => vol'[t] = V!Empty
  <2>1. filled'[t] # None => vol'[t] = V!Inside(filled'[t])
    BY DEF FillInv
  <2>2. \A f, g \in Hands : Fills(f, t)' /\ Fills(g, t)' => f = g
    BY <1>2 DEF FillInv
  <2>3. ASSUME NEW g \in Hands, Fills(g, t)', hand'[g].pc = "upload", ~hand'[g].new
        PROVE  vol'[t] = V!Empty
    <3>1. CASE g = h
      BY <1>2, <2>3, <3>1 DEF Fills
    <3>2. CASE g # h
      <4>1. hand[g] = hand'[g]
        BY <3>2 DEF Goes, OnlyMoves
      <4>2. t # s
        BY <1>2, <2>3, <3>2 DEF FillInv
      <4> QED  BY <1>2, <2>3, <4>1, <4>2 DEF FillInv
    <3> QED  BY <3>1, <3>2
  <2> QED  BY <2>1, <2>2, <2>3
<1> QED  BY <1>3 DEF FillInv

\* The helpers
LEMMA AidsStay ==
    ASSUME HelperInv, \A g \in Hands : V!Helped(g)' <=> V!Helped(g),
           UNCHANGED <<helpers, litter>> \/ (helpers' = helpers + 1 /\ litter' = litter + 1)
    PROVE  HelperInv'
<1>1. Aids' = Aids
  BY DEF Aids
<1>2. Cardinality(Aids) \in Nat
  BY VolumeConstants, FS_Subset, FS_CardinalityType DEF Aids
<1> QED  BY <1>1, <1>2 DEF HelperInv

LEMMA AidComes ==
    ASSUME HelperInv, NEW h \in Hands, ~V!Helped(h), V!Helped(h)', helpers' = helpers + 1, litter' = litter,
           \A g \in Hands \ {h} : V!Helped(g)' <=> V!Helped(g)
    PROVE  HelperInv'
<1>1. Aids' = Aids \cup {h} /\ h \notin Aids
  BY DEF Aids
<1>2. IsFiniteSet(Aids)
  BY VolumeConstants, FS_Subset DEF Aids
<1>3. Cardinality(Aids') = Cardinality(Aids) + 1 /\ Cardinality(Aids) \in Nat
  BY <1>1, <1>2, FS_AddElement, FS_CardinalityType
<1> QED  BY <1>3 DEF HelperInv

LEMMA AidGoes ==
    ASSUME HelperInv, NEW h \in Hands, V!Helped(h), ~V!Helped(h)',
           \/ helpers' = helpers - 1 /\ litter' = litter
           \/ helpers' = helpers /\ litter' = litter + 1,
           \A g \in Hands \ {h} : V!Helped(g)' <=> V!Helped(g)
    PROVE  HelperInv'
<1>1. Aids' = Aids \ {h} /\ h \in Aids
  BY DEF Aids
<1>2. IsFiniteSet(Aids) /\ IsFiniteSet(Aids')
  BY <1>1, VolumeConstants, FS_Subset DEF Aids
<1>3. /\ Cardinality(Aids') = Cardinality(Aids) - 1
      /\ Cardinality(Aids) \in Nat /\ Cardinality(Aids') \in Nat
  BY <1>1, <1>2, FS_RemoveElement, FS_CardinalityType
<1> QED  BY <1>3 DEF HelperInv

-----------------------------------------------------------------------------
(* The steps *)

\* A step of h writes to no volume; it may make one, set its row, write to its file.
LEMMA RequestGoesOn ==
    ASSUME VolumesInv, NEW h \in Hands, Goes(h), UNCHANGED <<second, filled, shared, crowded>>, TookGrows,
           tar' \in [Stores \X Seconds -> V!Data \cup {V!Partial, None}], astray \subseteq astray',
           UNCHANGED vol \/ \E s \in Stores : Appears(s),
           vb' \in [Backups -> BackupRow],
           \A b \in Backups :
              /\ vb'[b].store = vb[b].store /\ vb'[b].at = vb[b].at
              /\ \/ vb'[b].state = vb[b].state
                 \/ /\ b = hand[h].row /\ hand[h].op = "backup" /\ hand'[h].op = "none"
                    /\ vb[b].state \in {"running", "completed", "failed"} /\ vb'[b].state \in {"completed", "failed"},
           hand'[h].op = "backup" =>
              /\ vol'[hand'[h].store] = None => hand'[h].pc \in {"helper", "fail"}
              /\ hand'[h].pc = "copy" => vol'[hand'[h].store] \in took'[hand'[h].row]
              /\ hand'[h].pc = "close" => hand'[h].data \in V!Archives(took'[hand'[h].row]),
           hand'[h].op = "restore" /\ hand'[h].pc = "upload" => hand'[h].new
    PROVE  VolumeShape' /\ RowsInv' /\ TookInv' /\ FillInv'
<1>1. VolumeShape /\ RowsInv /\ TookInv /\ FillInv
  BY DEF VolumesInv
<1>2. vol' \in [Stores -> V!Data \cup {None}]
  BY <1>1, DataConstants DEF VolumeShape, Appears
<1>3. VolumeShape'
  BY <1>1, <1>2 DEF VolumeShape, Goes, OnlyMoves, TookGrows
<1> QED  BY <1>1, <1>3, RowsStay, TookStays, FillStays

\* ... and leaves rows and files as they are.
LEMMA RequestGoesOnQuietly ==
    ASSUME VolumesInv, NEW h \in Hands, Goes(h), hand[h].op # "delete",
           UNCHANGED <<second, vb, tar, took, filled, shared, astray, crowded>>,
           UNCHANGED vol \/ \E s \in Stores : Appears(s),
           Saved(h)' => Saved(h) /\ hand'[h].row = hand[h].row,
           hand'[h].op = "backup" =>
              /\ vol'[hand'[h].store] = None => hand'[h].pc \in {"helper", "fail"}
              /\ hand'[h].pc = "copy" => vol'[hand'[h].store] \in took'[hand'[h].row]
              /\ hand'[h].pc = "close" => hand'[h].data \in V!Archives(took'[hand'[h].row]),
           hand'[h].op = "restore" /\ hand'[h].pc = "upload" => hand'[h].new
    PROVE  VolumeShape' /\ RowsInv' /\ TookInv' /\ FilesInv' /\ FillInv'
<1>1. VolumeShape /\ FilesInv
  BY DEF VolumesInv
<1>2. FilesInv'
  BY <1>1, FilesStay DEF SameFiles, Goes
<1>3. vb' \in [Backups -> BackupRow] /\ tar' \in [Stores \X Seconds -> V!Data \cup {V!Partial, None}]
  BY <1>1 DEF VolumeShape
<1> QED  BY <1>1, <1>2, <1>3, RequestGoesOn, TookAsItWas

LEMMA HelpersStay ==
    ASSUME HelperInv, NEW h \in Hands, OnlyMoves(h), V!Helped(h)' <=> V!Helped(h),
           UNCHANGED <<helpers, litter>> \/ (helpers' = helpers + 1 /\ litter' = litter + 1)
    PROVE  HelperInv'
<1>1. \A g \in Hands : V!Helped(g)' <=> V!Helped(g)
  BY DEF OnlyMoves, V!Helped
<1> QED  BY <1>1, AidsStay

LEMMA MakeHelperStep == ASSUME VolumesInv, NEW h \in Hands, V!MakeHelper(h) PROVE VolumesInv'
<1>0. VolumeShape /\ HelperInv /\ hand[h] \in HandRow /\ Fit(hand[h]) /\ hand[h].pc = "helper"
  BY DEF VolumesInv, VolumeShape, V!MakeHelper
<1>1. /\ hand[h].op \in {"backup", "restore", "read", "write", "stat", "download"} /\ hand[h].store \in Stores
      /\ UNCHANGED <<second, vb, tar, took, filled, shared, astray, crowded>>
  BY <1>0 DEF Fit, HandRow, V!MakeHelper
<1>2. CASE /\ Appears(hand[h].store) /\ V!Step(h, V!FirstStep(h))
           /\ helpers' = helpers + 1 /\ UNCHANGED litter
  <2>1. PICK pc \in {"stream", "upload", "clear", "change", "serve", "browse"} :
          /\ pc = V!FirstStep(h)
          /\ hand[h].op = "backup" => pc = "stream"
          /\ hand[h].op = "restore" => pc \in {"upload", "clear"} /\ (pc = "upload" => hand[h].new)
          /\ hand[h].op = "write" => pc = "change"
          /\ hand[h].op \in {"read", "stat", "download"} => pc \in {"serve", "browse"}
    BY <1>1 DEF V!FirstStep
  <2> DEFINE w == [hand[h] EXCEPT !.pc = pc]
  <2>2. w \in HandRow /\ Kin(w, hand[h]) /\ w.pc = pc
    BY <1>0 DEF HandRow, Kin
  <2>3. Fit(w)
    BY <1>0, <1>1, <2>1, <2>2 DEF Fit, Kin
  <2>4. Goes(h) /\ Kin(hand'[h], hand[h]) /\ hand'[h].pc = pc
    BY <1>0, <1>2, <2>1, <2>2, <2>3, StepGoes
  <2>5. vol'[hand[h].store] # None
    BY <1>0, <1>1, <1>2, VolumeConstants DEF Appears, VolumeShape, V!Empty
  <2>6. VolumeShape' /\ RowsInv' /\ TookInv' /\ FilesInv' /\ FillInv'
    BY <1>1, <1>2, <2>1, <2>4, <2>5, RequestGoesOnQuietly DEF Kin, Saved
  <2>7. HelperInv'
    BY <1>0, <1>2, <2>1, <2>4, AidComes DEF Goes, OnlyMoves, V!Helped
  <2> QED  BY <2>6, <2>7 DEF VolumesInv
<1>3. CASE /\ V!After(h, FALSE) /\ UNCHANGED vol
           /\ UNCHANGED <<helpers, litter>> \/ (helpers' = helpers + 1 /\ litter' = litter + 1)
  <2>1. /\ Goes(h)
        /\ hand[h].op = "backup" => Kin(hand'[h], hand[h]) /\ hand'[h].pc = "fail"
        /\ hand[h].op # "backup" => hand'[h].op \in {"none", "download"} /\ hand'[h].pc \in {"idle", "helper"}
    BY <1>0, <1>3, AfterGoes
  <2>2. VolumeShape' /\ RowsInv' /\ TookInv' /\ FilesInv' /\ FillInv'
    BY <1>1, <1>3, <2>1, RequestGoesOnQuietly DEF Kin, Saved
  <2>3. HelperInv'
    BY <1>0, <1>3, <2>1, HelpersStay DEF V!Helped, Goes
  <2> QED  BY <2>2, <2>3 DEF VolumesInv
<1> QED  BY <1>2, <1>3 DEF V!MakeHelper, Appears

LEMMA RemoveHelperStep == ASSUME VolumesInv, NEW h \in Hands, V!RemoveHelper(h) PROVE VolumesInv'
<1>0. /\ VolumeShape /\ HelperInv /\ TookInv
      /\ hand[h] \in HandRow /\ Fit(hand[h]) /\ hand[h].pc = "unhelp" /\ hand[h].ok \in BOOLEAN
  BY DEF VolumesInv, VolumeShape, V!RemoveHelper, HandRow
<1>1. hand[h].op # "delete" /\ UNCHANGED <<vol, second, vb, tar, took, filled, shared, astray, crowded>>
  BY <1>0 DEF Fit, V!RemoveHelper
<1>2. /\ Goes(h)
      /\ hand[h].op = "backup" => /\ Kin(hand'[h], hand[h]) /\ hand'[h].ok = hand[h].ok
                                  /\ hand'[h].pc = IF hand[h].ok THEN "complete" ELSE "fail"
      /\ hand[h].op # "backup" => hand'[h].op \in {"none", "download"} /\ hand'[h].pc \in {"idle", "helper"}
  BY <1>0, AfterGoes DEF V!RemoveHelper
<1>3. Saved(h)' => Saved(h) /\ hand'[h].row = hand[h].row
  BY <1>0, <1>2 DEF Saved, Kin
<1>4. hand[h].op = "backup" => vol[hand[h].store] # None
  BY <1>0 DEF TookInv
<1>5. VolumeShape' /\ RowsInv' /\ TookInv' /\ FilesInv' /\ FillInv'
  BY <1>1, <1>2, <1>3, <1>4, RequestGoesOnQuietly DEF Kin
<1>6. HelperInv'
  BY <1>0, <1>2, AidGoes DEF Goes, OnlyMoves, V!Helped, V!RemoveHelper
<1> QED  BY <1>5, <1>6 DEF VolumesInv

LEMMA CreateVolumeStep == ASSUME VolumesInv, NEW h \in Hands, V!CreateVolume(h) PROVE VolumesInv'
<1>0. /\ VolumeShape /\ HelperInv /\ hand[h] \in HandRow /\ Fit(hand[h]) /\ hand[h].pc = "volume"
      /\ hand[h].op = "restore" /\ hand[h].store \in Stores
      /\ UNCHANGED <<second, vb, tar, helpers, took, filled, shared, astray, crowded, litter>>
  BY DEF VolumesInv, VolumeShape, V!CreateVolume, HandRow, Fit
<1>1. CASE Appears(hand[h].store) /\ V!Step(h, "open")
  <2> DEFINE w == [hand[h] EXCEPT !.pc = "open"]
  <2>2. w \in HandRow /\ Kin(w, hand[h]) /\ w.pc = "open"
    BY <1>0 DEF HandRow, Kin
  <2>3. Fit(w)
    BY <1>0, <2>2 DEF Fit, Kin
  <2>4. Goes(h) /\ Kin(hand'[h], hand[h]) /\ hand'[h].pc = "open"
    BY <1>0, <1>1, <2>2, <2>3, StepGoes
  <2>6. VolumeShape' /\ RowsInv' /\ TookInv' /\ FilesInv' /\ FillInv'
    BY <1>0, <1>1, <2>4, RequestGoesOnQuietly DEF Kin, Saved
  <2>7. HelperInv'
    BY <1>0, <2>4, HelpersStay DEF Goes, V!Helped
  <2> QED  BY <2>6, <2>7 DEF VolumesInv
<1>2. CASE hand' = [hand EXCEPT ![h] = V!Free] /\ UNCHANGED vol
  <2>1. Goes(h) /\ hand'[h].op = "none" /\ hand'[h].pc = "idle"
    BY <1>0, <1>2, Answered, FreeRow
  <2>2. VolumeShape' /\ RowsInv' /\ TookInv' /\ FilesInv' /\ FillInv'
    BY <1>0, <1>2, <2>1, RequestGoesOnQuietly DEF Saved
  <2>3. HelperInv'
    BY <1>0, <2>1, HelpersStay DEF Goes, V!Helped
  <2> QED  BY <2>2, <2>3 DEF VolumesInv
<1> QED  BY <1>1, <1>2 DEF V!CreateVolume, Appears

LEMMA OpenStep == ASSUME VolumesInv, NEW h \in Hands, V!Open(h) PROVE VolumesInv'
<1>0. /\ VolumeShape /\ HelperInv /\ RowsInv /\ hand[h] \in HandRow /\ Fit(hand[h]) /\ hand[h].pc = "open"
      /\ hand[h].op = "restore" /\ hand[h].row \in Backups
      /\ UNCHANGED <<vol, second, vb, tar, helpers, took, filled, shared, astray, crowded, litter>>
  BY DEF VolumesInv, VolumeShape, V!Open, HandRow, Fit
<1>1. Goes(h) /\ hand'[h].pc \in {"idle", "helper"} /\ hand'[h].op # "backup"
  <2>1. CASE hand' = [hand EXCEPT ![h] = V!Free]
    BY <1>0, <2>1, Answered, FreeRow
  <2>2. CASE hand' # [hand EXCEPT ![h] = V!Free]
    <3>1. V!File(hand[h].row) \in Stores \X Seconds
      BY <1>0 DEF RowsInv, V!File
    <3>2. PICK d \in V!Data \cup {V!Partial} : d = tar[V!File(hand[h].row)]
      BY <1>0, <2>2, <3>1 DEF VolumeShape, V!Open
    <3> DEFINE w == [hand[h] EXCEPT !.pc = "helper", !.data = d]
    <3>3. w \in HandRow /\ Kin(w, hand[h]) /\ w.pc = "helper"
      BY <1>0 DEF HandRow, Kin
    <3>4. Fit(w)
      BY <1>0, <3>3 DEF Fit, Kin
    <3>5. hand' = [hand EXCEPT ![h] = w]
      BY <1>0, <2>2, <3>2 DEF V!Open, VolumeShape
    <3> HIDE DEF w
    <3> QED  BY <1>0, <3>3, <3>4, <3>5, Replaced DEF Goes, Kin
  <2> QED  BY <2>1, <2>2
<1>2. VolumeShape' /\ RowsInv' /\ TookInv' /\ FilesInv' /\ FillInv'
  BY <1>0, <1>1, RequestGoesOnQuietly DEF Saved
<1>3. HelperInv'
  BY <1>0, <1>1, HelpersStay DEF Goes, V!Helped
<1> QED  BY <1>2, <1>3 DEF VolumesInv

\* A request in its helper is over, in whatever way.
LEMMA LeavesQuietly ==
    ASSUME VolumesInv, NEW h \in Hands, hand[h].pc \in {"browse", "serve", "clear", "upload"},
           \E ok \in BOOLEAN : V!Leaves(h, ok),
           UNCHANGED <<vol, second, vb, tar, helpers, took, filled, shared, astray, crowded, litter>>
    PROVE  VolumesInv'
<1>0. /\ VolumeShape /\ HelperInv /\ hand[h] \in HandRow /\ Fit(hand[h])
      /\ hand[h].op \in {"read", "stat", "download", "restore"}
  BY DEF VolumesInv, VolumeShape, HandRow, Fit
<1>1. Goes(h) /\ Kin(hand'[h], hand[h]) /\ hand'[h].pc = "unhelp"
  BY <1>0, LeavesGoes
<1>2. VolumeShape' /\ RowsInv' /\ TookInv' /\ FilesInv' /\ FillInv'
  BY <1>0, <1>1, RequestGoesOnQuietly DEF Saved, Kin
<1>3. HelperInv'
  BY <1>0, <1>1, HelpersStay DEF Goes, V!Helped
<1> QED  BY <1>2, <1>3 DEF VolumesInv

LEMMA BrowseSteps ==
    ASSUME VolumesInv, NEW h \in Hands, V!Browse(h) \/ V!Serve(h) \/ V!VolumeAbandon(h)
    PROVE  VolumesInv'
BY LeavesQuietly DEF V!Browse, V!Serve, V!VolumeAbandon

\* A step of a backup or a deletion writes to its own file at most, which is
\* that of no other row but those noted.
LEMMA OwnFile ==
    ASSUME VolumesInv, NEW h \in Hands, OnlyMoves(h), NEW b \in Backups, b = hand[h].row,
           hand[h].op \in {"backup", "delete"},
           UNCHANGED shared, TookGrows, astray \subseteq astray',
           \A f \in Stores \X Seconds : f # V!File(b) => tar'[f] = tar[f],
           \A a \in Backups : vb'[a].store = vb[a].store /\ vb'[a].at = vb[a].at /\ (a # b => vb'[a].state = vb[a].state),
           Saved(h)' => hand'[h].row = b,
           b \notin shared \cup astray' =>
              /\ Saved(h)' => tar'[V!File(b)] \in V!Archives(took'[b])
              /\ vb'[b].state = "completed" => tar'[V!File(b)] \in V!Archives(took'[b])
              /\ vb'[b].state = "failed" => tar'[V!File(b)] = None
              /\ vb'[b].state = "deleted" => tar'[V!File(b)] = None
    PROVE  FilesInv'
<1>0. VolumeShape /\ RowsInv /\ FilesInv
  BY DEF VolumesInv
<1>1. \A a \in Backups : V!File(a)' = V!File(a) /\ V!Archives(took[a]) \subseteq V!Archives(took'[a])
  BY MoreArchives DEF V!File, TookGrows
<1>2. ASSUME NEW a \in Backups, a # b, There(a), a \notin shared
      PROVE  tar'[V!File(a)] = tar[V!File(a)]
  <2>1. There(b)
    BY <1>0 DEF RowsInv
  <2>2. V!File(a) # V!File(b)
    BY <1>0, <1>2, <2>1 DEF RowsInv
  <2>3. V!File(a) \in Stores \X Seconds
    BY <1>0, <1>2 DEF RowsInv, V!File
  <2> QED  BY <2>2, <2>3
<1>3. ASSUME NEW g \in Hands, Saved(g)', hand'[g].row \notin shared' \cup astray'
      PROVE  (tar[V!File(hand[g].row)] \in V!Archives(took[hand[g].row]))'
  <2>1. CASE g = h
    BY <1>1, <1>3, <2>1
  <2>2. CASE g # h
    <3>1. Saved(g) /\ hand'[g] = hand[g] /\ hand[g].row \in Backups
      BY <1>0, <1>3, <2>2 DEF OnlyMoves, Saved, VolumeShape, Fit
    <3>2. hand[g].row # b
      <4>1. CASE hand[h].op = "backup"
        BY <1>0, <2>2, <3>1, <4>1 DEF RowsInv, Saved
      <4>2. CASE hand[h].op = "delete"
        BY <1>0, <1>3, <3>1, <4>2 DEF RowsInv, Saved
      <4> QED  BY <4>1, <4>2
    <3>3. There(hand[g].row) /\ hand[g].row \notin shared \cup astray
      BY <1>0, <1>3, <3>1 DEF RowsInv
    <3>4. tar[V!File(hand[g].row)] \in V!Archives(took[hand[g].row])
      BY <1>0, <3>1, <3>3 DEF FilesInv
    <3> QED  BY <1>1, <1>2, <3>1, <3>2, <3>3, <3>4
  <2> QED  BY <2>1, <2>2
<1>4. ASSUME NEW a \in Backups \ (shared' \cup astray')
      PROVE  /\ vb'[a].state = "completed" => tar'[V!File(a)'] \in V!Archives(took'[a])
             /\ vb'[a].state = "failed" => tar'[V!File(a)'] = None
             /\ vb'[a].state = "deleted" => tar'[V!File(a)'] = None \/ \E g \in Hands : Deletes(g, a)'
  <2>1. CASE a = b
    BY <1>1, <2>1
  <2>2. CASE a # b
    <3>1. \A g \in Hands : Deletes(g, a) => Deletes(g, a)'
      BY <2>2 DEF OnlyMoves, Deletes
    <3>2. a \in Backups \ (shared \cup astray) /\ vb'[a].state = vb[a].state
      BY <2>2
    <3>3. There(a) => tar'[V!File(a)] = tar[V!File(a)]
      BY <1>2, <2>2, <3>2
    <3> QED  BY <1>0, <1>1, <3>1, <3>2, <3>3 DEF FilesInv, There
  <2> QED  BY <2>1, <2>2
<1> QED  BY <1>3, <1>4 DEF FilesInv

\* A row is set, unless it is deleted.
LEMMA SetsRow ==
    ASSUME VolumeShape, NEW b \in Backups, NEW st \in {"completed", "failed"}, V!Sets(b, st) \/ UNCHANGED vb
    PROVE  /\ vb' \in [Backups -> BackupRow]
           /\ \A a \in Backups : /\ vb'[a].store = vb[a].store /\ vb'[a].at = vb[a].at
                                 /\ a # b => vb'[a].state = vb[a].state
           /\ \/ vb'[b].state = vb[b].state
              \/ vb[b].state \in {"running", "completed", "failed"} /\ vb'[b].state = st
<1>1. CASE vb' = vb
  BY <1>1 DEF VolumeShape
<1>2. CASE V!Listed(b) /\ vb' = [vb EXCEPT ![b].state = st]
  <2> DEFINE w == [vb[b] EXCEPT !.state = st]
  <2>1. w \in BackupRow /\ w.state = st /\ w.store = vb[b].store /\ w.at = vb[b].at
    BY DEF VolumeShape, BackupRow
  <2>2. vb' = [vb EXCEPT ![b] = w]
    BY <1>2 DEF VolumeShape
  <2> HIDE DEF w
  <2> QED  BY <1>2, <2>1, <2>2 DEF VolumeShape, V!Listed
<1> QED  BY <1>1, <1>2 DEF V!Sets

LEMMA BackupOf ==
    ASSUME VolumesInv, NEW h \in Hands, hand[h].pc \in {"stream", "copy", "close", "complete", "fail"}
    PROVE  /\ hand[h].op = "backup" /\ hand[h].row \in Backups /\ hand[h].store \in Stores
           /\ V!File(hand[h].row) \in Stores \X Seconds
           /\ vb[hand[h].row].state = "running" \/ hand[h].row \in astray
           /\ hand[h].pc # "fail" => vol[hand[h].store] \in V!Data
<1>1. VolumeShape /\ RowsInv /\ TookInv /\ Fit(hand[h]) /\ hand[h] \in HandRow
  BY DEF VolumesInv, VolumeShape
<1>2. hand[h].op = "backup"
  BY <1>1 DEF Fit, HandRow
<1>3. hand[h].row \in Backups /\ hand[h].store \in Stores
  BY <1>1, <1>2 DEF Fit
<1>4. /\ There(hand[h].row)
      /\ vb[hand[h].row].state \in {"running", "deleted"}
      /\ vb[hand[h].row].state = "deleted" => hand[h].row \in astray
  BY <1>1, <1>2, <1>3 DEF RowsInv
<1>5. V!File(hand[h].row) \in Stores \X Seconds
  BY <1>1, <1>3, <1>4 DEF RowsInv, V!File
<1>6. hand[h].pc # "fail" => vol[hand[h].store] \in V!Data
  BY <1>1, <1>2, <1>3 DEF TookInv, VolumeShape
<1> QED  BY <1>2, <1>3, <1>4, <1>5, <1>6

LEMMA StreamStep == ASSUME VolumesInv, NEW h \in Hands, V!Stream(h) PROVE VolumesInv'
<1>0. /\ VolumeShape /\ HelperInv /\ hand[h] \in HandRow /\ Fit(hand[h]) /\ hand[h].pc = "stream"
      /\ UNCHANGED <<vol, second, vb, helpers, filled, shared, astray, crowded, litter>>
  BY DEF VolumesInv, VolumeShape, V!Stream
<1>b. PICK b \in Backups : b = hand[h].row
  BY <1>0, BackupOf
<1>1. /\ hand[h].op = "backup" /\ hand[h].store \in Stores /\ V!File(b) \in Stores \X Seconds
      /\ vb[b].state = "running" \/ b \in astray
      /\ vol[hand[h].store] \in V!Data
  BY <1>0, <1>b, BackupOf
<1>2. /\ tar' \in [Stores \X Seconds -> V!Data \cup {V!Partial, None}]
      /\ \A f \in Stores \X Seconds : f # V!File(b) => tar'[f] = tar[f]
  BY <1>0, <1>b, <1>1 DEF V!Stream, VolumeShape
<1>3. /\ Goes(h) /\ Kin(hand'[h], hand[h])
      /\ \/ hand'[h].pc = "copy" /\ vol[hand[h].store] \in took'[b]
         \/ hand'[h].pc = "unhelp" /\ ~hand'[h].ok
  <2>1. CASE V!Step(h, "copy") /\ took' = [took EXCEPT ![b] = @ \cup {vol[hand[h].store]}]
    <3> DEFINE w == [hand[h] EXCEPT !.pc = "copy"]
    <3>1. w \in HandRow /\ Kin(w, hand[h]) /\ w.pc = "copy"
      BY <1>0 DEF HandRow, Kin
    <3>2. Fit(w)
      BY <1>0, <1>1, <3>1 DEF Fit, Kin
    <3>3. vol[hand[h].store] \in took'[b]
      BY <1>0, <2>1 DEF VolumeShape
    <3> QED  BY <1>0, <2>1, <3>1, <3>2, <3>3, StepGoes
  <2>2. CASE V!Leaves(h, FALSE)
    BY <1>0, <1>1, <2>2, LeavesGoes
  <2> QED  BY <1>b, <2>1, <2>2 DEF V!Stream
<1>4. vol[hand[h].store] # None
  BY <1>1, DataConstants
<1>g. TookGrows
  <2>1. CASE took' = [took EXCEPT ![b] = @ \cup {vol[hand[h].store]}]
    BY <1>0, <1>1, <2>1 DEF VolumeShape, TookGrows
  <2> QED  BY <1>0, <1>b, <2>1, TookAsItWas DEF V!Stream
<1>5. VolumeShape' /\ RowsInv' /\ TookInv' /\ FillInv'
  BY <1>0, <1>b, <1>1, <1>2, <1>3, <1>4, <1>g, RequestGoesOn DEF Kin, VolumeShape
<1>6. FilesInv'
  BY <1>0, <1>b, <1>1, <1>2, <1>3, <1>g, OwnFile DEF Goes, Saved, Kin
<1>7. HelperInv'
  BY <1>0, <1>3, HelpersStay DEF Goes, V!Helped
<1> QED  BY <1>5, <1>6, <1>7 DEF VolumesInv

LEMMA CopyStep == ASSUME VolumesInv, NEW h \in Hands, V!Copy(h) PROVE VolumesInv'
<1>0. /\ VolumeShape /\ HelperInv /\ hand[h] \in HandRow /\ Fit(hand[h]) /\ hand[h].pc = "copy"
      /\ UNCHANGED <<vol, second, vb, tar, helpers, took, filled, shared, astray, crowded, litter>>
  BY DEF VolumesInv, VolumeShape, V!Copy
<1>b. PICK b \in Backups : b = hand[h].row
  BY <1>0, BackupOf
<1>1. hand[h].op = "backup" /\ hand[h].store \in Stores /\ vol[hand[h].store] \in V!Data
  BY <1>0, BackupOf
<1>3. /\ Goes(h) /\ Kin(hand'[h], hand[h])
      /\ \/ hand'[h].pc = "close" /\ hand'[h].data \in V!Archives(took[b])
         \/ hand'[h].pc = "unhelp" /\ ~hand'[h].ok
  <2>1. ASSUME NEW d \in V!Archives(took[b]), hand' = [hand EXCEPT ![h].pc = "close", ![h].data = d]
        PROVE  Goes(h) /\ Kin(hand'[h], hand[h]) /\ hand'[h].pc = "close" /\ hand'[h].data = d
    <3>1. d \in V!Data
      BY <1>0, DataConstants DEF V!Archives, VolumeShape
    <3> DEFINE w == [hand[h] EXCEPT !.pc = "close", !.data = d]
    <3>2. w \in HandRow /\ Kin(w, hand[h]) /\ w.pc = "close" /\ w.data = d
      BY <1>0, <3>1 DEF HandRow, Kin
    <3>3. Fit(w)
      BY <1>0, <1>1, <3>2 DEF Fit, Kin
    <3>4. hand' = [hand EXCEPT ![h] = w]
      BY <1>0, <2>1 DEF HandRow
    <3> HIDE DEF w
    <3> QED  BY <1>0, <3>2, <3>3, <3>4, Replaced DEF Goes
  <2>2. CASE V!Leaves(h, FALSE)
    BY <1>0, <1>1, <2>2, LeavesGoes
  <2> QED  BY <1>b, <2>1, <2>2 DEF V!Copy
<1>4. vol[hand[h].store] # None
  BY <1>1, DataConstants
<1>5. ~Saved(h)'
  BY <1>3 DEF Saved
<1>6. VolumeShape' /\ RowsInv' /\ TookInv' /\ FilesInv' /\ FillInv'
  BY <1>0, <1>b, <1>1, <1>3, <1>4, <1>5, RequestGoesOnQuietly DEF Kin
<1>7. HelperInv'
  BY <1>0, <1>3, HelpersStay DEF Goes, V!Helped
<1> QED  BY <1>6, <1>7 DEF VolumesInv

LEMMA CloseStep == ASSUME VolumesInv, NEW h \in Hands, V!Close(h) PROVE VolumesInv'
<1>0. /\ VolumeShape /\ HelperInv /\ TookInv /\ hand[h] \in HandRow /\ Fit(hand[h]) /\ hand[h].pc = "close"
      /\ UNCHANGED <<vol, second, vb, helpers, took, filled, shared, crowded, litter>>
  BY DEF VolumesInv, VolumeShape, V!Close
<1>b. PICK b \in Backups : b = hand[h].row
  BY <1>0, BackupOf
<1>1. /\ hand[h].op = "backup" /\ hand[h].store \in Stores /\ V!File(b) \in Stores \X Seconds
      /\ vb[b].state = "running" \/ b \in astray
      /\ vol[hand[h].store] \in V!Data
      /\ hand[h].data \in V!Archives(took[b])
  BY <1>0, <1>b, BackupOf DEF TookInv
<1>2. /\ tar' \in [Stores \X Seconds -> V!Data \cup {V!Partial, None}] /\ astray \subseteq astray'
      /\ \A f \in Stores \X Seconds : f # V!File(b) => tar'[f] = tar[f]
      /\ tar'[V!File(b)] = hand[h].data \/ b \in astray'
  BY <1>0, <1>b, <1>1 DEF V!Close, VolumeShape, HandRow
<1>3. Goes(h) /\ Kin(hand'[h], hand[h]) /\ hand'[h].pc = "unhelp"
  BY <1>0, <1>1, LeavesGoes DEF V!Close
<1>4. vol[hand[h].store] # None
  BY <1>1, DataConstants
<1>g. TookGrows
  BY <1>0, TookAsItWas
<1>5. VolumeShape' /\ RowsInv' /\ TookInv' /\ FillInv'
  BY <1>0, <1>b, <1>1, <1>2, <1>3, <1>4, <1>g, RequestGoesOn DEF Kin, VolumeShape
<1>6. FilesInv'
  BY <1>0, <1>b, <1>1, <1>2, <1>3, <1>g, OwnFile DEF Goes, Kin
<1>7. HelperInv'
  BY <1>0, <1>3, HelpersStay DEF Goes, V!Helped
<1> QED  BY <1>5, <1>6, <1>7 DEF VolumesInv

\* A backup ends: its row is set, or not.
LEMMA BackupEndStep ==
    ASSUME VolumesInv, NEW h \in Hands, hand' = [hand EXCEPT ![h] = V!Free],
           NEW b \in Backups, b = hand[h].row, NEW st \in {"completed", "failed"},
           V!Sets(b, st) \/ UNCHANGED vb, astray \subseteq astray',
           UNCHANGED <<vol, second, helpers, took, filled, shared, crowded, litter>>,
           \/ hand[h].pc = "complete" /\ st = "completed" /\ UNCHANGED <<tar, astray>>
           \/ hand[h].pc = "fail" /\ st = "failed" /\ tar' = [tar EXCEPT ![V!File(b)] = None]
           \/ hand[h].pc = "fail" /\ st = "failed" /\ UNCHANGED tar /\ b \in astray'
    PROVE  VolumesInv'
<1>0. VolumeShape /\ HelperInv /\ FilesInv
  BY DEF VolumesInv
<1>1. /\ hand[h].op = "backup" /\ V!File(b) \in Stores \X Seconds
      /\ vb[b].state = "running" \/ b \in astray
  BY BackupOf
<1>2. Goes(h) /\ hand'[h].op = "none" /\ hand'[h].pc = "idle"
  BY <1>0, Answered, FreeRow
<1>3. /\ vb' \in [Backups -> BackupRow]
      /\ \A a \in Backups : /\ vb'[a].store = vb[a].store /\ vb'[a].at = vb[a].at
                            /\ a # b => vb'[a].state = vb[a].state
      /\ \/ vb'[b].state = vb[b].state
         \/ vb[b].state \in {"running", "completed", "failed"} /\ vb'[b].state = st
  BY <1>0, SetsRow
<1>4. /\ tar' \in [Stores \X Seconds -> V!Data \cup {V!Partial, None}]
      /\ \A f \in Stores \X Seconds : f # V!File(b) => tar'[f] = tar[f]
      /\ st = "failed" => tar'[V!File(b)] = None \/ b \in astray'
  BY <1>0, <1>1 DEF VolumeShape
<1>g. TookGrows
  BY <1>0, TookAsItWas
<1>5. VolumeShape' /\ RowsInv' /\ TookInv' /\ FillInv'
  BY <1>1, <1>2, <1>3, <1>4, <1>g, RequestGoesOn
<1>6. st = "completed" /\ b \notin shared \cup astray => tar'[V!File(b)] \in V!Archives(took'[b])
  BY <1>0, <1>1 DEF FilesInv, Saved
<1>7. FilesInv'
  <2>1. b \notin shared \cup astray' =>
          /\ vb'[b].state = "completed" => tar'[V!File(b)] \in V!Archives(took'[b])
          /\ vb'[b].state = "failed" => tar'[V!File(b)] = None
          /\ vb'[b].state # "deleted"
    BY <1>1, <1>3, <1>4, <1>6
  <2>2. ~Saved(h)'
    BY <1>2 DEF Saved
  <2> QED  BY <1>1, <1>2, <1>3, <1>4, <1>g, <2>1, <2>2, OwnFile DEF Goes
<1>8. HelperInv'
  BY <1>0, <1>2, HelpersStay DEF Goes, V!Helped
<1> QED  BY <1>5, <1>7, <1>8 DEF VolumesInv

LEMMA CompleteStep == ASSUME VolumesInv, NEW h \in Hands, V!Complete(h) PROVE VolumesInv'
<1>1. hand[h].row \in Backups
  BY BackupOf DEF V!Complete
<1> QED  BY <1>1, BackupEndStep DEF V!Complete

LEMMA FailStep == ASSUME VolumesInv, NEW h \in Hands, V!Fail(h) PROVE VolumesInv'
<1>1. hand[h].row \in Backups
  BY BackupOf DEF V!Fail
<1> QED  BY <1>1, BackupEndStep DEF V!Fail

LEMMA UnlinkStep == ASSUME VolumesInv, NEW h \in Hands, V!Unlink(h) PROVE VolumesInv'
<1>0. /\ VolumeShape /\ RowsInv /\ HelperInv /\ hand[h] \in HandRow /\ Fit(hand[h]) /\ hand[h].pc = "unlink"
      /\ UNCHANGED <<vol, second, vb, helpers, took, filled, shared, crowded, litter>>
      /\ hand' = [hand EXCEPT ![h] = V!Free]
  BY DEF VolumesInv, VolumeShape, V!Unlink
<1>b. hand[h].op = "delete" /\ hand[h].row \in Backups
  BY <1>0 DEF Fit, HandRow
<1>1. PICK b \in Backups : b = hand[h].row
  BY <1>b
<1>2. vb[b].state = "deleted" /\ V!File(b) \in Stores \X Seconds
  BY <1>0, <1>b, <1>1 DEF RowsInv, V!File, There
<1>3. Goes(h) /\ hand'[h].op = "none" /\ hand'[h].pc = "idle"
  BY <1>0, Answered, FreeRow
<1>4. /\ tar' \in [Stores \X Seconds -> V!Data \cup {V!Partial, None}] /\ astray \subseteq astray'
      /\ \A f \in Stores \X Seconds : f # V!File(b) => tar'[f] = tar[f]
      /\ tar'[V!File(b)] = None \/ b \in astray'
  BY <1>0, <1>1, <1>2 DEF VolumeShape, V!Unlink
<1>g. TookGrows
  BY <1>0, TookAsItWas
<1>5. VolumeShape' /\ RowsInv' /\ TookInv' /\ FillInv'
  BY <1>0, <1>b, <1>3, <1>4, <1>g, RequestGoesOn DEF VolumeShape
<1>6. FilesInv'
  BY <1>0, <1>b, <1>1, <1>2, <1>3, <1>4, <1>g, OwnFile DEF Goes, Saved
<1>7. HelperInv'
  BY <1>0, <1>3, HelpersStay DEF Goes, V!Helped
<1> QED  BY <1>5, <1>6, <1>7 DEF VolumesInv

\* A restore or the file manager writes to a volume that nobody else fills.
LEMMA Writes ==
    ASSUME VolumesInv, NEW h \in Hands, Goes(h), Kin(hand'[h], hand[h]),
           NEW s \in Stores, s = hand[h].store, hand[h].op \in {"restore", "write"},
           vol' \in [Stores -> V!Data \cup {None}], vol[s] # None => vol'[s] # None, V!Seen,
           filled' \in [Stores -> V!Data \cup {V!Partial, None}],
           \A t \in Stores \ {s} : vol'[t] = vol[t] /\ filled'[t] = filled[t],
           s \notin crowded /\ filled'[s] # None => vol'[s] = V!Inside(filled'[s]),
           hand'[h].pc = "upload" => vol'[s] = V!Empty,
           V!Helped(h), V!Helped(h)',
           UNCHANGED <<second, vb, tar, helpers, shared, astray, crowded, litter>>
    PROVE  VolumesInv'
<1>0. VolumeShape /\ RowsInv /\ TookInv /\ FilesInv /\ FillInv /\ HelperInv /\ OnlyMoves(h)
  BY DEF VolumesInv, Goes
<1>1. hand'[h].op = hand[h].op /\ hand'[h].row = hand[h].row /\ hand[h].op \notin {"backup", "delete"}
  BY DEF Kin
<1>2. \A g \in Hands : hand'[g].op = "backup" => hand'[g] = hand[g]
  BY <1>0, <1>1 DEF OnlyMoves
<1>3. TookInv' /\ TookGrows
  <2>1. \A t \in Stores : vol[t] # None => vol'[t] # None
    OBVIOUS
  <2> QED  BY <1>0, <1>2, <2>1, TookSees
<1>4. VolumeShape'
  BY <1>0, <1>3 DEF VolumeShape, OnlyMoves, TookGrows
<1>5. RowsInv'
  BY <1>0, RowsStay
<1>6. FilesInv'
  <2>1. SameFiles
    BY <1>3, MoreArchives DEF SameFiles, TookGrows
  <2> QED  BY <1>0, <1>1, <2>1, FilesStay DEF Saved
<1>7. FillInv'
  <2>1. Fills(h, s)
    BY DEF Fills
  <2> QED  BY <1>0, <2>1, FillWrites
<1>8. HelperInv'
  BY <1>0, AidsStay DEF OnlyMoves, V!Helped
<1> QED  BY <1>3, <1>4, <1>5, <1>6, <1>7, <1>8 DEF VolumesInv

LEMMA Writer ==
    ASSUME VolumesInv, NEW h \in Hands, hand[h].pc \in {"clear", "upload", "change"}
    PROVE  /\ VolumeShape /\ FillInv /\ hand[h] \in HandRow /\ Fit(hand[h]) /\ V!Helped(h)
           /\ hand[h].op = IF hand[h].pc = "change" THEN "write" ELSE "restore"
           /\ hand[h].store \in Stores
BY DEF VolumesInv, VolumeShape, HandRow, Fit, V!Helped

LEMMA WriterLeaves ==
    ASSUME VolumesInv, NEW h \in Hands, hand[h].pc \in {"clear", "upload", "change"},
           NEW ok \in BOOLEAN, V!Leaves(h, ok)
    PROVE  Goes(h) /\ Kin(hand'[h], hand[h]) /\ hand'[h].pc = "unhelp" /\ V!Helped(h)'
BY Writer, LeavesGoes DEF V!Helped

LEMMA ClearStep == ASSUME VolumesInv, NEW h \in Hands, V!Clear(h) PROVE VolumesInv'
<1>1. hand[h].pc = "clear" /\ V!Seen
      /\ UNCHANGED <<second, vb, tar, helpers, shared, astray, crowded, litter>>
  BY DEF V!Clear
<1>s. PICK s \in Stores : s = hand[h].store
  BY <1>1, Writer
<1>2. VolumeShape /\ hand[h].op = "restore" /\ hand[h] \in HandRow /\ Fit(hand[h]) /\ V!Helped(h)
  BY <1>1, Writer
<1>3. /\ vol' \in [Stores -> V!Data \cup {None}]
      /\ vol[s] # None => vol'[s] # None
      /\ \A t \in Stores \ {s} : vol'[t] = vol[t]
  <2>1. PICK d \in V!Data : vol' = vol \/ vol' = [vol EXCEPT ![s] = d]
    BY <1>s, DataConstants DEF V!Clear, V!Cleared, V!HalfDone, V!Holds
  <2> QED  BY <1>2, <2>1, DataConstants DEF VolumeShape
<1>4. /\ filled' \in [Stores -> V!Data \cup {V!Partial, None}] /\ filled'[s] = None
      /\ \A t \in Stores \ {s} : filled'[t] = filled[t]
  BY <1>2, <1>s DEF V!Clear, VolumeShape
<1>5. Goes(h) /\ Kin(hand'[h], hand[h]) /\ V!Helped(h)' /\ (hand'[h].pc = "upload" => vol'[s] = V!Empty)
  <2>1. CASE V!Leaves(h, FALSE)
    BY <1>1, <2>1, WriterLeaves
  <2>2. CASE V!Step(h, "upload") /\ vol' = V!Cleared(s)
    <3>1. [hand[h] EXCEPT !.pc = "upload"] \in HandRow /\ Fit([hand[h] EXCEPT !.pc = "upload"])
      BY <1>2 DEF HandRow, Fit
    <3>2. vol'[s] = V!Empty
      BY <1>2, <2>2 DEF V!Cleared, V!Holds, VolumeShape
    <3> QED  BY <1>2, <2>2, <3>1, <3>2, StepGoes DEF V!Helped
  <2> QED  BY <1>s, <2>1, <2>2 DEF V!Clear
<1>6. /\ hand[h].op \in {"restore", "write"} /\ (s \notin crowded /\ filled'[s] # None => vol'[s] = V!Inside(filled'[s]))
      /\ hand'[h].pc = "upload" => vol'[s] = V!Empty
      /\ \A t \in Stores \ {s} : vol'[t] = vol[t] /\ filled'[t] = filled[t]
  BY <1>2, <1>3, <1>4, <1>5
<1> QED  BY <1>1, <1>s, <1>2, <1>3, <1>4, <1>5, <1>6, Writes, Zenon

LEMMA UploadStep == ASSUME VolumesInv, NEW h \in Hands, V!Upload(h) PROVE VolumesInv'
<1>1. hand[h].pc = "upload" /\ V!Seen
      /\ UNCHANGED <<second, vb, tar, helpers, shared, astray, crowded, litter>>
  BY DEF V!Upload
<1>s. PICK s \in Stores : s = hand[h].store
  BY <1>1, Writer
<1>2. VolumeShape /\ FillInv /\ hand[h].op = "restore" /\ hand[h] \in HandRow /\ V!Helped(h)
  BY <1>1, Writer
<1>3. Goes(h) /\ Kin(hand'[h], hand[h]) /\ V!Helped(h)' /\ hand'[h].pc = "unhelp"
  BY <1>1, WriterLeaves DEF V!Upload
<1>4. /\ vol' \in [Stores -> V!Data \cup {None}]
      /\ vol[s] # None => vol'[s] # None
      /\ filled' \in [Stores -> V!Data \cup {V!Partial, None}]
      /\ \A t \in Stores \ {s} : vol'[t] = vol[t] /\ filled'[t] = filled[t]
      /\ s \notin crowded /\ filled'[s] # None => vol'[s] = V!Inside(filled'[s])
  <2>d. PICK d \in V!Data \cup {V!Partial} : d = hand[h].data
    BY <1>2 DEF HandRow
  <2>1. CASE /\ d # V!Partial
             /\ vol' = [vol EXCEPT ![s] = IF @ \in {V!Empty, V!Inside(d)} THEN V!Inside(d) ELSE V!Mixed]
             /\ filled' = [filled EXCEPT ![s] = IF vol[s] = V!Empty \/ ~hand[h].new THEN d ELSE None]
    <3>1. s \notin crowded /\ ~hand[h].new => vol[s] = V!Empty
      BY <1>1, <1>s, <1>2 DEF FillInv, Fills
    <3>2. /\ \A t \in Stores \ {s} : vol'[t] = vol[t] /\ filled'[t] = filled[t]
          /\ vol'[s] = IF vol[s] \in {V!Empty, V!Inside(d)} THEN V!Inside(d) ELSE V!Mixed
          /\ filled'[s] = IF vol[s] = V!Empty \/ ~hand[h].new THEN d ELSE None
      BY <1>2, <2>1 DEF VolumeShape
    <3>3. d \in V!Data /\ V!Inside(d) \in V!Data
      BY <2>1, InsideData
    <3>4. vol' \in [Stores -> V!Data \cup {None}] /\ filled' \in [Stores -> V!Data \cup {V!Partial, None}]
      BY <1>2, <2>1, <3>3, DataConstants DEF VolumeShape
    <3> QED  BY <3>1, <3>2, <3>3, <3>4, DataConstants
  <2>2. CASE vol' \in V!HalfDone(s) /\ filled' = [filled EXCEPT ![s] = None]
    BY <1>2, <2>2, DataConstants DEF V!HalfDone, V!Holds, VolumeShape
  <2> QED  BY <1>s, <2>d, <2>1, <2>2 DEF V!Upload
<1>5. hand[h].op \in {"restore", "write"} /\ (hand'[h].pc = "upload" => vol'[s] = V!Empty)
  BY <1>2, <1>3
<1> QED  BY <1>1, <1>s, <1>2, <1>3, <1>4, <1>5, Writes, Zenon

LEMMA FileChangeStep == ASSUME VolumesInv, NEW h \in Hands, V!Change(h) PROVE VolumesInv'
<1>1. hand[h].pc = "change" /\ V!Seen
      /\ UNCHANGED <<second, vb, tar, helpers, shared, astray, crowded, litter>>
  BY DEF V!Change
<1>s. PICK s \in Stores : s = hand[h].store
  BY <1>1, Writer
<1>2. VolumeShape /\ hand[h].op = "write" /\ V!Helped(h)
  BY <1>1, Writer
<1>3. Goes(h) /\ Kin(hand'[h], hand[h]) /\ V!Helped(h)' /\ hand'[h].pc = "unhelp"
  BY <1>1, WriterLeaves DEF V!Change
<1>4. /\ vol' \in [Stores -> V!Data \cup {None}]
      /\ vol[s] # None => vol'[s] # None
      /\ \A t \in Stores \ {s} : vol'[t] = vol[t]
  BY <1>2, <1>s, DataConstants, ZenonT(40) DEF V!Change, V!OneFileMore, V!HalfDone, V!Holds, VolumeShape
<1>5. /\ filled' \in [Stores -> V!Data \cup {V!Partial, None}] /\ filled'[s] = None
      /\ \A t \in Stores \ {s} : filled'[t] = filled[t]
  BY <1>2, <1>s DEF V!Change, VolumeShape
<1>6. /\ hand[h].op \in {"restore", "write"} /\ (s \notin crowded /\ filled'[s] # None => vol'[s] = V!Inside(filled'[s]))
      /\ hand'[h].pc = "upload" => vol'[s] = V!Empty
      /\ \A t \in Stores \ {s} : vol'[t] = vol[t] /\ filled'[t] = filled[t]
  BY <1>2, <1>3, <1>4, <1>5
<1> QED  BY <1>1, <1>s, <1>2, <1>3, <1>4, <1>5, <1>6, Writes, Zenon

\* An application writes: it may be the second one to do so.
LEMMA WriteStep == ASSUME VolumesInv, NEW s \in Stores, V!Write(s) PROVE VolumesInv'
<1>0. VolumeShape /\ RowsInv /\ TookInv /\ FilesInv /\ FillInv /\ HelperInv
  BY DEF VolumesInv
<1>1. V!Seen /\ UNCHANGED <<second, vb, tar, hand, helpers, shared, astray, litter>> /\ V!Crowds(s)
  BY DEF V!Write
<1>2. /\ vol' \in [Stores -> V!Data \cup {None}]
      /\ \A t \in Stores : vol[t] # None => vol'[t] # None
      /\ \A t \in Stores \ {s} : vol'[t] = vol[t]
      /\ filled' \in [Stores -> V!Data \cup {V!Partial, None}] /\ filled'[s] = None
      /\ \A t \in Stores \ {s} : filled'[t] = filled[t]
  BY <1>0, DataConstants DEF V!Write, V!OneFileMore, V!Holds, VolumeShape
<1>3. TookInv' /\ TookGrows
  BY <1>0, <1>1, <1>2, TookSees
<1>4. VolumeShape'
  BY <1>0, <1>1, <1>2, <1>3 DEF VolumeShape, TookGrows
<1>5. RowsInv'
  BY <1>0, <1>1 DEF RowsInv, There, V!File
<1>6. FilesInv'
  <2>1. \A b \in Backups : V!File(b)' = V!File(b) /\ V!Archives(took[b]) \subseteq V!Archives(took'[b])
    BY <1>1, <1>3, MoreArchives DEF V!File, TookGrows
  <2>2. \A h \in Hands : Saved(h)' => Saved(h) /\ hand[h].row \in Backups
    BY <1>0, <1>1 DEF Saved, VolumeShape, Fit
  <2>3. \A h \in Hands : Saved(h)' /\ hand[h].row \notin shared \cup astray =>
           (tar[V!File(hand[h].row)] \in V!Archives(took[hand[h].row]))'
    BY <1>0, <1>1, <2>1, <2>2 DEF FilesInv
  <2>4. \A b \in Backups \ (shared \cup astray) :
           /\ vb[b].state = "completed" => tar[V!File(b)] \in V!Archives(took'[b])
           /\ vb[b].state = "failed" => tar[V!File(b)] = None
           /\ vb[b].state = "deleted" => tar[V!File(b)] = None \/ \E h \in Hands : Deletes(h, b)
    BY <1>0, <2>1 DEF FilesInv
  <2> QED  BY <1>1, <2>1, <2>3, <2>4 DEF FilesInv, Deletes
<1>7. FillInv'
  <2>1. crowded' = IF V!Busy(s) THEN crowded \cup {s} ELSE crowded
    BY <1>1 DEF V!Crowds
  <2>2. V!Busy(s) <=> \E h \in Hands : Fills(h, s)
    BY DEF V!Busy, Fills
  <2> QED  BY <1>0, <1>1, <1>2, <2>1, <2>2 DEF FillInv, Fills
<1>8. HelperInv'
  BY <1>0, <1>1, AidsStay DEF V!Helped
<1> QED  BY <1>3, <1>4, <1>5, <1>6, <1>7, <1>8 DEF VolumesInv

LEMMA SecondSteps == ASSUME VolumesInv, V!SecondPasses PROVE VolumesInv'
<1>1. UNCHANGED <<vol, vb, tar, hand, helpers, took, filled, shared, astray, crowded, litter>> /\ second' \in Seconds
  BY DEF V!SecondPasses
<1>2. VolumeShape' /\ RowsInv' /\ TookInv'
  BY <1>1 DEF VolumesInv, VolumeShape, RowsInv, TookInv, There, V!File
<1>3. FilesInv' /\ FillInv'
  BY <1>1 DEF VolumesInv, FilesInv, FillInv, Saved, Deletes, Fills, V!File
<1>4. HelperInv'
  BY <1>1, AidsStay DEF VolumesInv, V!Helped
<1> QED  BY <1>2, <1>3, <1>4 DEF VolumesInv

LEMMA Idle ==
    ASSUME VolumeShape, NEW h \in Hands, hand[h].pc = "idle"
    PROVE  hand[h].op = "none" /\ hand[h].row = None /\ ~V!Helped(h)
BY DEF VolumeShape, Fit, HandRow, V!Helped

\* A restore or a use of files begins.
LEMMA RequestBegins ==
    ASSUME VolumesInv, NEW h \in Hands, hand[h].pc = "idle",
           NEW w \in HandRow, Fit(w), hand' = [hand EXCEPT ![h] = w],
           w.op \in {"restore", "read", "write", "stat"}, w.pc \in {"volume", "open", "helper"},
           w.row \in Backups => There(w.row),
           UNCHANGED <<vol, second, vb, tar, helpers, took, filled, shared, astray, litter>>,
           crowded \subseteq crowded',
           \A s \in Stores \ crowded' : w.op \in {"restore", "write"} /\ w.store = s => ~V!Busy(s)
    PROVE  VolumesInv'
<1>0. /\ VolumeShape /\ RowsInv /\ TookInv /\ FilesInv /\ FillInv /\ HelperInv
      /\ OnlyMoves(h) /\ hand'[h] = w /\ hand[h].op = "none" /\ ~V!Helped(h)
  BY Replaced, Idle DEF VolumesInv
<1>1. VolumeShape'
  BY <1>0 DEF VolumeShape, OnlyMoves
<1>2. RowsInv'
  <2>1. \A g \in Hands : hand'[g].op \in {"backup", "delete"} => hand'[g] = hand[g]
    BY <1>0 DEF OnlyMoves
  <2>2. \A g \in Hands : hand'[g].row \in Backups => There(hand'[g].row)
    BY <1>0 DEF OnlyMoves, RowsInv
  <2> QED  BY <1>0, <2>1, <2>2 DEF RowsInv, There, V!File
<1>3. TookInv'
  <2>1. \A g \in Hands : hand'[g].op = "backup" => hand'[g] = hand[g]
    BY <1>0 DEF OnlyMoves
  <2> QED  BY <1>0, <2>1 DEF TookInv
<1>4. FilesInv'
  <2>1. SameFiles
    BY DEF SameFiles
  <2> QED  BY <1>0, <2>1, FilesStay DEF Saved
<1>5. FillInv'
  <2>1. ASSUME NEW s \in Stores \ crowded'
        PROVE  /\ filled'[s] # None => vol'[s] = V!Inside(filled'[s])
               /\ \A f, g \in Hands : Fills(f, s)' /\ Fills(g, s)' => f = g
               /\ \A g \in Hands : Fills(g, s)' /\ hand'[g].pc = "upload" /\ ~hand'[g].new => vol'[s] = V!Empty
    <3>1. \A g \in Hands \ {h} : (Fills(g, s)' <=> Fills(g, s)) /\ hand'[g] = hand[g]
      BY <1>0 DEF OnlyMoves, Fills
    <3>2. Fills(h, s)' => \A g \in Hands : ~Fills(g, s)
      BY <1>0 DEF Fills, V!Busy
    <3>3. hand'[h].pc # "upload" /\ s \in Stores \ crowded
      BY <1>0
    <3> QED  BY <1>0, <3>1, <3>2, <3>3 DEF FillInv
  <2> QED  BY <2>1 DEF FillInv
<1>6. HelperInv'
  BY <1>0, AidsStay DEF OnlyMoves, V!Helped
<1> QED  BY <1>1, <1>2, <1>3, <1>4, <1>5, <1>6 DEF VolumesInv

LEMMA RestoreVolumeBackupStep ==
    ASSUME VolumesInv, NEW h \in Hands, NEW b \in Backups, NEW s \in Stores, NEW new \in BOOLEAN,
           V!RestoreVolumeBackup(h, b, s, new)
    PROVE  VolumesInv'
<1>1. PICK pc \in {"volume", "open"} : pc = IF new THEN "volume" ELSE "open"
  OBVIOUS
<1> DEFINE w == [V!Free EXCEPT !.pc = pc, !.op = "restore", !.row = b, !.store = s, !.new = new]
<1>2. /\ hand' = [hand EXCEPT ![h] = w]
      /\ hand[h].pc = "idle" /\ V!Crowds(s) /\ There(b)
      /\ UNCHANGED <<vol, second, vb, tar, helpers, took, filled, shared, astray, litter>>
  BY <1>1 DEF V!RestoreVolumeBackup, V!HasRoom, There
<1>3. /\ w \in HandRow /\ w.op = "restore" /\ w.pc \in {"volume", "open"} /\ w.row = b /\ w.store = s
  BY FreeRow DEF HandRow
<1> HIDE DEF w
<1>4. Fit(w)
  BY <1>3 DEF Fit
<1>5. crowded \subseteq crowded' /\ (s \notin crowded' => ~V!Busy(s))
  BY <1>2 DEF V!Crowds
<1> QED  BY <1>2, <1>3, <1>4, <1>5, RequestBegins

LEMMA UseFilesStep ==
    ASSUME VolumesInv, NEW h \in Hands, NEW s \in Stores, NEW op, V!UseFiles(h, s, op)
    PROVE  VolumesInv'
<1> DEFINE w == [V!Free EXCEPT !.pc = "helper", !.op = op, !.store = s]
<1>1. op \in {"read", "write", "stat"} /\ hand[h].pc = "idle" /\ hand' = [hand EXCEPT ![h] = w]
      /\ UNCHANGED <<vol, second, vb, tar, helpers, took, filled, shared, astray, litter>>
      /\ IF op = "write" THEN V!Crowds(s) ELSE UNCHANGED crowded
  BY DEF V!UseFiles, V!HasRoom
<1>2. /\ w \in HandRow /\ w.op = op /\ w.pc = "helper" /\ w.row = None /\ w.store = s
  BY <1>1, FreeRow DEF HandRow
<1> HIDE DEF w
<1>3. Fit(w)
  BY <1>1, <1>2 DEF Fit
<1>4. crowded \subseteq crowded' /\ (op = "write" /\ s \notin crowded' => ~V!Busy(s))
  BY <1>1 DEF V!Crowds
<1>5. w.row \notin Backups
  BY <1>2, VolumeConstants
<1> QED  BY <1>1, <1>2, <1>3, <1>4, <1>5, RequestBegins

\* A backup begins: its file may be that of other rows of the same second.
LEMMA BackupVolumeStep ==
    ASSUME VolumesInv, NEW h \in Hands, NEW s \in Stores, V!BackupVolume(h, s)
    PROVE  VolumesInv'
<1>1. PICK b \in Backups :
        /\ vb[b].state = "absent" /\ hand[h].pc = "idle"
        /\ vb' = [vb EXCEPT ![b] = [state |-> "running", store |-> s, at |-> second]]
        /\ hand' = [hand EXCEPT ![h] = [V!Free EXCEPT !.pc = "helper", !.op = "backup", !.row = b, !.store = s]]
        /\ shared' = shared \cup (IF \E a \in Backups : vb[a].store = s /\ vb[a].at = second
                                  THEN {b} \cup {a \in Backups : vb[a].store = s /\ vb[a].at = second} ELSE {})
        /\ UNCHANGED <<vol, second, tar, helpers, took, filled, astray, crowded, litter>>
  BY Zenon DEF V!BackupVolume, V!HasRoom
<1> DEFINE w == [V!Free EXCEPT !.pc = "helper", !.op = "backup", !.row = b, !.store = s]
           r == [state |-> "running", store |-> s, at |-> second]
<1>0. /\ VolumeShape /\ RowsInv /\ TookInv /\ FilesInv /\ FillInv /\ HelperInv
      /\ hand[h].op = "none" /\ hand[h].row = None /\ ~V!Helped(h)
  BY <1>1, Idle DEF VolumesInv
<1>2. w \in HandRow /\ w.pc = "helper" /\ w.op = "backup" /\ w.row = b /\ w.store = s
  BY FreeRow DEF HandRow
<1>3. r \in BackupRow /\ r.state = "running" /\ r.store = s /\ r.at = second /\ second \in Seconds
  BY <1>0 DEF BackupRow, VolumeShape
<1>4. hand' = [hand EXCEPT ![h] = w] /\ vb' = [vb EXCEPT ![b] = r]
  BY <1>1
<1> HIDE DEF w, r
<1>5. OnlyMoves(h) /\ hand'[h] = w /\ Fit(w)
  <2>1. Fit(w)
    BY <1>2 DEF Fit
  <2> QED  BY <1>0, <1>2, <1>4, <2>1, Replaced
<1>6. vb' \in [Backups -> BackupRow] /\ vb'[b] = r /\ \A a \in Backups \ {b} : vb'[a] = vb[a]
  BY <1>0, <1>3, <1>4 DEF VolumeShape
<1>7. took' = took
  BY <1>1
<1>8. VolumeShape'
  BY <1>0, <1>1, <1>5, <1>6, <1>7 DEF VolumeShape, OnlyMoves
<1>9. \A g \in Hands \ {h} : hand'[g] = hand[g] /\ hand[g].row # b
  BY <1>0, <1>1, <1>5 DEF OnlyMoves, RowsInv, There
<1>10. /\ \A a \in Backups : There(a)' <=> a = b \/ There(a)
       /\ \A a \in Backups \ {b} : V!File(a)' = V!File(a)
       /\ V!File(b)' = <<s, second>>
  BY <1>3, <1>6 DEF There, V!File
<1>11. RowsInv'
  <2>1. \A a \in Backups : There(a)' => vb'[a].store \in Stores /\ vb'[a].at \in Seconds
    BY <1>0, <1>3, <1>6, <1>10 DEF RowsInv
  <2>2. ASSUME NEW a \in Backups, NEW c \in Backups, a # c, There(a)', There(c)', V!File(a)' = V!File(c)'
        PROVE  a \in shared'
    <3>1. CASE a # b /\ c # b
      BY <1>0, <1>1, <1>10, <2>2, <3>1 DEF RowsInv
    <3>2. CASE a = b
      <4>1. vb[c].store = s /\ vb[c].at = second
        BY <1>10, <2>2, <3>2 DEF V!File
      <4> QED  BY <1>1, <3>2, <4>1
    <3>3. CASE c = b
      <4>1. vb[a].store = s /\ vb[a].at = second
        BY <1>10, <2>2, <3>3 DEF V!File
      <4> QED  BY <1>1, <4>1
    <3> QED  BY <3>1, <3>2, <3>3
  <2>3. ASSUME NEW g \in Hands
        PROVE  /\ hand'[g].row \in Backups => There(hand[g].row)'
               /\ hand'[g].op = "backup" =>
                     /\ vb'[hand'[g].row].state \in {"running", "deleted"}
                     /\ vb'[hand'[g].row].store = hand'[g].store
                     /\ vb'[hand'[g].row].state = "deleted" => hand'[g].row \in astray'
               /\ hand'[g].op = "delete" => vb'[hand'[g].row].state = "deleted"
    <3>1. CASE g = h
      BY <1>2, <1>3, <1>5, <1>6, <1>10, <3>1
    <3>2. CASE g # h
      <4>1. hand'[g] = hand[g] /\ hand[g].row # b
        BY <1>9, <3>2
      <4>2. hand[g].op \in {"backup", "delete"} => hand[g].row \in Backups \ {b}
        BY <1>0, <4>1 DEF VolumeShape, Fit
      <4>3. hand[g].row \in Backups => There(hand[g].row)'
        BY <1>0, <1>10, <4>1 DEF RowsInv
      <4>4. hand[g].op \in {"backup", "delete"} => vb'[hand[g].row] = vb[hand[g].row]
        BY <1>6, <4>2
      <4>5. /\ hand[g].op = "backup" =>
                  /\ vb[hand[g].row].state \in {"running", "deleted"}
                  /\ vb[hand[g].row].store = hand[g].store
                  /\ vb[hand[g].row].state = "deleted" => hand[g].row \in astray
            /\ hand[g].op = "delete" => vb[hand[g].row].state = "deleted"
        BY <1>0 DEF RowsInv
      <4>6. astray' = astray
        BY <1>1
      <4> QED  BY <4>1, <4>3, <4>4, <4>5, <4>6
    <3> QED  BY <3>1, <3>2
  <2>4. \A f, g \in Hands :
          hand'[f].op = "backup" /\ hand'[g].op = "backup" /\ hand'[f].row = hand'[g].row => f = g
    BY <1>0, <1>2, <1>5, <1>9 DEF RowsInv
  <2> QED  BY <2>1, <2>2, <2>3, <2>4 DEF RowsInv
<1>12. TookInv'
  <2>1. ASSUME NEW g \in Hands, hand'[g].op = "backup"
        PROVE  /\ vol'[hand'[g].store] = None => hand'[g].pc \in {"helper", "fail"}
               /\ hand'[g].pc = "copy" => vol'[hand'[g].store] \in took'[hand'[g].row]
               /\ hand'[g].pc = "close" => hand'[g].data \in V!Archives(took'[hand'[g].row])
    <3>1. CASE g = h
      BY <1>1, <1>2, <1>5, <1>7, <3>1
    <3>2. CASE g # h
      <4>1. hand'[g] = hand[g] /\ hand[g].row \in Backups \ {b}
        BY <1>0, <1>9, <2>1, <3>2 DEF VolumeShape, Fit
      <4> QED  BY <1>0, <1>1, <1>7, <2>1, <4>1 DEF TookInv
    <3> QED  BY <3>1, <3>2
  <2> QED  BY <2>1 DEF TookInv
<1>13. FilesInv'
  <2>1. ASSUME NEW g \in Hands, Saved(g)', hand'[g].row \notin shared' \cup astray'
        PROVE  (tar[V!File(hand[g].row)] \in V!Archives(took[hand[g].row]))'
    <3>1. g # h
      BY <1>2, <1>5, <2>1 DEF Saved
    <3>2. hand'[g] = hand[g] /\ Saved(g) /\ hand[g].row \in Backups \ {b} /\ hand[g].row \notin shared \cup astray
      BY <1>0, <1>1, <1>9, <2>1, <3>1 DEF VolumeShape, Fit, Saved
    <3>3. tar[V!File(hand[g].row)] \in V!Archives(took[hand[g].row])
      BY <1>0, <3>2 DEF FilesInv
    <3>4. V!File(hand[g].row)' = V!File(hand[g].row) /\ took'[hand'[g].row] = took[hand[g].row] /\ tar' = tar
      BY <1>1, <1>6, <1>7, <3>2 DEF V!File
    <3> QED  BY <3>3, <3>4
  <2>2. ASSUME NEW a \in Backups \ (shared' \cup astray')
        PROVE  /\ vb'[a].state = "completed" => tar'[V!File(a)'] \in V!Archives(took'[a])
               /\ vb'[a].state = "failed" => tar'[V!File(a)'] = None
               /\ vb'[a].state = "deleted" => tar'[V!File(a)'] = None \/ \E g \in Hands : Deletes(g, a)'
    <3>1. CASE a = b
      BY <1>3, <1>6, <3>1
    <3>2. CASE a # b
      <4>1. \A g \in Hands : Deletes(g, a) => Deletes(g, a)'
        BY <1>0, <1>9 DEF Deletes
      <4> QED  BY <1>0, <1>1, <1>6, <1>7, <1>10, <3>2, <4>1 DEF FilesInv
    <3> QED  BY <3>1, <3>2
  <2> QED  BY <2>1, <2>2 DEF FilesInv
<1>14. FillInv'
  <2>1. \A g \in Hands, t \in Stores : Fills(g, t)' => g # h /\ Fills(g, t) /\ hand'[g] = hand[g]
    BY <1>2, <1>5, <1>9 DEF Fills
  <2> QED  BY <1>0, <1>1, <2>1 DEF FillInv
<1>15. HelperInv'
  BY <1>0, <1>1, <1>2, <1>5, <1>9, AidsStay DEF V!Helped
<1> QED  BY <1>8, <1>11, <1>12, <1>13, <1>14, <1>15 DEF VolumesInv

\* A row is deleted, even one whose backup goes on: it is noted then.
LEMMA DeleteVolumeBackupStep ==
    ASSUME VolumesInv, NEW h \in Hands, NEW b \in Backups, V!DeleteVolumeBackup(h, b)
    PROVE  VolumesInv'
<1>1. /\ hand[h].pc = "idle" /\ V!Listed(b)
      /\ UNCHANGED <<vol, second, tar, helpers, took, filled, shared, crowded, litter>>
      /\ astray' = IF \E g \in Hands : hand[g].op = "backup" /\ hand[g].row = b THEN astray \cup {b} ELSE astray
  BY DEF V!DeleteVolumeBackup, V!HasRoom
<1> DEFINE w == [V!Free EXCEPT !.pc = "unlink", !.op = "delete", !.row = b]
           r == [vb[b] EXCEPT !.state = "deleted"]
<1>0. /\ VolumeShape /\ RowsInv /\ TookInv /\ FilesInv /\ FillInv /\ HelperInv
      /\ hand[h].op = "none" /\ ~V!Helped(h)
  BY <1>1, Idle DEF VolumesInv
<1>2. w \in HandRow /\ w.pc = "unlink" /\ w.op = "delete" /\ w.row = b
  BY FreeRow DEF HandRow
<1>3. r \in BackupRow /\ r.state = "deleted" /\ r.store = vb[b].store /\ r.at = vb[b].at
  BY <1>0 DEF BackupRow, VolumeShape
<1>4. hand' = [hand EXCEPT ![h] = w] /\ vb' = [vb EXCEPT ![b] = r]
  BY <1>0 DEF V!DeleteVolumeBackup, VolumeShape
<1> HIDE DEF w, r
<1>5. OnlyMoves(h) /\ hand'[h] = w
  <2>1. Fit(w)
    BY <1>2 DEF Fit
  <2> QED  BY <1>0, <1>2, <1>4, <2>1, Replaced
<1>6. vb' \in [Backups -> BackupRow] /\ vb'[b] = r /\ \A a \in Backups \ {b} : vb'[a] = vb[a]
  BY <1>0, <1>3, <1>4 DEF VolumeShape
<1>7. VolumeShape'
  BY <1>0, <1>1, <1>2, <1>5, <1>6 DEF VolumeShape, OnlyMoves
<1>8. \A a \in Backups : (There(a)' <=> There(a)) /\ V!File(a)' = V!File(a)
  BY <1>1, <1>3, <1>6 DEF There, V!File, V!Listed
<1>9. There(b) /\ astray \subseteq astray'
      /\ \A g \in Hands : hand[g].op = "backup" /\ hand[g].row = b => b \in astray'
  BY <1>1 DEF There, V!Listed
<1>10. \A g \in Hands \ {h} : hand'[g] = hand[g]
  BY <1>5 DEF OnlyMoves
<1>11. RowsInv'
  <2>1. /\ \A a \in Backups : There(a)' => vb'[a].store \in Stores /\ vb'[a].at \in Seconds
        /\ \A a, c \in Backups : a # c /\ There(a)' /\ There(c)' /\ V!File(a)' = V!File(c)' => a \in shared'
    BY <1>0, <1>1, <1>3, <1>6, <1>8 DEF RowsInv
  <2>2. ASSUME NEW g \in Hands
        PROVE  /\ hand'[g].row \in Backups => There(hand[g].row)'
               /\ hand'[g].op = "backup" =>
                     /\ vb'[hand'[g].row].state \in {"running", "deleted"}
                     /\ vb'[hand'[g].row].store = hand'[g].store
                     /\ vb'[hand'[g].row].state = "deleted" => hand'[g].row \in astray'
               /\ hand'[g].op = "delete" => vb'[hand'[g].row].state = "deleted"
    <3>1. CASE g = h
      BY <1>2, <1>3, <1>5, <1>6, <1>8, <1>9, <3>1
    <3>2. CASE g # h
      <4>1. hand'[g] = hand[g]
        BY <1>10, <3>2
      <4>2. hand[g].op \in {"backup", "delete"} => hand[g].row \in Backups
        BY <1>0 DEF VolumeShape, Fit
      <4>3. hand[g].row \in Backups => There(hand[g].row)'
        BY <1>0, <1>8, <4>1 DEF RowsInv
      <4>4. CASE hand[g].row = b
        BY <1>0, <1>3, <1>6, <1>9, <4>1, <4>2, <4>3, <4>4 DEF RowsInv
      <4>5. CASE hand[g].row # b
        BY <1>0, <1>6, <1>9, <4>1, <4>2, <4>3, <4>5 DEF RowsInv
      <4> QED  BY <4>4, <4>5
    <3> QED  BY <3>1, <3>2
  <2>3. \A f, g \in Hands :
          hand'[f].op = "backup" /\ hand'[g].op = "backup" /\ hand'[f].row = hand'[g].row => f = g
    BY <1>0, <1>2, <1>5, <1>10 DEF RowsInv
  <2> QED  BY <2>1, <2>2, <2>3 DEF RowsInv
<1>12. TookInv'
  <2>1. \A g \in Hands : hand'[g].op = "backup" => hand'[g] = hand[g]
    BY <1>2, <1>5, <1>10
  <2> QED  BY <1>0, <1>1, <2>1 DEF TookInv
<1>13. FilesInv'
  <2>1. ASSUME NEW g \in Hands, Saved(g)', hand'[g].row \notin shared' \cup astray'
        PROVE  (tar[V!File(hand[g].row)] \in V!Archives(took[hand[g].row]))'
    <3>1. hand'[g] = hand[g] /\ Saved(g) /\ hand[g].row \in Backups /\ hand[g].row \notin shared \cup astray
      BY <1>0, <1>1, <1>2, <1>5, <1>9, <1>10, <2>1 DEF VolumeShape, Fit, Saved
    <3> QED  BY <1>0, <1>1, <1>8, <3>1 DEF FilesInv
  <2>2. ASSUME NEW a \in Backups \ (shared' \cup astray')
        PROVE  /\ vb'[a].state = "completed" => tar'[V!File(a)'] \in V!Archives(took'[a])
               /\ vb'[a].state = "failed" => tar'[V!File(a)'] = None
               /\ vb'[a].state = "deleted" => tar'[V!File(a)'] = None \/ \E g \in Hands : Deletes(g, a)'
    <3>1. CASE a = b
      BY <1>2, <1>3, <1>5, <1>6, <3>1 DEF Deletes
    <3>2. CASE a # b
      <4>1. \A g \in Hands : Deletes(g, a) => Deletes(g, a)'
        BY <1>0, <1>10 DEF Deletes
      <4>2. a \in Backups \ (shared \cup astray)
        BY <1>1, <1>9
      <4> QED  BY <1>0, <1>1, <1>6, <1>8, <3>2, <4>1, <4>2 DEF FilesInv
    <3> QED  BY <3>1, <3>2
  <2> QED  BY <2>1, <2>2 DEF FilesInv
<1>14. FillInv'
  <2>1. \A g \in Hands, t \in Stores : Fills(g, t)' => Fills(g, t) /\ hand'[g] = hand[g]
    BY <1>2, <1>5, <1>10 DEF Fills
  <2> QED  BY <1>0, <1>1, <2>1 DEF FillInv
<1>15. HelperInv'
  BY <1>0, <1>1, <1>2, <1>5, <1>10, AidsStay DEF V!Helped
<1> QED  BY <1>7, <1>11, <1>12, <1>13, <1>14, <1>15 DEF VolumesInv

\* When the process dies, its requests are gone; rows and files stay, and what
\* was about to be removed is noted.
LEMMA VolumesDroppedStep == VolumesInv /\ V!VolumesDropped => VolumesInv'
<1> SUFFICES ASSUME VolumesInv, V!VolumesDropped PROVE VolumesInv'
  OBVIOUS
<1>0. VolumeShape /\ RowsInv /\ TookInv /\ FilesInv /\ FillInv /\ HelperInv
  BY DEF VolumesInv
<1>1. /\ hand' = [h \in Hands |-> V!Free]
      /\ litter' = litter + V!Cardinality({h \in Hands : V!Helped(h)})
      /\ astray' = astray \cup {hand[h].row : h \in {h \in Hands : hand[h].pc \in {"fail", "unlink"}}}
      /\ UNCHANGED <<vol, second, vb, tar, helpers, took, filled, shared, crowded>>
  BY DEF V!VolumesDropped
<1>2. \A h \in Hands : hand'[h] = V!Free
  BY <1>1
<1>3. VolumeShape'
  BY <1>0, <1>1, FreeRow DEF VolumeShape
<1>4. RowsInv'
  BY <1>0, <1>1, <1>2, FreeRow, VolumeConstants DEF RowsInv, There, V!File
<1>5. TookInv' /\ FillInv'
  BY <1>0, <1>1, <1>2, FreeRow DEF TookInv, FillInv, Fills
<1>6. FilesInv'
  <2>1. \A b \in Backups : V!File(b)' = V!File(b)
    BY <1>1 DEF V!File
  <2>2. \A h \in Hands, b \in Backups : Deletes(h, b) => b \in astray'
    BY <1>0, <1>1 DEF Deletes, VolumeShape, Fit
  <2>3. \A h \in Hands : ~Saved(h)'
    BY <1>2, FreeRow DEF Saved
  <2>4. ASSUME NEW b \in Backups \ (shared' \cup astray')
        PROVE  /\ vb'[b].state = "completed" => tar'[V!File(b)'] \in V!Archives(took'[b])
               /\ vb'[b].state = "failed" => tar'[V!File(b)'] = None
               /\ vb'[b].state = "deleted" => tar'[V!File(b)'] = None
    <3>1. b \in Backups \ (shared \cup astray) /\ \A h \in Hands : ~Deletes(h, b)
      BY <1>1, <2>2
    <3> QED  BY <1>0, <1>1, <2>1, <3>1 DEF FilesInv
  <2> QED  BY <2>3, <2>4 DEF FilesInv
<1>7. HelperInv'
  <2>1. Aids' = {}
    BY <1>2, FreeRow DEF Aids, V!Helped
  <2>2. V!Cardinality({h \in Hands : V!Helped(h)}) = Cardinality(Aids)
    BY Zenon DEF V!Cardinality, Cardinality, Aids
  <2>3. Cardinality(Aids) \in Nat
    BY VolumeConstants, FS_Subset, FS_CardinalityType DEF Aids
  <2>4. Cardinality(Aids') = 0
    BY <2>1, FS_EmptySet
  <2> QED  BY <1>0, <1>1, <2>2, <2>3, <2>4 DEF HelperInv
<1> QED  BY <1>3, <1>4, <1>5, <1>6, <1>7 DEF VolumesInv

LEMMA VolumesUntouched == VolumesInv /\ UNCHANGED volumeVars => VolumesInv'
<1> SUFFICES ASSUME VolumesInv, UNCHANGED volumeVars PROVE VolumesInv'
  OBVIOUS
<1>1. UNCHANGED <<vol, second, vb, tar, hand, helpers, took, filled, shared, astray, crowded, litter>>
  BY DEF volumeVars
<1>2. VolumeShape' /\ RowsInv' /\ TookInv'
  BY <1>1 DEF VolumesInv, VolumeShape, RowsInv, TookInv, There, V!File
<1>3. FilesInv' /\ FillInv'
  BY <1>1 DEF VolumesInv, FilesInv, FillInv, Saved, Deletes, Fills, V!File
<1>4. HelperInv'
  BY <1>1, AidsStay DEF VolumesInv, V!Helped
<1> QED  BY <1>2, <1>3, <1>4 DEF VolumesInv

LEMMA RequestSteps ==
    ASSUME VolumesInv, NEW h \in Hands,
           \/ \E s \in Stores :
                 \/ V!BackupVolume(h, s) \/ \E op \in {"read", "write", "stat"} : V!UseFiles(h, s, op)
                 \/ \E b \in Backups, new \in BOOLEAN : V!RestoreVolumeBackup(h, b, s, new)
           \/ \E b \in Backups : V!DeleteVolumeBackup(h, b)
    PROVE  VolumesInv'
BY BackupVolumeStep, UseFilesStep, RestoreVolumeBackupStep, DeleteVolumeBackupStep

LEMMA VolumeBackupSteps == VolumesInv /\ VolumeBackup => VolumesInv'
BY RequestSteps, MakeHelperStep, RemoveHelperStep, StreamStep, CopyStep, CloseStep, CompleteStep, FailStep,
   CreateVolumeStep, OpenStep, ClearStep, UploadStep, UnlinkStep, BrowseSteps, FileChangeStep, WriteStep,
   SecondSteps, Zenon DEF VolumeBackup

LEMMA VolumesInvSteps == VolumesInv /\ [Next]_vars => VolumesInv'
<1> SUFFICES ASSUME VolumesInv, [Next]_vars PROVE VolumesInv'
  OBVIOUS
<1>0. ASSUME UNCHANGED volumeVars PROVE VolumesInv'
  BY <1>0, VolumesUntouched
<1>1. CASE Pages \/ Cron \/ Compose
  BY <1>0, <1>1, PagesQuiet, CronQuiet, ComposeQuiet
<1>2. CASE Retain \/ Alert \/ EditHba \/ MakeDatabases \/ Settings \/ Adopt \/ Drive
  BY <1>0, <1>2, RetainQuiet, AlertQuiet, EditHbaQuiet, MakeDatabasesQuiet, SettingsQuiet, AdoptQuiet,
     DriveQuiet DEF dockerVars
<1>3. CASE VolumeBackup
  BY <1>3, VolumeBackupSteps
<1>4. CASE Crash
  BY <1>4, VolumesDroppedStep DEF Crash
<1>5. CASE UNCHANGED vars
  BY <1>0, <1>5 DEF vars, dockerVars
<1> QED  BY <1>1, <1>2, <1>3, <1>4, <1>5 DEF Next

LEMMA VolumesInvHolds == VolumesInv => VolumesBackedUp
<1> SUFFICES ASSUME VolumesInv PROVE VolumesBackedUp
  OBVIOUS
<1>0. VolumeShape /\ FilesInv /\ FillInv /\ HelperInv
  BY DEF VolumesInv
<1>1. V!FileFollowsRow
  <2>1. \A h \in Hands, b \in Backups : Deletes(h, b) => V!InUse(b)
    BY <1>0 DEF Deletes, V!InUse, VolumeShape, Fit
  <2> QED  BY <1>0, <2>1 DEF FilesInv, V!FileFollowsRow
<1>2. V!RestoredIsBackup
  BY <1>0 DEF FillInv, V!RestoredIsBackup
<1>3. V!NoHelperLeft
  BY <1>0, AidsCounted DEF HelperInv
<1> QED  BY <1>1, <1>2, <1>3 DEF VolumesBackedUp

\* A completed backup of a volume has a file with what the volume held while it
\* was copied, or, if it was written to meanwhile, some of each; a failed or
\* deleted one has none; a restore that succeeded left the backup and nothing
\* else, in a directory of the volume; and no helper outlives its request:
\* however many requests go on, break off or are abandoned, whatever applications
\* write, and whenever the process dies, but for the rows, volumes and helpers
\* that are noted.
THEOREM VolumeBackupsAreSound == Spec => []VolumesBackedUp
BY VolumesInitially, VolumesInvSteps, VolumesInvHolds, PTL DEF Spec

-----------------------------------------------------------------------------
(* The stacks of docker compose *)

Requests == [pc : {"idle", "write", "up", "save", "down", "delete", "erase"},
             stack : Stacks \cup {None}, content : Files \cup {None},
             status : {"absent", "deployed", "error"}]
Sat(x) ==
    /\ x.pc = "idle" => x.stack = None
    /\ x.pc # "idle" => x.stack \in Stacks
    /\ x.pc \in {"write", "up", "save"} => x.content \in Files

Running == [K!Services -> Files \cup {None}]
Projects == [content : Files \cup {None}, status : {"absent", "deployed", "error"}]

\* What a stack runs is what its row shows, or what "down" left of it.
Follows(k) ==
    /\ project[k].status = "deployed" =>
          \/ up[k] = K!Started(project[k].content)
          \/ k \in lowered /\ \A s \in K!Services : up[k][s] \in {K!Started(project[k].content)[s], None}
    /\ project[k].status = "absent" => \A s \in K!Services : up[k][s] = None \/ s \in orphans[k]

\* What else than the services of its file a stack runs is known.
Remains(k) ==
    yml[k] # None => \A s \in K!Services \ Serves[yml[k]] : up[k][s] = None \/ s \in orphans[k]

\* How far the one request about a stack has come, when files, containers and
\* orphans are y, u and o
ReachedIn(x, y, u, o) ==
    /\ x.pc = "up" => y[x.stack] = x.content
    /\ x.pc = "save" => x.status = "error" \/ (x.status = "deployed" /\ u[x.stack] = K!Started(x.content))
    /\ x.pc \in {"delete", "erase"} => \A s \in K!Services : u[x.stack][s] = None \/ s \in o[x.stack]
Reached(x) == ReachedIn(x, yml, up, orphans)

StackInv ==
    /\ K!StackTypeOK /\ \A d \in Deployers : Sat(deploy[d])
    /\ \A k \in Stacks \ tangled : \A d, e \in Deployers : K!Of(d) = k /\ K!Of(e) = k => d = e
    /\ \A k \in Stacks \ (tangled \cup unsaved) :
          /\ Follows(k) \/ \E d \in Deployers : K!Of(d) = k /\ deploy[d].pc = "save"
          /\ Remains(k) \/ \E d \in Deployers : K!Of(d) = k /\ deploy[d].pc = "up"
    /\ \A d \in Deployers : K!Of(d) \in Stacks \ (tangled \cup unsaved) => Reached(deploy[d])

LEMMA StackConstants == None \notin Stacks \cup Files
BY OperationsAssumption DEF K!StackAssumption

LEMMA NoDeployIsOne ==
    K!NoDeploy \in Requests /\ Sat(K!NoDeploy) /\ K!NoDeploy.pc = "idle" /\ K!NoDeploy.stack = None
BY DEF K!NoDeploy, Requests, Sat

\* The host's side of a stack, and the rows
HostTyped ==
    /\ yml \in [Stacks -> Files \cup {None}] /\ up \in [Stacks -> Running]
    /\ project \in [Stacks -> Projects]
    /\ lowered \subseteq Stacks /\ orphans \in [Stacks -> SUBSET K!Services]

LEMMA StackTyped ==
    StackInv => /\ HostTyped /\ deploy \in [Deployers -> Requests]
                /\ tangled \subseteq Stacks /\ unsaved \subseteq Stacks
BY DEF StackInv, K!StackTypeOK, Requests, HostTyped, Running, Projects

LEMMA StackTypedBack ==
    HostTyped' /\ deploy' \in [Deployers -> Requests] /\ tangled' \subseteq Stacks /\ unsaved' \subseteq Stacks
        => K!StackTypeOK'
BY DEF K!StackTypeOK, Requests, HostTyped, Running, Projects

LEMMA NothingIsOne == K!Nothing \in Running /\ \A s \in K!Services : K!Nothing[s] = None
BY DEF K!Nothing, Running

LEMMA StartedIsOne ==
    ASSUME NEW f \in Files
    PROVE  /\ K!Started(f) \in Running
           /\ \A s \in K!Services : K!Started(f)[s] = IF s \in Serves[f] THEN f ELSE None
BY DEF K!Started, Running

LEMMA StacksInitially == Init => StackInv
<1> SUFFICES ASSUME K!StackInit PROVE StackInv
  BY DEF Init
<1>1. \A d \in Deployers : deploy[d] = K!NoDeploy
  BY DEF K!StackInit
<1>2. K!StackTypeOK
  BY NoDeployIsOne, NothingIsOne DEF K!StackInit, K!StackTypeOK, Requests, K!NoProject, Running
<1>3. \A k \in Stacks : Follows(k) /\ Remains(k)
  BY NothingIsOne DEF K!StackInit, Follows, Remains, K!NoProject
<1> QED  BY <1>1, <1>2, <1>3, NoDeployIsOne, StackConstants DEF StackInv, Reached, ReachedIn, K!Of

\* The other stacks stay as they are.
OthersStand(k) ==
    /\ HostTyped'
    /\ \A j \in Stacks \ {k} :
          /\ yml'[j] = yml[j] /\ up'[j] = up[j] /\ project'[j] = project[j] /\ orphans'[j] = orphans[j]
          /\ j \in lowered' <=> j \in lowered

\* A request goes on about its stack, or answers.
LEMMA StackGoesOn ==
    ASSUME StackInv, NEW d \in Deployers, NEW k \in Stacks, K!Of(d) = k,
           NEW w \in Requests, Sat(w), w.stack \in {k, None}, deploy' = [deploy EXCEPT ![d] = w],
           OthersStand(k), tangled' = tangled, unsaved \subseteq unsaved', unsaved' \subseteq Stacks,
           k \notin tangled \cup unsaved' => /\ Follows(k)' \/ (w.stack = k /\ w.pc = "save")
                                             /\ Remains(k)' \/ (w.stack = k /\ w.pc = "up")
                                             /\ w.stack = k => ReachedIn(w, yml', up', orphans')
    PROVE  StackInv'
<1>1. deploy' \in [Deployers -> Requests] /\ deploy'[d] = w /\ \A e \in Deployers \ {d} : deploy'[e] = deploy[e]
  BY StackTyped
<1>2. K!StackTypeOK'
  BY <1>1, StackTyped, StackTypedBack DEF OthersStand
<1>3. \A e \in Deployers : Sat(deploy'[e])
  BY <1>1 DEF StackInv
<1>4. ASSUME NEW j \in Stacks \ tangled', NEW a \in Deployers, NEW e \in Deployers,
             deploy'[a].stack = j, deploy'[e].stack = j
      PROVE  a = e
  <2>1. K!Of(a) = j /\ K!Of(e) = j
    BY <1>1, <1>4, StackConstants DEF K!Of
  <2> QED  BY <1>4, <2>1 DEF StackInv
<1>5. ASSUME NEW j \in Stacks \ (tangled' \cup unsaved')
      PROVE  /\ Follows(j)' \/ \E e \in Deployers : deploy'[e].stack = j /\ deploy'[e].pc = "save"
             /\ Remains(j)' \/ \E e \in Deployers : deploy'[e].stack = j /\ deploy'[e].pc = "up"
  <2>1. CASE j = k
    BY <1>1, <2>1
  <2>2. CASE j # k
    <3>1. /\ Follows(j) \/ \E e \in Deployers : K!Of(e) = j /\ deploy[e].pc = "save"
          /\ Remains(j) \/ \E e \in Deployers : K!Of(e) = j /\ deploy[e].pc = "up"
      BY <1>5 DEF StackInv
    <3>2. Follows(j) => Follows(j)'
      BY <2>2 DEF Follows, OthersStand
    <3>3. Remains(j) => Remains(j)'
      BY <2>2 DEF Remains, OthersStand
    <3> QED  BY <1>1, <2>2, <3>1, <3>2, <3>3 DEF K!Of
  <2> QED  BY <2>1, <2>2
<1>6. ASSUME NEW e \in Deployers, deploy'[e].stack \in Stacks \ (tangled' \cup unsaved')
      PROVE  ReachedIn(deploy'[e], yml', up', orphans')
  <2>1. CASE e = d
    <3>1. w.stack = k
      BY <1>1, <1>6, <2>1, StackConstants
    <3> QED  BY <1>1, <1>6, <2>1, <3>1 DEF ReachedIn
  <2>2. CASE e # d
    <3>1. deploy'[e] = deploy[e] /\ K!Of(e) \in Stacks \ (tangled \cup unsaved)
      BY <1>1, <1>6, <2>2 DEF K!Of
    <3>2. K!Of(e) # k
      BY <2>2, <3>1 DEF StackInv
    <3>3. Reached(deploy[e])
      BY <3>1 DEF StackInv
    <3> QED  BY <3>1, <3>2, <3>3 DEF Reached, ReachedIn, K!Of, OthersStand
  <2> QED  BY <2>1, <2>2
<1> QED  BY <1>2, <1>3, <1>4, <1>5, <1>6 DEF StackInv, Reached, K!Of

LEMMA StackAnswers ==
    ASSUME StackInv, NEW d \in Deployers, NEW k \in Stacks, K!Of(d) = k, K!Gone(d), OthersStand(k),
           tangled' = tangled, unsaved \subseteq unsaved', unsaved' \subseteq Stacks,
           k \notin tangled \cup unsaved' => Follows(k)' /\ Remains(k)'
    PROVE  StackInv'
BY StackGoesOn, NoDeployIsOne, StackConstants DEF K!Gone

LEMMA StackMovesTo ==
    ASSUME StackInv, NEW d \in Deployers, NEW k \in Stacks, K!Of(d) = k, NEW pc, K!Goes(d, pc),
           pc \in {"up", "delete", "erase"}, pc = "up" => deploy[d].content \in Files,
           OthersStand(k), UNCHANGED <<tangled, unsaved>>,
           k \notin tangled \cup unsaved =>
               /\ Follows(k)'
               /\ pc = "up" => yml'[k] = deploy[d].content
               /\ pc # "up" => Remains(k)' /\ \A s \in K!Services : up'[k][s] = None \/ s \in orphans'[k]
    PROVE  StackInv'
<1> DEFINE w == [deploy[d] EXCEPT !.pc = pc]
<1>1. deploy[d] \in Requests
  BY StackTyped
<1>2. w \in Requests /\ w.pc = pc /\ w.stack = k /\ w.content = deploy[d].content
  BY <1>1 DEF Requests, K!Of
<1>3. deploy' = [deploy EXCEPT ![d] = w]
  BY StackTyped DEF K!Goes
<1> HIDE DEF w
<1>4. Sat(w) /\ (k \notin tangled \cup unsaved => ReachedIn(w, yml', up', orphans'))
  BY <1>2 DEF Sat, ReachedIn
<1> QED  BY <1>2, <1>3, <1>4, StackTyped, StackGoesOn

\* A request begins: the second one about a stack is noted.
LEMMA AsksStep ==
    ASSUME StackInv, NEW d \in Deployers, NEW k \in Stacks, NEW pc \in {"write", "down"},
           NEW content \in Files \cup {None}, pc = "write" => content \in Files,
           K!Asks(d, k, pc, content)
    PROVE  StackInv'
<1> DEFINE w == [K!NoDeploy EXCEPT !.pc = pc, !.stack = k, !.content = content]
<1>1. /\ deploy[d].pc = "idle" /\ deploy' = [deploy EXCEPT ![d] = w]
      /\ tangled' = IF \E e \in Deployers : K!Of(e) = k THEN tangled \cup {k} ELSE tangled
      /\ UNCHANGED <<yml, up, project, unsaved, lowered, orphans>>
  BY DEF K!Asks, K!At
<1>2. w \in Requests /\ w.pc = pc /\ w.stack = k /\ w.content = content
  BY NoDeployIsOne DEF Requests
<1> HIDE DEF w
<1>3. /\ deploy' \in [Deployers -> Requests] /\ deploy'[d] = w
      /\ \A e \in Deployers \ {d} : deploy'[e] = deploy[e]
  BY <1>1, <1>2, StackTyped
<1>4. K!Of(d) = None
  BY <1>1 DEF StackInv, Sat, K!Of
<1>5. K!StackTypeOK' /\ \A e \in Deployers : Sat(deploy'[e])
  <2>1. HostTyped' /\ tangled' \subseteq Stacks /\ unsaved' \subseteq Stacks
    BY <1>1, StackTyped DEF HostTyped
  <2> QED  BY <1>2, <1>3, <2>1, StackTypedBack DEF StackInv, Sat
<1>6. \A j \in Stacks \ tangled' : \A a, e \in Deployers : deploy'[a].stack = j /\ deploy'[e].stack = j => a = e
  BY <1>1, <1>2, <1>3 DEF StackInv, K!Of
<1>7. \A j \in Stacks \ (tangled' \cup unsaved') :
         /\ Follows(j)' \/ \E e \in Deployers : deploy'[e].stack = j /\ deploy'[e].pc = "save"
         /\ Remains(j)' \/ \E e \in Deployers : deploy'[e].stack = j /\ deploy'[e].pc = "up"
  <2> SUFFICES ASSUME NEW j \in Stacks \ (tangled' \cup unsaved')
               PROVE  /\ Follows(j)' \/ \E e \in Deployers : deploy'[e].stack = j /\ deploy'[e].pc = "save"
                      /\ Remains(j)' \/ \E e \in Deployers : deploy'[e].stack = j /\ deploy'[e].pc = "up"
    OBVIOUS
  <2>1. /\ Follows(j) \/ \E e \in Deployers : K!Of(e) = j /\ deploy[e].pc = "save"
        /\ Remains(j) \/ \E e \in Deployers : K!Of(e) = j /\ deploy[e].pc = "up"
    BY <1>1 DEF StackInv
  <2>2. (Follows(j) => Follows(j)') /\ (Remains(j) => Remains(j)')
    BY <1>1 DEF Follows, Remains
  <2> QED  BY <1>3, <1>4, <2>1, <2>2, StackConstants DEF K!Of
<1>8. \A e \in Deployers :
         deploy'[e].stack \in Stacks \ (tangled' \cup unsaved') => ReachedIn(deploy'[e], yml', up', orphans')
  BY <1>1, <1>2, <1>3 DEF StackInv, Reached, ReachedIn, K!Of
<1> QED  BY <1>5, <1>6, <1>7, <1>8 DEF StackInv, Reached, K!Of

LEMMA StackOf ==
    ASSUME StackInv, NEW d \in Deployers, deploy[d].pc # "idle"
    PROVE  /\ K!Of(d) \in Stacks /\ Sat(deploy[d]) /\ deploy[d] \in Requests
           /\ K!Of(d) \notin tangled \cup unsaved =>
                 /\ Reached(deploy[d])
                 /\ deploy[d].pc # "save" => Follows(K!Of(d))
                 /\ deploy[d].pc # "up" => Remains(K!Of(d))
<1>1. K!Of(d) \in Stacks /\ Sat(deploy[d]) /\ deploy[d] \in Requests
  BY StackTyped DEF StackInv, Sat, K!Of
<1>2. ASSUME K!Of(d) \notin tangled \cup unsaved
      PROVE  /\ deploy[d].pc # "save" => Follows(K!Of(d))
             /\ deploy[d].pc # "up" => Remains(K!Of(d))
  <2>1. /\ Follows(K!Of(d)) \/ \E e \in Deployers : K!Of(e) = K!Of(d) /\ deploy[e].pc = "save"
        /\ Remains(K!Of(d)) \/ \E e \in Deployers : K!Of(e) = K!Of(d) /\ deploy[e].pc = "up"
    BY <1>1, <1>2 DEF StackInv
  <2>2. \A e \in Deployers : K!Of(e) = K!Of(d) => e = d
    BY <1>1, <1>2 DEF StackInv
  <2> QED  BY <2>1, <2>2
<1> QED  BY <1>1, <1>2 DEF StackInv

LEMMA WriteFileStep == ASSUME StackInv, NEW d \in Deployers, K!WriteFile(d) PROVE StackInv'
<1>1. deploy[d].pc = "write" /\ UNCHANGED <<up, project, tangled, unsaved, lowered, orphans>>
  BY DEF K!WriteFile, K!At
<1>2. PICK k \in Stacks : k = K!Of(d)
  BY <1>1, StackOf
<1>3. deploy[d].content \in Files /\ (k \notin tangled \cup unsaved => Follows(k) /\ Remains(k))
  BY <1>1, <1>2, StackOf DEF Sat
<1>4. Follows(k) => Follows(k)'
  BY <1>1 DEF Follows
<1>5. CASE yml' = [yml EXCEPT ![k] = deploy[d].content] /\ K!Goes(d, "up")
  <2>1. yml'[k] = deploy[d].content /\ OthersStand(k)
    BY <1>1, <1>3, <1>5, StackTyped DEF OthersStand, HostTyped
  <2> QED  BY <1>1, <1>2, <1>3, <1>4, <1>5, <2>1, StackMovesTo
<1>6. CASE yml' \in {yml, [yml EXCEPT ![k] = None]} /\ K!Gone(d)
  <2>1. (yml'[k] = yml[k] \/ yml'[k] = None) /\ OthersStand(k)
    BY <1>1, <1>6, StackTyped DEF OthersStand, HostTyped
  <2>2. Remains(k) => Remains(k)'
    BY <1>1, <2>1 DEF Remains
  <2> QED  BY <1>1, <1>2, <1>3, <1>4, <1>6, <2>1, <2>2, StackTyped, StackAnswers
<1> QED  BY <1>2, <1>5, <1>6 DEF K!WriteFile

\* "up" has ended: the result is to be saved.
LEMMA ResultGoes ==
    ASSUME StackInv, NEW d \in Deployers, deploy[d].pc = "up", NEW k \in Stacks, K!Of(d) = k,
           NEW st \in {"deployed", "error"}, K!Result(d, st), OthersStand(k), UNCHANGED <<tangled, unsaved>>,
           k \notin tangled \cup unsaved => /\ Remains(k)'
                                            /\ st = "deployed" => up'[k] = K!Started(deploy[d].content)
    PROVE  StackInv'
<1> DEFINE w == [deploy[d] EXCEPT !.pc = "save", !.status = st]
<1>1. deploy[d].content \in Files /\ deploy[d] \in Requests
  BY StackOf DEF Sat
<1>2. w \in Requests /\ w.pc = "save" /\ w.status = st /\ w.stack = k /\ w.content = deploy[d].content
  BY <1>1 DEF Requests, K!Of
<1>3. deploy' = [deploy EXCEPT ![d] = w]
  BY <1>1 DEF Requests, K!Result
<1> HIDE DEF w
<1>4. Sat(w) /\ (k \notin tangled \cup unsaved => ReachedIn(w, yml', up', orphans'))
  BY <1>1, <1>2 DEF Sat, ReachedIn
<1> QED  BY <1>2, <1>3, <1>4, StackTyped, StackGoesOn

LEMMA UpWorksStep == ASSUME StackInv, NEW d \in Deployers, K!UpWorks(d) PROVE StackInv'
<1>1. deploy[d].pc = "up" /\ K!Result(d, "deployed") /\ UNCHANGED <<yml, project, tangled, unsaved>>
  BY DEF K!UpWorks, K!At
<1>2. PICK k \in Stacks : k = K!Of(d)
  BY <1>1, StackOf
<1>3. /\ yml[k] # None /\ up' = [up EXCEPT ![k] = K!Started(yml[k])]
      /\ lowered' = lowered \ {k} /\ orphans' = [orphans EXCEPT ![k] = {}]
  BY <1>2 DEF K!UpWorks
<1>4. yml[k] \in Files
  BY <1>3, StackTyped DEF HostTyped
<1>5. OthersStand(k) /\ up'[k] = K!Started(yml[k])
  BY <1>1, <1>3, <1>4, StackTyped, StartedIsOne DEF OthersStand, HostTyped
<1>6. Remains(k)'
  BY <1>1, <1>4, <1>5, StartedIsOne DEF Remains
<1>7. k \notin tangled \cup unsaved => yml[k] = deploy[d].content
  BY <1>1, <1>2, StackOf DEF Reached, ReachedIn, K!Of
<1> QED  BY <1>1, <1>2, <1>5, <1>6, <1>7, ResultGoes

LEMMA UpFailsStep == ASSUME StackInv, NEW d \in Deployers, K!UpFails(d) PROVE StackInv'
<1>1. deploy[d].pc = "up" /\ K!Result(d, "error") /\ UNCHANGED <<yml, project, tangled, unsaved, lowered>>
  BY DEF K!UpFails, K!At
<1>2. PICK k \in Stacks : k = K!Of(d)
  BY <1>1, StackOf
<1>3. CASE yml[k] = None /\ UNCHANGED <<up, orphans>>
  <2>1. OthersStand(k)
    BY <1>1, <1>3, StackTyped DEF OthersStand, HostTyped
  <2>2. Remains(k)'
    BY <1>1, <1>3 DEF Remains
  <2> QED  BY <1>1, <1>2, <2>1, <2>2, ResultGoes
<1>4. ASSUME NEW u \in Running, up' = [up EXCEPT ![k] = u],
             orphans' = [orphans EXCEPT ![k] = {s \in K!Services \ Serves[yml[k]] : up'[k][s] # None}]
      PROVE  StackInv'
  <2>1. OthersStand(k) /\ orphans'[k] = {s \in K!Services \ Serves[yml[k]] : up'[k][s] # None}
    BY <1>1, <1>4, StackTyped DEF OthersStand, HostTyped
  <2>2. Remains(k)'
    BY <1>1, <2>1 DEF Remains
  <2> QED  BY <1>1, <1>2, <2>1, <2>2, ResultGoes
<1>5. \/ yml[k] = None /\ UNCHANGED <<up, orphans>>
      \/ \E u \in Running :
            /\ up' = [up EXCEPT ![k] = u]
            /\ orphans' = [orphans EXCEPT ![k] = {s \in K!Services \ Serves[yml[k]] : up'[k][s] # None}]
  BY <1>2 DEF K!UpFails, K!HalfWay, Running
<1> QED  BY <1>3, <1>4, <1>5

LEMMA SaveStep == ASSUME StackInv, NEW d \in Deployers, K!Save(d) PROVE StackInv'
<1>1. deploy[d].pc = "save" /\ K!Gone(d) /\ UNCHANGED <<yml, up, tangled, lowered, orphans>>
  BY DEF K!Save, K!At
<1>2. PICK k \in Stacks : k = K!Of(d)
  BY <1>1, StackOf
<1>3. deploy[d] \in Requests /\ (k \notin tangled \cup unsaved => Reached(deploy[d]) /\ Remains(k))
  BY <1>1, <1>2, StackOf
<1>4. Remains(k) => Remains(k)'
  BY <1>1 DEF Remains
<1>5. CASE /\ project' = [project EXCEPT ![k] = [content |-> deploy[d].content, status |-> deploy[d].status]]
           /\ UNCHANGED unsaved
  <2>1. project'[k] = [content |-> deploy[d].content, status |-> deploy[d].status] /\ OthersStand(k)
    BY <1>1, <1>3, <1>5, StackTyped DEF Requests, OthersStand, HostTyped, Projects
  <2>2. k \notin tangled \cup unsaved => Follows(k)'
    BY <1>1, <1>2, <1>3, <2>1 DEF Reached, ReachedIn, Follows, K!Of
  <2> QED  BY <1>1, <1>2, <1>3, <1>4, <1>5, <2>1, <2>2, StackTyped, StackAnswers
<1>6. CASE UNCHANGED project /\ unsaved' = unsaved \cup {k}
  <2>1. OthersStand(k) /\ unsaved' \subseteq Stacks
    BY <1>1, <1>6, StackTyped DEF OthersStand, HostTyped
  <2> QED  BY <1>1, <1>2, <1>6, <2>1, StackAnswers
<1> QED  BY <1>2, <1>5, <1>6 DEF K!Save

LEMMA DownStep == ASSUME StackInv, NEW d \in Deployers, K!Down(d) PROVE StackInv'
<1>1. deploy[d].pc = "down" /\ UNCHANGED <<yml, project, tangled, unsaved, orphans>>
  BY DEF K!Down, K!At
<1>2. PICK k \in Stacks : k = K!Of(d)
  BY <1>1, StackOf
<1>3. k \notin tangled \cup unsaved => Follows(k) /\ Remains(k)
  BY <1>1, <1>2, StackOf
<1>4. PICK gone \in SUBSET K!Services :
        /\ up' = [up EXCEPT ![k] = [s \in K!Services |-> IF s \in gone THEN None ELSE up[k][s]]]
        /\ \/ K!Gone(d)
           \/ K!Goes(d, "delete") /\ yml[k] # None /\ gone = K!Services \cap Serves[yml[k]]
  <2>1. CASE yml[k] = None /\ UNCHANGED up /\ K!Gone(d)
    <3> DEFINE all == {}
    <3>1. up' = [up EXCEPT ![k] = [s \in K!Services |-> IF s \in all THEN None ELSE up[k][s]]]
      BY <2>1, StackTyped DEF HostTyped, Running
    <3>2. all \in SUBSET K!Services
      OBVIOUS
    <3> HIDE DEF all
    <3> QED  BY <2>1, <3>1, <3>2
  <2>2. CASE yml[k] # None /\ up' = K!Without(k, Serves[yml[k]]) /\ K!Goes(d, "delete")
    <3> DEFINE all == K!Services \cap Serves[yml[k]]
    <3>1. up' = [up EXCEPT ![k] = [s \in K!Services |-> IF s \in all THEN None ELSE up[k][s]]]
      BY <2>2 DEF K!Without
    <3> HIDE DEF all
    <3> QED  BY <2>2, <3>1 DEF all
  <2>3. ASSUME yml[k] # None, K!Gone(d), NEW some \in SUBSET Serves[yml[k]], up' = K!Without(k, some)
        PROVE  \E gone \in SUBSET K!Services :
                  up' = [up EXCEPT ![k] = [s \in K!Services |-> IF s \in gone THEN None ELSE up[k][s]]]
    <3> DEFINE all == K!Services \cap some
    <3>1. up' = [up EXCEPT ![k] = [s \in K!Services |-> IF s \in all THEN None ELSE up[k][s]]]
      BY <2>3 DEF K!Without
    <3> HIDE DEF all
    <3> QED  BY <3>1 DEF all
  <2> QED  BY <1>2, <2>1, <2>2, <2>3 DEF K!Down
<1>5. lowered' = lowered \cup {k}
  BY <1>2 DEF K!Down
<1>6. /\ OthersStand(k) /\ k \in lowered'
      /\ \A s \in K!Services : up'[k][s] = IF s \in gone THEN None ELSE up[k][s]
  <2>1. up' \in [Stacks -> Running]
    BY <1>4, StackTyped, StackConstants DEF HostTyped, Running
  <2>2. \A s \in K!Services : up'[k][s] = IF s \in gone THEN None ELSE up[k][s]
    BY <1>4, StackTyped DEF HostTyped
  <2> QED  BY <1>1, <1>4, <1>5, <2>1, <2>2, StackTyped DEF OthersStand, HostTyped
<1>7. Follows(k) => Follows(k)'
  BY <1>1, <1>6 DEF Follows
<1>8. Remains(k) => Remains(k)'
  BY <1>1, <1>6 DEF Remains
<1>9. CASE K!Goes(d, "delete") /\ yml[k] # None /\ gone = K!Services \cap Serves[yml[k]]
  <2>1. Remains(k) => \A s \in K!Services : up'[k][s] = None \/ s \in orphans'[k]
    BY <1>1, <1>6, <1>9 DEF Remains
  <2> QED  BY <1>1, <1>2, <1>3, <1>6, <1>7, <1>8, <1>9, <2>1, StackMovesTo
<1>10. CASE K!Gone(d)
  BY <1>1, <1>2, <1>3, <1>6, <1>7, <1>8, <1>10, StackTyped, StackAnswers
<1> QED  BY <1>4, <1>9, <1>10

LEMMA DeleteStackStep == ASSUME StackInv, NEW d \in Deployers, K!DeleteRow(d) PROVE StackInv'
<1>1. deploy[d].pc = "delete" /\ UNCHANGED <<yml, up, tangled, unsaved, lowered, orphans>>
  BY DEF K!DeleteRow, K!At
<1>2. PICK k \in Stacks : k = K!Of(d)
  BY <1>1, StackOf
<1>3. k \notin tangled \cup unsaved =>
         Follows(k) /\ Remains(k) /\ \A s \in K!Services : up[k][s] = None \/ s \in orphans[k]
  BY <1>1, <1>2, StackOf DEF Reached, ReachedIn, K!Of
<1>4. Remains(k) => Remains(k)'
  BY <1>1 DEF Remains
<1>5. CASE project' = [project EXCEPT ![k] = K!NoProject] /\ K!Goes(d, "erase")
  <2>1. OthersStand(k) /\ project'[k].status = "absent"
    BY <1>1, <1>5, StackTyped DEF K!NoProject, OthersStand, HostTyped, Projects
  <2>2. k \notin tangled \cup unsaved => Follows(k)'
    BY <1>1, <1>3, <2>1 DEF Follows
  <2> QED  BY <1>1, <1>2, <1>3, <1>4, <1>5, <2>1, <2>2, StackMovesTo
<1>6. CASE K!Gone(d) /\ UNCHANGED project
  <2>1. (Follows(k) => Follows(k)') /\ OthersStand(k)
    BY <1>1, <1>6, StackTyped DEF Follows, OthersStand, HostTyped
  <2> QED  BY <1>1, <1>2, <1>3, <1>4, <1>6, <2>1, StackTyped, StackAnswers
<1> QED  BY <1>2, <1>5, <1>6 DEF K!DeleteRow

LEMMA EraseStep == ASSUME StackInv, NEW d \in Deployers, K!Erase(d) PROVE StackInv'
<1>1. deploy[d].pc = "erase" /\ K!Gone(d) /\ UNCHANGED <<up, project, tangled, unsaved, lowered, orphans>>
  BY DEF K!Erase, K!At
<1>2. PICK k \in Stacks : k = K!Of(d)
  BY <1>1, StackOf
<1>3. k \notin tangled \cup unsaved => Follows(k)' /\ Remains(k)
  BY <1>1, <1>2, StackOf DEF Follows
<1>4. (yml'[k] = yml[k] \/ yml'[k] = None) /\ OthersStand(k)
  BY <1>1, <1>2, StackTyped DEF K!Erase, OthersStand, HostTyped
<1>5. Remains(k) => Remains(k)'
  BY <1>1, <1>4 DEF Remains
<1> QED  BY <1>1, <1>2, <1>3, <1>4, <1>5, StackTyped, StackAnswers

\* When the process dies, a stack that was brought up, or saved, is noted.
LEMMA StacksDroppedStep == StackInv /\ K!StacksDropped => StackInv'
<1> SUFFICES ASSUME StackInv, K!StacksDropped PROVE StackInv'
  OBVIOUS
<1>1. /\ deploy' = [d \in Deployers |-> K!NoDeploy] /\ UNCHANGED <<yml, up, project, tangled, lowered, orphans>>
      /\ unsaved' = unsaved \cup {K!Of(d) : d \in {d \in Deployers : deploy[d].pc \in {"up", "save"}}}
  BY DEF K!StacksDropped
<1>2. \A d \in Deployers : deploy[d].pc \in {"up", "save"} => K!Of(d) \in unsaved' /\ K!Of(d) \in Stacks
  BY <1>1, StackOf
<1>3. K!StackTypeOK'
  <2>1. unsaved' \subseteq Stacks
    BY <1>1, <1>2 DEF StackInv, K!StackTypeOK
  <2>2. deploy' \in [Deployers -> Requests]
    BY <1>1, NoDeployIsOne
  <2>3. HostTyped' /\ tangled' \subseteq Stacks
    BY <1>1, StackTyped DEF HostTyped
  <2> QED  BY <2>1, <2>2, <2>3, StackTypedBack
<1>4. \A d \in Deployers : deploy'[d] = K!NoDeploy
  BY <1>1
<1>5. \A k \in Stacks \ (tangled' \cup unsaved') : Follows(k)' /\ Remains(k)'
  <2> SUFFICES ASSUME NEW k \in Stacks \ (tangled' \cup unsaved') PROVE Follows(k)' /\ Remains(k)'
    OBVIOUS
  <2>1. k \in Stacks \ (tangled \cup unsaved) /\ \A d \in Deployers : K!Of(d) = k => deploy[d].pc \notin {"up", "save"}
    BY <1>1, <1>2
  <2>2. Follows(k) /\ Remains(k)
    BY <2>1 DEF StackInv
  <2> QED  BY <1>1, <2>2 DEF Follows, Remains
<1> QED  BY <1>3, <1>4, <1>5, NoDeployIsOne, StackConstants DEF StackInv, Reached, ReachedIn, K!Of

LEMMA StackSteps == StackInv /\ Compose => StackInv'
<1> SUFFICES ASSUME StackInv, Compose PROVE StackInv'
  OBVIOUS
<1>1. ASSUME NEW d \in Deployers, NEW k \in Stacks,
             K!RemoveComposeProject(d, k) \/ \E f \in Files : K!DeployCompose(d, k, f)
      PROVE  StackInv'
  BY <1>1, AsksStep DEF K!DeployCompose, K!RemoveComposeProject
<1> QED
  BY <1>1, WriteFileStep, UpWorksStep, UpFailsStep, SaveStep, DownStep, DeleteStackStep, EraseStep DEF Compose

LEMMA StacksUntouched == StackInv /\ UNCHANGED stackVars => StackInv'
BY DEF stackVars, StackInv, K!StackTypeOK, Follows, Remains, Reached, ReachedIn, K!Of

LEMMA StackInvSteps == StackInv /\ [Next]_vars => StackInv'
<1> SUFFICES ASSUME StackInv, [Next]_vars PROVE StackInv'
  OBVIOUS
<1>0. ASSUME UNCHANGED stackVars PROVE StackInv'
  BY <1>0, StacksUntouched
<1>1. CASE Pages \/ Cron \/ VolumeBackup
  BY <1>0, <1>1, PagesQuiet, CronQuiet, VolumeBackupQuiet
<1>2. CASE Retain \/ Alert \/ EditHba \/ MakeDatabases \/ Settings \/ Adopt \/ Drive
  BY <1>0, <1>2, RetainQuiet, AlertQuiet, EditHbaQuiet, MakeDatabasesQuiet, SettingsQuiet, AdoptQuiet,
     DriveQuiet DEF dockerVars
<1>3. CASE Compose
  BY <1>3, StackSteps
<1>4. CASE Crash
  BY <1>4, StacksDroppedStep DEF Crash
<1>5. CASE UNCHANGED vars
  BY <1>0, <1>5 DEF vars, dockerVars
<1> QED  BY <1>1, <1>2, <1>3, <1>4, <1>5 DEF Next

\* Between requests that do not overlap, a "deployed" stack runs the services of
\* the file its row shows and no other, but for what an unfinished removal took
\* down, and a stack without a row runs nothing, but for the services a failed
\* "up" of another file left running, at whatever step deployments and removals
\* failed before their result was to be saved, and whenever the process died: the
\* part of DeploymentsAgree about docker compose.
THEOREM StacksAreTheirRows == Spec => []K!RowIsStack
<1>1. StackInv => K!RowIsStack
  BY DEF StackInv, K!RowIsStack, K!Settled, Follows
<1> QED  BY StacksInitially, StackInvSteps, <1>1, PTL DEF Spec

-----------------------------------------------------------------------------
(* The containers, in the one process *)

LEMMA PagesStep == Next => [PagesNext \/ PagesDropped]_pagesVars
<1> SUFFICES ASSUME Next PROVE (PagesNext \/ PagesDropped) \/ UNCHANGED pagesVars
  OBVIOUS
<1>1. CASE Pages
  BY <1>1 DEF Pages
<1>2. CASE Cron \/ VolumeBackup \/ Compose
  BY <1>2, CronQuiet, VolumeBackupQuiet, ComposeQuiet DEF pagesVars
<1>3. CASE Retain \/ Alert \/ EditHba \/ MakeDatabases \/ Settings \/ Adopt \/ Drive
  BY <1>3, RetainQuiet, AlertQuiet, EditHbaQuiet, MakeDatabasesQuiet, SettingsQuiet, AdoptQuiet,
     DriveQuiet DEF dockerVars, pagesVars
<1>4. CASE Crash
  BY <1>4 DEF Crash
<1> QED  BY <1>1, <1>2, <1>3, <1>4 DEF Next

\* To the containers, all the process does is what their pages do, and end.
THEOREM PagesOfTheProcess == Spec => PagesSpec
<1>1. Init => PagesInit
  BY DEF Init
<1>2. [Next]_vars => [PagesNext \/ PagesDropped]_pagesVars
  BY PagesStep DEF vars, dockerVars, pagesVars
<1> QED  BY <1>1, <1>2, PTL DEF Spec, PagesSpec

\* In the whole process, too, recreations keep binds, networks and names.
THEOREM ContainersStayWhole == Spec => []ContainersKept
BY PagesOfTheProcess, RecreationKeepsContainers, PTL
=============================================================================

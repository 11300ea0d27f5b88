---------------------------- MODULE Backups_proofs ----------------------------
(***************************************************************************)
(* The rows of the backups and their files tell one story whatever the     *)
(* workers, retentions and delete requests at them do, and retention       *)
(* spares the newest: for any number of backups, policies and delete       *)
(* requests, any retention_count, and crashes and outages at any time.     *)
(* A policy runs when it is due, for every frequency and time of day.      *)
(***************************************************************************)
EXTENDS Backups, BackupSchedule, FiniteSetTheorems, TLAPS

JobPC == {"idle", "read", "dump", "store", "save", "fail", "record", "list", "expire"}
Statuses == {"absent", "running", "completed", "failed", "deleted"}
Deletion == [pc: {"idle", "file", "row"}, of: Backups \cup {None}]

\* The backups of which a row was ever inserted: finitely many at any time.
Started == {b \in Backups : row[b].status # "absent"}

-----------------------------------------------------------------------------
(* Types *)

LEMMA IdleTypes == IdleJob \in Job /\ NotDeleting \in Deletion
  BY DEF IdleJob, Job, NotDeleting, Deletion

\* A job whose statement, context or list changes is a job.
LEMMA JobFields ==
    ASSUME NEW q \in Job, NEW pc \in JobPC, NEW ok \in BOOLEAN, NEW todo \in SUBSET Backups
    PROVE  /\ [q EXCEPT !.pc = pc] \in Job
           /\ [q EXCEPT !.gone = ok] \in Job
           /\ [q EXCEPT !.todo = todo] \in Job
<1> USE DEF Job, JobPC
<1>1. [q EXCEPT !.pc = pc] \in Job
  OBVIOUS
<1>2. [q EXCEPT !.gone = ok] \in Job
  OBVIOUS
<1>3. [q EXCEPT !.todo = todo] \in Job
  OBVIOUS
<1> QED  BY <1>1, <1>2, <1>3

LEMMA JobPerformed ==
    ASSUME NEW q \in Job, NEW ok \in BOOLEAN
    PROVE  [q EXCEPT !.pc = "record", !.ok = ok] \in Job
<1> USE DEF Job
<1>1. PICK y : y = [q EXCEPT !.ok = ok]
  OBVIOUS
<1>2. y \in Job
  BY <1>1
<1>3. [y EXCEPT !.pc = "record"] \in Job
  BY <1>2
<1> QED  BY <1>1, <1>3

LEMMA JobExpires ==
    ASSUME NEW q \in Job, NEW todo \in SUBSET Backups
    PROVE  [q EXCEPT !.pc = "expire", !.todo = todo] \in Job
<1>1. PICK y : y = [q EXCEPT !.todo = todo]
  OBVIOUS
<1>2. y \in Job
  BY <1>1, JobFields DEF JobPC
<1>3. [y EXCEPT !.pc = "expire"] \in Job
  BY <1>2, JobFields DEF JobPC
<1> QED  BY <1>1, <1>3 DEF Job

LEMMA JobInserted ==
    ASSUME NEW p \in Policies \cup {None}, NEW by \in {"manual", "now", "sweep"}
    PROVE  [IdleJob EXCEPT !.pc = "read", !.by = by, !.for = p] \in Job
<1>1. PICK y : y = [IdleJob EXCEPT !.pc = "read"]
  OBVIOUS
<1>2. y \in Job
  BY <1>1 DEF Job, IdleJob
<1>3. PICK z : z = [y EXCEPT !.by = by]
  OBVIOUS
<1>4. z \in Job
  BY <1>2, <1>3 DEF Job
<1>5. [z EXCEPT !.for = p] \in Job
  BY <1>4 DEF Job
<1> QED  BY <1>1, <1>3, <1>5

LEMMA StepType ==
    ASSUME job \in [Backups -> Job], NEW b \in Backups, NEW pc \in JobPC, Step(b, pc)
    PROVE  job' \in [Backups -> Job]
  BY JobFields DEF Step

LEMMA PerformedType ==
    ASSUME job \in [Backups -> Job], NEW b \in Backups, NEW ok \in BOOLEAN, Performed(b, ok)
    PROVE  job' \in [Backups -> Job]
  BY JobPerformed, IdleTypes DEF Performed

LEMMA RowFields ==
    ASSUME NEW q \in Row, NEW st \in Statuses, NEW p \in Policies \cup {None}
    PROVE  [q EXCEPT !.status = st] \in Row /\ [q EXCEPT !.policy = p] \in Row
  BY DEF Row, Statuses

LEMMA SetStatusType ==
    ASSUME row \in [Backups -> Row], NEW b \in Backups, NEW st \in Statuses, SetStatus(b, st)
    PROVE  row' \in [Backups -> Row]
  BY DEF SetStatus, Row, Statuses

LEMMA StoresType ==
    ASSUME TypeOK, NEW b \in Backups, Put(b) \/ Erase(b) \/ UNCHANGED stores
    PROVE  disk' \in [0..MaxSecond -> Backups \cup {None}] /\ drive' \subseteq Backups
  BY DEF TypeOK, Put, Erase, stores

LEMMA InsertType ==
    ASSUME TypeOK, IsFiniteSet(Started), NEW b \in Backups, NEW p \in Policies \cup {None},
           NEW st \in Storages, NEW by \in {"manual", "now", "sweep"}, Insert(b, p, st, by)
    PROVE  row' \in [Backups -> Row] /\ job' \in [Backups -> Job]
<1>1. Cardinality(Started) + 1 \in Nat
  <2>1. Cardinality(Started) \in Nat
    BY FS_CardinalityType
  <2> QED  BY <2>1
<1>2. [status |-> "running", policy |-> p, storage |-> st, name |-> second,
       seq |-> Cardinality(Started) + 1] \in Row
  BY <1>1, BackupsAssumption DEF Row, TypeOK
<1>3. row' = [row EXCEPT ![b] = [status |-> "running", policy |-> p, storage |-> st, name |-> second,
                                 seq |-> Cardinality(Started) + 1]]
  BY DEF Insert, Started
<1>4. job' = [job EXCEPT ![b] = [IdleJob EXCEPT !.pc = "read", !.by = by, !.for = p]]
  BY DEF Insert
<1>5. [IdleJob EXCEPT !.pc = "read", !.by = by, !.for = p] \in Job
  BY JobInserted, ZenonT(40)
<1> QED  BY <1>2, <1>3, <1>4, <1>5 DEF TypeOK

\* What the faults of one call leave.
Faulted == budget' \in Nat /\ cut' \subseteq Backups /\ cut \subseteq cut'

LEMMA OutcomeFaults ==
    ASSUME TypeOK, NEW b \in Backups, NoFault \/ Fault(b) \/ Charged
    PROVE  Faulted
  BY DEF NoFault, Fault, Charged, TypeOK, Faulted

\* A statement of a worker keeps the types.
LEMMA WorkingType ==
    ASSUME TypeOK, NEW b \in Backups, Working(b)
    PROVE  TypeOK'
<1> USE DEF TypeOK
<1>1. CASE ReadBackup(b)
  <2>1. Faulted
    BY <1>1, OutcomeFaults DEF ReadBackup, Outcome
  <2>2. job' \in [Backups -> Job]
    BY <1>1, StepType, PerformedType DEF ReadBackup, Outcome, JobPC
  <2> QED  BY <1>1, <2>1, <2>2 DEF ReadBackup, stores, Faulted
<1>2. CASE Dump(b)
  <2>1. Faulted
    BY <1>2, OutcomeFaults DEF Dump, Outcome
  <2>2. job' \in [Backups -> Job]
    BY <1>2, StepType DEF Dump, Outcome, JobPC
  <2> QED  BY <1>2, <2>1, <2>2 DEF Dump, stores, Faulted
<1>3. CASE Store(b)
  <2>1. Faulted
    BY <1>3, OutcomeFaults DEF Store, Outcome
  <2>2. job' \in [Backups -> Job]
    BY <1>3, StepType DEF Store, Outcome, JobPC
  <2>3. Put(b) \/ UNCHANGED stores
    BY <1>3 DEF Store, Outcome
  <2> QED  BY <1>3, <2>1, <2>2, <2>3, StoresType DEF Store, Faulted
<1>4. CASE SaveCompleted(b)
  <2>1. Faulted
    BY <1>4, OutcomeFaults DEF SaveCompleted, Outcome
  <2>2. job' \in [Backups -> Job]
    BY <1>4, StepType, PerformedType DEF SaveCompleted, Outcome, JobPC
  <2>3. row' \in [Backups -> Row]
    BY <1>4, SetStatusType DEF SaveCompleted, Outcome, Statuses
  <2> QED  BY <1>4, <2>1, <2>2, <2>3 DEF SaveCompleted, stores, Faulted
<1>5. CASE MarkFailed(b)
  <2>1. Faulted
    BY <1>5, OutcomeFaults DEF MarkFailed, Outcome
  <2>2. job' \in [Backups -> Job]
    BY <1>5, PerformedType DEF MarkFailed
  <2>3. row' \in [Backups -> Row]
    BY <1>5, SetStatusType DEF MarkFailed, Outcome, Statuses
  <2> QED  BY <1>5, <2>1, <2>2, <2>3 DEF MarkFailed, stores, Faulted
<1>6. CASE RecordRun(b)
  <2>1. Faulted
    BY <1>6, OutcomeFaults DEF RecordRun, Outcome
  <2>2. job' \in [Backups -> Job]
    BY <1>6, JobFields, IdleTypes DEF RecordRun, JobPC
  <2>3. due' \in [Policies -> BOOLEAN]
    BY <1>6 DEF RecordRun, Outcome
  <2> QED  BY <1>6, <2>1, <2>2, <2>3 DEF RecordRun, stores, Faulted
<1>7. CASE ListExpired(b)
  <2>1. Faulted
    BY <1>7, OutcomeFaults DEF ListExpired, Outcome
  <2>2. job' \in [Backups -> Job]
    <3>1. CASE job' = [job EXCEPT ![b] = IdleJob]
      BY <3>1, IdleTypes
    <3>2. CASE job' = [job EXCEPT ![b].pc = "expire", ![b].todo = Expired(job[b].for)]
      <4>1. Expired(job[b].for) \in SUBSET Backups
        BY DEF Expired, CompletedOf
      <4>2. job' = [job EXCEPT ![b] = [job[b] EXCEPT !.pc = "expire", !.todo = Expired(job[b].for)]]
        BY <3>2
      <4>3. [job[b] EXCEPT !.pc = "expire", !.todo = Expired(job[b].for)] \in Job
        BY <4>1, JobExpires
      <4> QED  BY <4>2, <4>3
    <3> QED  BY <1>7, <3>1, <3>2 DEF ListExpired, Outcome
  <2> QED  BY <1>7, <2>1, <2>2 DEF ListExpired, stores, Faulted
<1>8. CASE ExpireNext(b)
  <2>1. job' \in [Backups -> Job] /\ deleting' \in [Slots \cup Backups -> Deletion]
    <3>1. CASE job' = [job EXCEPT ![b] = IdleJob] /\ UNCHANGED deleting
      BY <3>1, IdleTypes DEF Deletion
    <3>2. ASSUME NEW v \in job[b].todo, job' = [job EXCEPT ![b].todo = job[b].todo \ {v}],
                 deleting' = [deleting EXCEPT ![b] =
                     IF ~Exists(v) \/ job[b].gone THEN NotDeleting
                     ELSE [pc |-> IF row[v].status = "completed" THEN "file" ELSE "row", of |-> v]]
          PROVE  job' \in [Backups -> Job] /\ deleting' \in [Slots \cup Backups -> Deletion]
      <4>1. v \in Backups /\ job[b].todo \ {v} \in SUBSET Backups
        BY DEF Job
      <4>2. \A pc \in {"file", "row"} : [pc |-> pc, of |-> v] \in Deletion
        BY <4>1 DEF Deletion
      <4>3. deleting' \in [Slots \cup Backups -> Deletion]
        BY <3>2, <4>2, IdleTypes DEF Deletion
      <4> QED  BY <3>2, <4>1, <4>3, JobFields DEF JobPC
    <3> QED  BY <1>8, <3>1, <3>2 DEF ExpireNext
  <2> QED  BY <1>8, <2>1 DEF ExpireNext, stores, history, Deletion
<1> QED  BY <1>1, <1>2, <1>3, <1>4, <1>5, <1>6, <1>7, <1>8 DEF Working

\* A deletion under way is one of a backup.
Aimed == \A d \in Slots \cup Backups : deleting[d].pc # "idle" => deleting[d].of \in Backups

Base == TypeOK /\ Aimed /\ IsFiniteSet(Started)

LEMMA DeletingTyped ==
    ASSUME TypeOK, Aimed, NEW d \in Slots \cup Backups, Deleting(d)
    PROVE  TypeOK'
<1> DEFINE b == deleting[d].of
<1> USE DEF TypeOK
<1>0. deleting \in [Slots \cup Backups -> Deletion]
  BY DEF Deletion
<1>1. b \in Backups
  BY DEF Aimed, Deleting, DeleteFile, DeleteRow
<1>2. CASE DeleteFile(d)
  <2>1. Faulted
    BY <1>1, <1>2, OutcomeFaults DEF DeleteFile, Outcome
  <2>2. Erase(b) \/ UNCHANGED stores
    BY <1>2 DEF DeleteFile, Outcome
  <2>3. deleting' \in [Slots \cup Backups -> Deletion]
    BY <1>0, <1>2, IdleTypes DEF DeleteFile, Outcome, Deletion
  <2> QED  BY <1>1, <1>2, <2>1, <2>2, <2>3, StoresType DEF DeleteFile, Faulted, Deletion
<1>3. CASE DeleteRow(d)
  <2>1. Faulted
    BY <1>1, <1>3, OutcomeFaults DEF DeleteRow, Outcome
  <2>2. row' \in [Backups -> Row]
    <3>1. [row EXCEPT ![b].status = "deleted"] \in [Backups -> Row]
      BY <1>1, RowFields DEF Statuses
    <3> QED  BY <1>3, <3>1 DEF DeleteRow, Outcome
  <2>3. deleting' \in [Slots \cup Backups -> Deletion]
    BY <1>0, <1>3, IdleTypes DEF DeleteRow
  <2> QED  BY <1>3, <2>1, <2>2, <2>3 DEF DeleteRow, Faulted, Deletion, stores
<1> QED  BY <1>2, <1>3 DEF Deleting

LEMMA AroundTyped ==
    ASSUME TypeOK, \/ ServerStops \/ ServerStarts \/ ServerDeleted \/ SecondPasses \/ Crash
                   \/ SweepTick \/ SweepNext \/ \E p \in Policies : SweepSkip(p)
                   \/ \E p \in Policies : \/ CreatePolicy(p) \/ SetPolicyEnabled(p)
                                          \/ DeletePolicy(p) \/ TimeComes(p)
    PROVE  TypeOK'
<1> USE DEF TypeOK, stores, history, Charged
<1>1. CASE ServerStops \/ ServerStarts
  BY <1>1 DEF ServerStops, ServerStarts
<1>2. CASE ServerDeleted
  <2>1. row' \in [Backups -> Row]
    BY <1>2, RowFields DEF ServerDeleted, Statuses
  <2>2. policy' \in [Policies -> {"absent", "enabled", "disabled", "deleted"}]
    BY <1>2 DEF ServerDeleted
  <2> QED  BY <1>2, <2>1, <2>2 DEF ServerDeleted
<1>3. CASE SecondPasses
  BY <1>3, BackupsAssumption DEF SecondPasses
<1>4. CASE Crash
  <2>1. job' \in [Backups -> Job] /\ deleting' \in [Slots \cup Backups -> Deletion]
    BY <1>4, IdleTypes DEF Crash
  <2> QED  BY <1>4, <2>1 DEF Crash, Deletion
<1>5. CASE SweepTick \/ SweepNext
  BY <1>5 DEF SweepTick, SweepNext
<1>6. ASSUME NEW p \in Policies, SweepSkip(p) PROVE TypeOK'
  <2>1. sweep' \in [todo: SUBSET Policies, cur: Backups \cup {None}]
    BY <1>6 DEF SweepSkip
  <2>2. due' \in [Policies -> BOOLEAN] /\ budget' \in Nat
    <3>1. CASE UNCHANGED <<due, budget>>
      BY <3>1
    <3>2. CASE due' = [due EXCEPT ![p] = FALSE] /\ budget > 0 /\ budget' = budget - 1
      BY <3>2
    <3> QED  BY <1>6, <3>1, <3>2 DEF SweepSkip
  <2>3. UNCHANGED <<row, policy, stores, server, job, deleting, second, history>>
    BY <1>6 DEF SweepSkip
  <2> QED  BY <2>1, <2>2, <2>3
<1>7. ASSUME NEW p \in Policies, CreatePolicy(p) \/ SetPolicyEnabled(p) \/ TimeComes(p) PROVE TypeOK'
  <2>1. CASE CreatePolicy(p)
    BY <2>1 DEF CreatePolicy
  <2>2. CASE SetPolicyEnabled(p)
    BY <2>2 DEF SetPolicyEnabled
  <2>3. CASE TimeComes(p)
    <3>1. due' \in [Policies -> BOOLEAN] /\ budget' \in Nat
      BY <2>3 DEF TimeComes
    <3>2. UNCHANGED <<row, policy, stores, server, job, deleting, sweep, second, asked, early, cut>>
      BY <2>3 DEF TimeComes
    <3> QED  BY <3>1, <3>2
  <2> QED  BY <1>7, <2>1, <2>2, <2>3
<1>8. ASSUME NEW p \in Policies, DeletePolicy(p) PROVE TypeOK'
  <2>1. row' \in [Backups -> Row]
    BY <1>8, RowFields DEF DeletePolicy, Statuses
  <2> QED  BY <1>8, <2>1 DEF DeletePolicy
<1> QED  BY <1>1, <1>2, <1>3, <1>4, <1>5, <1>6, <1>7, <1>8

\* A backup starts by hand, by a "run now" or by the sweep.
Inserting(b) ==
    \E p \in Policies \cup {None}, st \in Storages, by \in {"manual", "now", "sweep"} :
       Insert(b, p, st, by)

LEMMA InsertingTyped ==
    ASSUME TypeOK, IsFiniteSet(Started), NEW b \in Backups, NEW st \in Storages,
           \/ CreateBackup(b, st)
           \/ \E p \in Policies : RunPolicyNow(b, p, st) \/ SweepStart(b, p, st)
    PROVE  TypeOK' /\ Inserting(b) /\ UNCHANGED <<stores, deleting, cut, asked, early>>
<1> USE DEF TypeOK, Charged, history, stores
<1>1. CASE CreateBackup(b, st)
  <2>1. Insert(b, None, st, "manual")
    BY <1>1 DEF CreateBackup
  <2>2. row' \in [Backups -> Row] /\ job' \in [Backups -> Job]
    BY <2>1, InsertType
  <2>3. Inserting(b)
    BY <2>1 DEF Inserting
  <2>4. /\ UNCHANGED <<policy, due, stores, server, deleting, sweep, second, asked, early, cut>>
        /\ budget' \in Nat
    BY <1>1 DEF CreateBackup
  <2> QED  BY <2>2, <2>3, <2>4
<1>2. ASSUME NEW p \in Policies, RunPolicyNow(b, p, st)
      PROVE  TypeOK' /\ Inserting(b) /\ UNCHANGED <<stores, deleting, cut, asked, early>>
  <2>1. Insert(b, p, st, "now")
    BY <1>2 DEF RunPolicyNow
  <2> QED  BY <1>2, <2>1, InsertType DEF RunPolicyNow, Inserting
<1>3. ASSUME NEW p \in Policies, SweepStart(b, p, st)
      PROVE  TypeOK' /\ Inserting(b) /\ UNCHANGED <<stores, deleting, cut, asked, early>>
  <2>1. Insert(b, p, st, "sweep")
    BY <1>3 DEF SweepStart
  <2> QED  BY <1>3, <2>1, InsertType DEF SweepStart, Inserting
<1> QED  BY <1>1, <1>2, <1>3

LEMMA ClientTyped ==
    ASSUME TypeOK, NEW b \in Backups,
           ClientGone(b) \/ \E d \in Slots : DeleteRequest(d, b)
    PROVE  TypeOK'
<1> USE DEF TypeOK, stores
<1>1. CASE ClientGone(b)
  <2>1. deleting[b].of \in Backups \cup {None}
    OBVIOUS
  <2>2. job' \in [Backups -> Job]
    BY <1>1, JobFields DEF ClientGone, JobPC
  <2> QED  BY <1>1, <2>1, <2>2 DEF ClientGone
<1>2. ASSUME NEW d \in Slots, DeleteRequest(d, b) PROVE TypeOK'
  <2>1. deleting' \in [Slots \cup Backups -> Deletion]
    BY <1>2 DEF DeleteRequest, Deletion
  <2> QED  BY <1>2, <2>1 DEF DeleteRequest, Charged, Deletion
<1> QED  BY <1>1, <1>2

LEMMA TypeStep == TypeOK /\ Aimed /\ IsFiniteSet(Started) /\ [Next]_vars => TypeOK'
<1> SUFFICES ASSUME TypeOK, Aimed, IsFiniteSet(Started), [Next]_vars PROVE TypeOK'
  OBVIOUS
<1>1. CASE UNCHANGED vars
  BY <1>1 DEF vars, stores, TypeOK
<1>2. ASSUME NEW b \in Backups,
             \/ \E st \in Storages :
                   CreateBackup(b, st) \/ \E p \in Policies : RunPolicyNow(b, p, st)
             \/ ClientGone(b) \/ Working(b)
             \/ \E d \in Slots : DeleteRequest(d, b)
      PROVE  TypeOK'
  BY <1>2, InsertingTyped, ClientTyped, WorkingType
<1>3. ASSUME NEW d \in Slots \cup Backups, Deleting(d) PROVE TypeOK'
  BY <1>3, DeletingTyped
<1>4. CASE Sweeping
  BY <1>4, AroundTyped, InsertingTyped DEF Sweeping
<1> QED  BY <1>1, <1>2, <1>3, <1>4, AroundTyped DEF Next

-----------------------------------------------------------------------------
(* What a step does to a backup, to a deletion and to a file *)

\* The statements of performBackup.
Performing == {"read", "dump", "store", "save", "fail"}

RowSame(b) ==
    /\ row'[b].status = row[b].status /\ row'[b].name = row[b].name
    /\ row'[b].storage = row[b].storage /\ row'[b].seq = row[b].seq

\* Its worker writes the result and is done with it.
RowEnded(b) ==
    /\ Exists(b) /\ \E st \in {"completed", "failed"} : row' = [row EXCEPT ![b].status = st]
    /\ job'[b].pc \notin Performing
    /\ job[b].pc \in Performing /\ (row'[b].status = "completed" => job[b].pc = "save")

\* A delete ends with the row, or the server takes all of them with it.
RowDeleted(b) ==
    /\ Exists(b) /\ row'[b].status = "deleted"
    /\ row'[b].name = row[b].name /\ row'[b].storage = row[b].storage
    /\ \/ /\ early' = Backups
          /\ \A c \in Backups : row'[c].status \notin {"running", "completed", "failed"}
       \/ \E d \in Slots \cup Backups : /\ deleting[d] = [pc |-> "row", of |-> b]
                                        /\ row' = [row EXCEPT ![b].status = "deleted"]

RowMove(b) == RowSame(b) \/ Inserting(b) \/ RowEnded(b) \/ RowDeleted(b)

\* Backups of one policy stay together when the policy is deleted.
PolicyMove(b, c) ==
    /\ row[b].policy = row[c].policy /\ row[b].status # "absent" /\ row[c].status # "absent"
       => row'[b].policy = row'[c].policy
    /\ row[b].policy = None /\ row[b].status # "absent" => row'[b].policy = None

LEMMA InsertMove ==
    ASSUME TypeOK, NEW c \in Backups, Inserting(c), NEW b \in Backups
    PROVE  /\ b # c => row'[b] = row[b] /\ job'[b] = job[b]
           /\ row[c].status = "absent" /\ row'[c].status = "running"
           /\ job'[c].pc = "read" /\ ~job'[c].gone /\ job'[c].todo = {}
           /\ row'[c].name = second
           /\ Spaced => \A e \in Backups : row[e].status # "absent" => row[e].name # second
<1>1. PICK p \in Policies \cup {None}, st \in Storages, by \in {"manual", "now", "sweep"} :
        Insert(c, p, st, by)
  BY DEF Inserting
<1>2. row' = [row EXCEPT ![c] = [status |-> "running", policy |-> p, storage |-> st, name |-> second,
                 seq |-> Cardinality({e \in Backups : row[e].status # "absent"}) + 1]]
  BY <1>1 DEF Insert
<1>3. row'[c].status = "running" /\ row'[c].name = second /\ (b # c => row'[b] = row[b])
  BY <1>2 DEF TypeOK
<1>4. PICK x : x = [IdleJob EXCEPT !.pc = "read", !.by = by, !.for = p]
  OBVIOUS
<1>5. x.pc = "read" /\ x.gone = FALSE /\ x.todo = {}
  BY <1>4 DEF IdleJob
<1>6. job' = [job EXCEPT ![c] = x]
  BY <1>1, <1>4 DEF Insert
<1>7. job'[c] = x /\ (b # c => job'[b] = job[b])
  BY <1>6 DEF TypeOK
<1> QED  BY <1>1, <1>3, <1>5, <1>7 DEF Insert

\* The job after performBackup, and after one of its statements.
LEMMA PerformedMove ==
    ASSUME TypeOK, NEW b \in Backups, NEW ok, Performed(b, ok)
    PROVE  /\ job'[b].pc \in {"idle", "record"}
           /\ job'[b].todo \subseteq job[b].todo /\ (job'[b].gone => job[b].gone)
           /\ \A c \in Backups \ {b} : job'[c] = job[c]
<1>1. PICK x : x = [job[b] EXCEPT !.pc = "record", !.ok = ok]
  OBVIOUS
<1>2. x.pc = "record" /\ x.todo = job[b].todo /\ x.gone = job[b].gone
  BY <1>1 DEF TypeOK, Job
<1>3. job' = [job EXCEPT ![b] = IF job[b].by = "manual" THEN IdleJob ELSE x]
  BY <1>1 DEF Performed, TypeOK
<1>4. /\ job'[b] = (IF job[b].by = "manual" THEN IdleJob ELSE x)
      /\ \A c \in Backups \ {b} : job'[c] = job[c]
  BY <1>3 DEF TypeOK
<1> QED  BY <1>2, <1>4 DEF IdleJob

LEMMA StepMove ==
    ASSUME TypeOK, NEW b \in Backups, NEW pc, Step(b, pc)
    PROVE  /\ job'[b].pc = pc
           /\ job'[b].todo = job[b].todo /\ job'[b].gone = job[b].gone
           /\ \A c \in Backups \ {b} : job'[c] = job[c]
  BY DEF Step, TypeOK, Job

LEMMA WorkingRow ==
    ASSUME TypeOK, NEW w \in Backups, Working(w), NEW b \in Backups
    PROVE  (row'[b] = row[b] \/ RowEnded(b)) /\ (w = b \/ job'[b] = job[b])
           /\ row'[b].policy = row[b].policy /\ early' = early /\ asked' = asked
<1> DEFINE Goal == /\ row'[b] = row[b] \/ RowEnded(b)
                   /\ w = b \/ job'[b] = job[b]
                   /\ row'[b].policy = row[b].policy /\ early' = early /\ asked' = asked
<1>1. CASE ReadBackup(w)
  BY <1>1, PerformedMove, StepMove DEF ReadBackup, Outcome
<1>2. CASE Dump(w)
  BY <1>2, StepMove DEF Dump, Outcome
<1>3. CASE Store(w)
  BY <1>3, StepMove DEF Store, Outcome
<1>4. CASE SaveCompleted(w)
  <2>1. CASE row' = row
    BY <1>4, <2>1, PerformedMove, StepMove DEF SaveCompleted, Outcome
  <2>2. CASE /\ SetStatus(w, "completed") /\ Exists(w) /\ Performed(w, TRUE)
    <3>1. row' = [row EXCEPT ![w].status = "completed"]
      BY <2>2 DEF SetStatus
    <3>2. job'[w].pc \in {"idle", "record"} /\ (w = b \/ job'[b] = job[b])
      BY <2>2, PerformedMove
    <3>3. row'[b].policy = row[b].policy /\ (w # b => row'[b] = row[b])
      BY <3>1 DEF TypeOK, Row
    <3>4. w = b => RowEnded(b)
      BY <1>4, <2>2, <3>1, <3>2 DEF RowEnded, SaveCompleted, Performing
    <3> QED  BY <1>4, <3>2, <3>3, <3>4 DEF SaveCompleted
  <2>3. CASE ~Exists(w)
    BY <1>4, <2>3, PerformedMove, StepMove DEF SaveCompleted, Outcome, SetStatus
  <2> QED  BY <1>4, <2>1, <2>2, <2>3 DEF SaveCompleted, Outcome
<1>5. CASE MarkFailed(w)
  <2>0. job'[w].pc \in {"idle", "record"} /\ (w = b \/ job'[b] = job[b])
    BY <1>5, PerformedMove DEF MarkFailed
  <2>1. CASE row' = row
    BY <1>5, <2>0, <2>1 DEF MarkFailed
  <2>2. CASE SetStatus(w, "failed") /\ Exists(w)
    <3>1. row' = [row EXCEPT ![w].status = "failed"]
      BY <2>2 DEF SetStatus
    <3>3. /\ row'[b].policy = row[b].policy /\ (w # b => row'[b] = row[b])
          /\ row'[w].status = "failed"
      BY <3>1 DEF TypeOK, Row
    <3>4. w = b => RowEnded(b)
      BY <1>5, <2>0, <2>2, <3>1, <3>3 DEF RowEnded, MarkFailed, Performing
    <3> QED  BY <1>5, <2>0, <3>3, <3>4 DEF MarkFailed
  <2>3. CASE SetStatus(w, "failed") /\ ~Exists(w)
    BY <1>5, <2>0, <2>3 DEF MarkFailed, SetStatus
  <2> QED  BY <1>5, <2>1, <2>2, <2>3 DEF MarkFailed, Outcome
<1>6. CASE RecordRun(w)
  BY <1>6 DEF RecordRun, TypeOK
<1>7. CASE ListExpired(w)
  BY <1>7 DEF ListExpired, Outcome, TypeOK
<1>8. CASE ExpireNext(w)
  BY <1>8 DEF ExpireNext, TypeOK, history
<1> QED  BY <1>1, <1>2, <1>3, <1>4, <1>5, <1>6, <1>7, <1>8 DEF Working

\* The steps that leave rows, jobs, deletions, files and history alone.
Bystanding ==
    \/ ServerStops \/ ServerStarts \/ SecondPasses \/ SweepTick \/ SweepNext
    \/ \E p \in Policies : \/ SweepSkip(p) \/ CreatePolicy(p) \/ SetPolicyEnabled(p) \/ TimeComes(p)
    \/ UNCHANGED vars

LEMMA Bystand ==
    Bystanding => UNCHANGED <<row, stores, job, deleting, cut, asked, early>>
  BY DEF Bystanding, ServerStops, ServerStarts, SecondPasses, SweepTick, SweepNext, SweepSkip,
     CreatePolicy, SetPolicyEnabled, TimeComes, vars, stores, history, Charged

\* Every step is one of these.
LEMMA Steps ==
    ASSUME TypeOK, IsFiniteSet(Started), [Next]_vars
    PROVE  \/ Bystanding
           \/ \E b \in Backups : Inserting(b) /\ UNCHANGED <<stores, deleting, cut, asked, early>>
           \/ \E b \in Backups : ClientGone(b)
           \/ \E b \in Backups : Working(b)
           \/ \E b \in Backups, d \in Slots : DeleteRequest(d, b)
           \/ \E d \in Slots \cup Backups : Deleting(d)
           \/ \E p \in Policies : DeletePolicy(p)
           \/ ServerDeleted \/ Crash
<1>1. ASSUME NEW b \in Backups, NEW st \in Storages,
             \/ CreateBackup(b, st)
             \/ \E p \in Policies : RunPolicyNow(b, p, st) \/ SweepStart(b, p, st)
      PROVE  \E c \in Backups : Inserting(c) /\ UNCHANGED <<stores, deleting, cut, asked, early>>
  BY <1>1, InsertingTyped
<1>2. CASE Sweeping
  BY <1>1, <1>2 DEF Sweeping, Bystanding
<1> QED  BY <1>1, <1>2 DEF Next, Bystanding

LEMMA RowStep ==
    ASSUME TypeOK, Aimed, IsFiniteSet(Started), [Next]_vars, NEW b \in Backups
    PROVE  RowMove(b)
<1> USE DEF TypeOK
<1>1. ASSUME row'[b] = row[b] PROVE RowMove(b)
  BY <1>1 DEF RowMove, RowSame
<1>2. CASE Bystanding
  BY <1>1, <1>2, Bystand
<1>3. ASSUME NEW c \in Backups, Inserting(c) PROVE RowMove(b)
  BY <1>1, <1>3, InsertMove DEF RowMove
<1>4. ASSUME NEW w \in Backups, ClientGone(w) \/ Working(w) PROVE RowMove(b)
  BY <1>1, <1>4, WorkingRow DEF RowMove, ClientGone
<1>5. ASSUME NEW c \in Backups, NEW d \in Slots, DeleteRequest(d, c) PROVE RowMove(b)
  BY <1>1, <1>5 DEF DeleteRequest
<1>6. ASSUME NEW d \in Slots \cup Backups, Deleting(d) PROVE RowMove(b)
  <2>1. CASE row' = row
    BY <1>1, <2>1
  <2>2. ASSUME NEW v \in Backups, v = deleting[d].of, deleting[d].pc = "row", Exists(v),
               row' = [row EXCEPT ![v].status = "deleted"]
        PROVE  RowMove(b)
    <3>1. CASE b = v
      <4>1. /\ row'[b].status = "deleted" /\ row'[b].name = row[b].name
            /\ row'[b].storage = row[b].storage
        BY <2>2, <3>1 DEF Row
      <4>2. deleting[d] = [pc |-> "row", of |-> b]
        BY <2>2, <3>1
      <4> QED  BY <2>2, <3>1, <4>1, <4>2 DEF RowMove, RowDeleted
    <3>2. CASE b # v
      BY <1>1, <2>2, <3>2
    <3> QED  BY <3>1, <3>2
  <2>3. deleting[d].pc = "row" => deleting[d].of \in Backups
    BY DEF Aimed
  <2> QED  BY <1>6, <2>1, <2>2, <2>3 DEF Deleting, DeleteFile, DeleteRow, Outcome
<1>7. ASSUME NEW p \in Policies, DeletePolicy(p) PROVE RowMove(b)
  BY <1>7 DEF DeletePolicy, Row, RowMove, RowSame
<1>8. CASE ServerDeleted
  <2>1. /\ early' = Backups
        /\ \A c \in Backups : row'[c] = IF Exists(c) THEN [row[c] EXCEPT !.status = "deleted"] ELSE row[c]
    BY <1>8 DEF ServerDeleted
  <2>2. \A c \in Backups : row'[c].status \notin {"running", "completed", "failed"}
    BY <2>1 DEF Exists, Row
  <2>3. CASE Exists(b)
    <3>1. /\ row'[b].status = "deleted" /\ row'[b].name = row[b].name
          /\ row'[b].storage = row[b].storage
      <4>1. row'[b] = [row[b] EXCEPT !.status = "deleted"] /\ row[b] \in Row
        BY <2>1, <2>3
      <4> QED  BY <4>1 DEF Row
    <3> QED  BY <2>1, <2>2, <2>3, <3>1 DEF RowMove, RowDeleted
  <2>4. CASE ~Exists(b)
    BY <1>1, <2>1, <2>4
  <2> QED  BY <2>3, <2>4
<1>9. CASE Crash
  BY <1>1, <1>9 DEF Crash
<1> QED  BY <1>2, <1>3, <1>4, <1>5, <1>6, <1>7, <1>8, <1>9, Steps

LEMMA PolicySame ==
    ASSUME TypeOK, Aimed, IsFiniteSet(Started), [Next]_vars, NEW e \in Backups, row[e].status # "absent"
    PROVE  row'[e].policy = row[e].policy \/ \E p \in Policies : DeletePolicy(p)
<1> USE DEF TypeOK
<1> DEFINE Goal == row'[e].policy = row[e].policy
<1>1. ASSUME row'[e] = row[e] PROVE Goal
  BY <1>1
<1>2. CASE Bystanding
  BY <1>1, <1>2, Bystand
<1>3. ASSUME NEW c \in Backups, Inserting(c) PROVE Goal
  BY <1>1, <1>3, InsertMove
<1>4. ASSUME NEW w \in Backups, ClientGone(w) \/ Working(w) PROVE Goal
  BY <1>1, <1>4, WorkingRow DEF ClientGone
<1>5. ASSUME NEW c \in Backups, NEW d \in Slots, DeleteRequest(d, c) PROVE Goal
  BY <1>1, <1>5 DEF DeleteRequest
<1>6. ASSUME NEW d \in Slots \cup Backups, Deleting(d) PROVE Goal
  <2>1. row' = row \/ row' = [row EXCEPT ![deleting[d].of].status = "deleted"]
    BY <1>6 DEF Deleting, DeleteFile, DeleteRow, Outcome
  <2>2. CASE e = deleting[d].of /\ row' = [row EXCEPT ![e].status = "deleted"]
    BY <2>2 DEF Row
  <2>3. CASE e # deleting[d].of \/ row' = row
    BY <2>1, <2>3
  <2> QED  BY <2>1, <2>2, <2>3
<1>7. CASE ServerDeleted
  BY <1>7 DEF ServerDeleted, Row
<1>8. CASE Crash
  BY <1>1, <1>8 DEF Crash
<1> QED  BY <1>2, <1>3, <1>4, <1>5, <1>6, <1>7, <1>8, Steps

LEMMA PolicyStep ==
    ASSUME TypeOK, Aimed, IsFiniteSet(Started), [Next]_vars, NEW b \in Backups, NEW c \in Backups
    PROVE  PolicyMove(b, c)
<1> USE DEF TypeOK
<1>1. ASSUME NEW p \in Policies, DeletePolicy(p) PROVE PolicyMove(b, c)
  BY <1>1 DEF DeletePolicy, Row, PolicyMove
<1>2. CASE ~\E p \in Policies : DeletePolicy(p)
  BY <1>2, PolicySame DEF PolicyMove
<1> QED  BY <1>1, <1>2

\* Only a dump that was stored is saved; a retention takes what the list gave it.
JobMove(b) ==
    /\ job'[b].pc \in Performing => job[b].pc \in Performing \/ Inserting(b)
    /\ job'[b].pc = "save" /\ job[b].pc # "save" =>
         b \in cut' \/ (job[b].pc = "store" /\ Put(b) /\ row' = row)
    /\ job'[b].gone => \/ job[b].gone /\ deleting'[b].of \in {deleting[b].of, None}
                       \/ b \in cut' /\ deleting'[b].of \in cut' \cup {None}
    /\ \/ job'[b].todo \subseteq job[b].todo
       \/ job'[b].todo = Expired(job[b].for) /\ row' = row /\ job[b].pc = "list"

LEMMA WorkingJob ==
    ASSUME TypeOK, NEW b \in Backups, Working(b)
    PROVE  JobMove(b)
<1> USE DEF TypeOK
<1>1. CASE ReadBackup(b)
  <2>1. /\ job'[b].pc \in {"dump", "idle", "record"} /\ job[b].pc \in Performing
        /\ job'[b].todo \subseteq job[b].todo /\ (job'[b].gone => job[b].gone)
    BY <1>1, PerformedMove, StepMove, ZenonT(40) DEF ReadBackup, Outcome, Performing
  <2> QED  BY <1>1, <2>1 DEF ReadBackup, JobMove
<1>2. CASE Dump(b)
  <2>1. /\ job'[b].pc \in {"store", "fail"} /\ job[b].pc \in Performing
        /\ job'[b].todo \subseteq job[b].todo /\ (job'[b].gone => job[b].gone)
    BY <1>2, StepMove DEF Dump, Outcome, Performing
  <2> QED  BY <1>2, <2>1 DEF Dump, JobMove
<1>3. CASE Store(b)
  <2>1. /\ job[b].pc = "store" /\ row' = row
        /\ job'[b].todo \subseteq job[b].todo /\ (job'[b].gone => job[b].gone)
        /\ job'[b].pc = "fail" \/ Put(b)
    BY <1>3, StepMove DEF Store, Outcome
  <2> QED  BY <1>3, <2>1 DEF Store, JobMove, Performing
<1>4. CASE SaveCompleted(b)
  <2>1. /\ job'[b].pc \in {"idle", "record", "fail"} /\ job[b].pc \in Performing
        /\ job'[b].todo \subseteq job[b].todo /\ (job'[b].gone => job[b].gone)
    BY <1>4, PerformedMove, StepMove, ZenonT(40) DEF SaveCompleted, Outcome, Performing
  <2> QED  BY <1>4, <2>1 DEF SaveCompleted, JobMove
<1>5. CASE MarkFailed(b)
  <2>1. /\ job'[b].pc \in {"idle", "record"}
        /\ job'[b].todo \subseteq job[b].todo /\ (job'[b].gone => job[b].gone)
    BY <1>5, PerformedMove DEF MarkFailed
  <2> QED  BY <1>5, <2>1 DEF MarkFailed, JobMove, Performing
<1>6. CASE RecordRun(b)
  <2>1. /\ job'[b].pc \in {"idle", "list"}
        /\ job'[b].todo \subseteq job[b].todo /\ (job'[b].gone => job[b].gone)
    BY <1>6 DEF RecordRun, Job, IdleJob
  <2> QED  BY <1>6, <2>1 DEF RecordRun, JobMove, Performing
<1>7. CASE ListExpired(b)
  <2>1. CASE job' = [job EXCEPT ![b] = IdleJob]
    <3>1. job'[b].pc = "idle" /\ job'[b].todo = {} /\ ~job'[b].gone
      BY <2>1 DEF IdleJob
    <3> QED  BY <3>1 DEF JobMove, Performing
  <2>2. CASE job' = [job EXCEPT ![b].pc = "expire", ![b].todo = Expired(job[b].for)]
    <3>1. PICK x : x = [job[b] EXCEPT !.pc = "expire", !.todo = Expired(job[b].for)]
      OBVIOUS
    <3>2. x.pc = "expire" /\ x.todo = Expired(job[b].for) /\ x.gone = job[b].gone
      BY <3>1 DEF Job
    <3>3. job'[b] = x
      BY <2>2, <3>1
    <3> QED  BY <1>7, <3>2, <3>3 DEF ListExpired, JobMove, Performing
  <2> QED  BY <1>7, <2>1, <2>2 DEF ListExpired, Outcome
<1>8. CASE ExpireNext(b)
  <2>1. CASE job' = [job EXCEPT ![b] = IdleJob]
    <3>1. job'[b].pc = "idle" /\ job'[b].todo = {} /\ ~job'[b].gone
      BY <2>1 DEF IdleJob
    <3> QED  BY <3>1 DEF JobMove, Performing
  <2>2. ASSUME NEW v \in job[b].todo, job' = [job EXCEPT ![b].todo = job[b].todo \ {v}],
               deleting' = [deleting EXCEPT ![b] =
                   IF ~Exists(v) \/ job[b].gone THEN NotDeleting
                   ELSE [pc |-> IF row[v].status = "completed" THEN "file" ELSE "row", of |-> v]]
        PROVE  JobMove(b)
    <3>1. /\ job'[b].pc = "expire" /\ job'[b].gone = job[b].gone
          /\ job'[b].todo \subseteq job[b].todo
      BY <1>8, <2>2 DEF ExpireNext, Job
    <3>2. job[b].gone => deleting'[b].of = None
      BY <2>2 DEF NotDeleting
    <3> QED  BY <3>1, <3>2 DEF JobMove, Performing
  <2> QED  BY <1>8, <2>1, <2>2 DEF ExpireNext
<1> QED  BY <1>1, <1>2, <1>3, <1>4, <1>5, <1>6, <1>7, <1>8 DEF Working

LEMMA JobStep ==
    ASSUME TypeOK, Aimed, IsFiniteSet(Started), [Next]_vars, NEW b \in Backups
    PROVE  JobMove(b)
<1> USE DEF TypeOK
<1>1. ASSUME job'[b] = job[b], deleting'[b].of \in {deleting[b].of, None}
      PROVE JobMove(b)
  BY <1>1 DEF JobMove
<1>2. CASE Bystanding
  BY <1>1, <1>2, Bystand
<1>3. ASSUME NEW c \in Backups, Inserting(c), deleting' = deleting PROVE JobMove(b)
  <2>1. CASE b = c
    BY <1>3, <2>1, InsertMove DEF JobMove
  <2>2. CASE b # c
    BY <1>1, <1>3, <2>2, InsertMove
  <2> QED  BY <2>1, <2>2
<1>4. ASSUME NEW w \in Backups, ClientGone(w) PROVE JobMove(b)
  <2>1. CASE b = w
    <3>1. job' = [job EXCEPT ![b].gone = TRUE]
      BY <1>4, <2>1 DEF ClientGone
    <3>2. job'[b].pc = job[b].pc /\ job'[b].todo = job[b].todo
      BY <3>1 DEF Job
    <3>3. b \in cut' /\ deleting'[b].of \in cut' \cup {None}
      BY <1>4, <2>1, BackupsAssumption DEF ClientGone
    <3> QED  BY <3>2, <3>3 DEF JobMove
  <2>2. CASE b # w
    BY <1>1, <1>4, <2>2 DEF ClientGone
  <2> QED  BY <2>1, <2>2
<1>5. ASSUME NEW w \in Backups, Working(w) PROVE JobMove(b)
  <2>1. CASE b = w
    BY <1>5, <2>1, WorkingJob
  <2>2. CASE b # w
    <3>1. job'[b] = job[b]
      BY <1>5, <2>2, WorkingRow
    <3>2. deleting'[b] = deleting[b]
      BY <1>5, <2>2 DEF Working, ReadBackup, Dump, Store, SaveCompleted, MarkFailed, RecordRun,
         ListExpired, ExpireNext
    <3> QED  BY <1>1, <3>1, <3>2
  <2> QED  BY <2>1, <2>2
<1>6. ASSUME NEW c \in Backups, NEW d \in Slots, DeleteRequest(d, c) PROVE JobMove(b)
  <2>1. b # d
    BY BackupsAssumption
  <2> QED  BY <1>1, <1>6, <2>1 DEF DeleteRequest
<1>7. ASSUME NEW d \in Slots \cup Backups, Deleting(d) PROVE JobMove(b)
  <2>1. /\ job' = job
        /\ \/ deleting' = [deleting EXCEPT ![d].pc = "row"]
           \/ deleting' = [deleting EXCEPT ![d] = NotDeleting]
    BY <1>7 DEF Deleting, DeleteFile, DeleteRow, Outcome
  <2>2. deleting'[b].of \in {deleting[b].of, None}
    BY <2>1 DEF NotDeleting
  <2> QED  BY <1>1, <2>1, <2>2
<1>8. ASSUME NEW p \in Policies, DeletePolicy(p) PROVE JobMove(b)
  BY <1>1, <1>8 DEF DeletePolicy
<1>9. CASE ServerDeleted
  BY <1>1, <1>9 DEF ServerDeleted
<1>10. CASE Crash
  BY <1>10 DEF Crash, IdleJob, JobMove, Performing
<1> QED  BY <1>2, <1>3, <1>4, <1>5, <1>6, <1>7, <1>8, <1>9, <1>10, Steps

LEMMA HistoryStep ==
    ASSUME TypeOK, Aimed, IsFiniteSet(Started), [Next]_vars
    PROVE  cut \subseteq cut' /\ asked \subseteq asked' /\ early \subseteq early'
<1>1. CASE Bystanding
  BY <1>1, Bystand
<1>2. ASSUME NEW w \in Backups, Working(w)
      PROVE  cut \subseteq cut' /\ asked \subseteq asked' /\ early \subseteq early'
  BY <1>2 DEF Working, ReadBackup, Dump, Store, SaveCompleted, MarkFailed, RecordRun,
     ListExpired, ExpireNext, Outcome, NoFault, Fault, history
<1>3. ASSUME NEW d \in Slots \cup Backups, Deleting(d)
      PROVE  cut \subseteq cut' /\ asked \subseteq asked' /\ early \subseteq early'
  BY <1>3 DEF Deleting, DeleteFile, DeleteRow, Outcome, NoFault, Fault
<1>4. ASSUME NEW c \in Backups, NEW d \in Slots, DeleteRequest(d, c)
      PROVE  cut \subseteq cut' /\ asked \subseteq asked' /\ early \subseteq early'
  BY <1>4 DEF DeleteRequest, Charged
<1>5. ASSUME NEW w \in Backups, ClientGone(w)
      PROVE  cut \subseteq cut' /\ asked \subseteq asked' /\ early \subseteq early'
  BY <1>5 DEF ClientGone
<1>6. CASE Crash \/ ServerDeleted \/ \E p \in Policies : DeletePolicy(p)
  BY <1>6 DEF Crash, ServerDeleted, DeletePolicy, Charged, TypeOK
<1> QED  BY <1>1, <1>2, <1>3, <1>4, <1>5, <1>6, Steps

-----------------------------------------------------------------------------
(* The invariant *)

\* Its worker is done with the dump, so the file and the row only go.
Settled(b) == row[b].status \in {"completed", "deleted"} /\ job[b].pc \notin Performing

\* Removing b leaves retention_count newer ones, unless somebody deletes by hand.
Spared(b) ==
    Exists(b) /\ row[b].policy # None /\ asked = {} => Cardinality(Newer(b)) >= RetentionCount

\* Files on the disk are told apart by their second.  What the invariant says of
\* files rests on that, so on Spaced.
NamesDiffer == \A b, c \in Started : b # c => row[b].name # row[c].name

FileKept(b) ==
    /\ job[b].pc = "save" /\ row[b].status = "running" /\ b \notin cut => Held(b)
    /\ row[b].status = "completed" /\ b \notin cut =>
         Held(b) \/ \E d \in Slots \cup Backups : deleting[d] = [pc |-> "row", of |-> b]
    /\ row[b].status = "deleted" /\ b \notin cut \cup early => ~Held(b)

BackupKept(b) ==
    /\ job[b].pc \in Performing => row[b].status \in {"running", "deleted"}
    /\ row[b].status = "deleted" /\ b \notin early => job[b].pc \notin Performing
    /\ job[b].gone => b \in cut
    /\ Spaced => FileKept(b)

DeletionKept(d) ==
    LET b == deleting[d].of IN
    /\ deleting[d].pc = "file" => Settled(b)
    /\ deleting[d].pc = "row" /\ b \notin early => Settled(b)
    /\ Spaced /\ deleting[d].pc = "row" /\ b \notin early \cup cut => ~Held(b)
    /\ d \in Slots /\ deleting[d].pc # "idle" => asked # {}
    /\ d \in Backups /\ job[d].gone /\ b # None => b \in cut
    /\ d \in Backups /\ deleting[d].pc # "idle" => Settled(b) /\ Spared(b)

TodoKept(b) == \A c \in job[b].todo : Settled(c) /\ Spared(c)

Kept ==
    /\ Spaced => NamesDiffer
    /\ \A b \in Backups : BackupKept(b) /\ TodoKept(b)
    /\ \A d \in Slots \cup Backups : DeletionKept(d)

-----------------------------------------------------------------------------
(* What a step does to a deletion *)

Released(d) ==
    /\ deleting'[d] = NotDeleting
    /\ deleting[d].pc = "row" =>
         deleting[d].of \in cut' \/ row'[deleting[d].of].status # "completed"

FileGone(d) ==
    /\ deleting[d].pc = "file" /\ deleting'[d] = [pc |-> "row", of |-> deleting[d].of]
    /\ Erase(deleting[d].of) /\ row' = row

\* What a delete reads of the row of b, and so what it will do.
Aims(b) == [pc |-> IF row[b].status = "completed" THEN "file" ELSE "row", of |-> b]

Asks(d) ==
    /\ d \in Slots /\ deleting[d].pc = "idle" /\ row' = row /\ asked' # {} /\ UNCHANGED stores
    /\ \E b \in Backups : /\ Exists(b) /\ deleting'[d] = Aims(b)
                          /\ row[b].status = "completed" \/ b \in early'

Expires(d) ==
    /\ d \in Backups /\ deleting[d] = NotDeleting /\ row' = row /\ ~job'[d].gone /\ UNCHANGED stores
    /\ \E b \in job[d].todo : Exists(b) /\ deleting'[d] = Aims(b)

SlotMove(d) ==
    deleting'[d] = deleting[d] \/ Released(d) \/ FileGone(d) \/ Asks(d) \/ Expires(d)

LEMMA ExpireSlot ==
    ASSUME TypeOK, NEW b \in Backups, ExpireNext(b)
    PROVE  SlotMove(b)
<1> USE DEF TypeOK
<1>1. CASE deleting' = deleting
  BY <1>1 DEF SlotMove
<1>2. ASSUME NEW v \in job[b].todo, job' = [job EXCEPT ![b].todo = job[b].todo \ {v}],
             deleting' = [deleting EXCEPT ![b] =
                 IF ~Exists(v) \/ job[b].gone THEN NotDeleting
                 ELSE [pc |-> IF row[v].status = "completed" THEN "file" ELSE "row", of |-> v]]
      PROVE  SlotMove(b)
  <2>1. deleting[b] = NotDeleting /\ row' = row /\ UNCHANGED stores
    BY <1>2 DEF ExpireNext
  <2>2. job'[b].gone = job[b].gone
    BY <1>2 DEF Job
  <2>3. CASE ~Exists(v) \/ job[b].gone
    BY <1>2, <2>1, <2>3 DEF SlotMove
  <2>4. CASE Exists(v) /\ ~job[b].gone
    <3>1. deleting'[b] = Aims(v)
      BY <1>2, <2>4 DEF Aims
    <3> QED  BY <2>1, <2>2, <2>4, <3>1 DEF SlotMove, Expires
  <2> QED  BY <2>3, <2>4
<1> QED  BY <1>1, <1>2 DEF ExpireNext

LEMMA DeletingSlot ==
    ASSUME TypeOK, Aimed, NEW d \in Slots \cup Backups, Deleting(d), DeletionKept(d)
    PROVE  /\ Released(d) \/ FileGone(d)
           /\ \A e \in (Slots \cup Backups) \ {d} : deleting'[e] = deleting[e]
<1> USE DEF TypeOK
<1> DEFINE b == deleting[d].of
<1>0. b \in Backups /\ b # None
  <2>1. deleting[d].pc # "idle"
    BY DEF Deleting, DeleteFile, DeleteRow
  <2>2. b \in Backups
    BY <2>1 DEF Aimed
  <2> QED  BY <2>2, BackupsAssumption
<1>1. CASE DeleteFile(d)
  <2>1. CASE deleting' = [deleting EXCEPT ![d].pc = "row"] /\ Erase(b)
    BY <1>1, <2>1 DEF DeleteFile, FileGone
  <2>2. CASE deleting' = [deleting EXCEPT ![d] = NotDeleting]
    BY <1>1, <2>2 DEF DeleteFile, Released
  <2> QED  BY <1>1, <2>1, <2>2 DEF DeleteFile, Outcome
<1>2. CASE DeleteRow(d)
  <2>1. deleting' = [deleting EXCEPT ![d] = NotDeleting]
    BY <1>2 DEF DeleteRow
  <2>2. b \in cut' \/ row'[b].status # "completed"
    <3>1. CASE row' = [row EXCEPT ![b].status = "deleted"]
      BY <1>0, <3>1 DEF Row
    <3>2. CASE row' = row /\ ~Exists(b)
      BY <3>2 DEF Exists
    <3>3. CASE Cancelled(d) /\ cut' = cut
      BY <1>0, <3>3 DEF DeletionKept, Cancelled
    <3>4. CASE cut' = cut \cup {b}
      BY <3>4
    <3> QED  BY <1>2, <3>1, <3>2, <3>3, <3>4 DEF DeleteRow, Outcome, NoFault, Fault
  <2> QED  BY <2>1, <2>2 DEF Released
<1> QED  BY <1>1, <1>2 DEF Deleting

LEMMA SlotStep ==
    ASSUME TypeOK, Aimed, IsFiniteSet(Started), [Next]_vars, NEW d \in Slots \cup Backups,
           \A e \in Slots \cup Backups : DeletionKept(e)
    PROVE  SlotMove(d)
<1> USE DEF TypeOK
<1>1. ASSUME deleting'[d] = deleting[d] PROVE SlotMove(d)
  BY <1>1 DEF SlotMove
<1>2. CASE Bystanding
  BY <1>1, <1>2, Bystand
<1>3. CASE deleting' = deleting
  BY <1>1, <1>3
<1>4. ASSUME NEW w \in Backups, Working(w) PROVE SlotMove(d)
  <2>1. CASE ExpireNext(w)
    <3>1. CASE w = d
      BY <2>1, <3>1, ExpireSlot
    <3>2. CASE w # d
      BY <1>1, <2>1, <3>2 DEF ExpireNext
    <3> QED  BY <3>1, <3>2
  <2>2. CASE ~ExpireNext(w)
    BY <1>3, <1>4, <2>2 DEF Working, ReadBackup, Dump, Store, SaveCompleted, MarkFailed, RecordRun,
       ListExpired
  <2> QED  BY <2>1, <2>2
<1>5. ASSUME NEW b \in Backups, NEW e \in Slots, DeleteRequest(e, b) PROVE SlotMove(d)
  <2>1. CASE e = d
    <3>1. /\ deleting'[d] = Aims(b) /\ Exists(b) /\ deleting[d].pc = "idle"
          /\ row' = row /\ UNCHANGED stores
      BY <1>5, <2>1 DEF DeleteRequest, Aims
    <3>2. asked' # {} /\ (row[b].status = "completed" \/ b \in early')
      BY <1>5 DEF DeleteRequest
    <3> QED  BY <2>1, <3>1, <3>2 DEF SlotMove, Asks
  <2>2. CASE e # d
    BY <1>1, <1>5, <2>2 DEF DeleteRequest
  <2> QED  BY <2>1, <2>2
<1>6. ASSUME NEW e \in Slots \cup Backups, Deleting(e) PROVE SlotMove(d)
  BY <1>1, <1>6, DeletingSlot DEF SlotMove
<1>7. CASE Crash
  <2>1. deleting'[d] = NotDeleting
    BY <1>7 DEF Crash
  <2>2. deleting[d].pc = "row" => deleting[d].of \in cut'
    <3> SUFFICES ASSUME deleting[d].pc = "row" PROVE deleting[d].of \in cut'
      OBVIOUS
    <3>1. deleting[d].of \in Backups
      BY DEF Aimed
    <3>2. Busy(deleting[d].of)
      BY DEF Busy
    <3> QED  BY <1>7, <3>1, <3>2 DEF Crash
  <2> QED  BY <2>1, <2>2 DEF SlotMove, Released
<1>8. ASSUME NEW b \in Backups, ClientGone(b) PROVE SlotMove(d)
  BY <1>3, <1>8 DEF ClientGone
<1>9. CASE ServerDeleted \/ \E p \in Policies : DeletePolicy(p)
  BY <1>3, <1>9 DEF ServerDeleted, DeletePolicy
<1> QED  BY <1>2, <1>3, <1>4, <1>5, <1>6, <1>7, <1>8, <1>9, Steps

-----------------------------------------------------------------------------
(* What a step does to a file *)

LEMMA PutHeld ==
    ASSUME TypeOK, NamesDiffer, NEW c \in Backups, row[c].status # "absent", Put(c), row' = row
    PROVE  /\ Held(c)'
           /\ \A b \in Started \ {c} : Held(b)' = Held(b)
<1> USE DEF TypeOK
<1>1. row[c].name \in 0 .. MaxSecond /\ \A b \in Started \ {c} : row[b].name # row[c].name
  BY DEF NamesDiffer, Started, Row
<1>2. CASE row[c].storage = "local"
  <2>1. disk' = [disk EXCEPT ![row[c].name] = c] /\ drive' = drive
    BY <1>2 DEF Put
  <2> QED  BY <1>1, <1>2, <2>1 DEF Held
<1>3. CASE row[c].storage # "local"
  <2>1. drive' = drive \cup {c} /\ disk' = disk
    BY <1>3 DEF Put
  <2> QED  BY <1>3, <2>1 DEF Held
<1> QED  BY <1>2, <1>3

LEMMA EraseHeld ==
    ASSUME TypeOK, NamesDiffer, NEW c \in Backups, row[c].status # "absent", Erase(c), row' = row
    PROVE  /\ ~Held(c)'
           /\ \A b \in Started \ {c} : Held(b)' = Held(b)
<1> USE DEF TypeOK
<1>1. row[c].name \in 0 .. MaxSecond /\ \A b \in Started \ {c} : row[b].name # row[c].name
  BY DEF NamesDiffer, Started, Row
<1>2. CASE row[c].storage = "local"
  <2>1. disk' = [disk EXCEPT ![row[c].name] = None] /\ drive' = drive
    BY <1>2 DEF Erase
  <2>2. c # None /\ \A b \in Backups : b # None
    BY BackupsAssumption
  <2> QED  BY <1>1, <1>2, <2>1, <2>2 DEF Held
<1>3. CASE row[c].storage # "local"
  <2>1. drive' = drive \ {c} /\ disk' = disk
    BY <1>3 DEF Erase
  <2> QED  BY <1>3, <2>1 DEF Held
<1> QED  BY <1>2, <1>3

\* A file appears when its worker stores it, and goes when it is deleted.
HeldMove(b) ==
    /\ Held(b)' /\ ~Held(b) => job[b].pc = "store"
    /\ Held(b) /\ ~Held(b)' =>
         \/ b \in cut'
         \/ \E d \in Slots \cup Backups :
              /\ deleting[d] = [pc |-> "file", of |-> b] /\ deleting'[d] = [pc |-> "row", of |-> b]

LEMMA HeldStep ==
    ASSUME TypeOK, Aimed, IsFiniteSet(Started), [Next]_vars, Kept, Spaced,
           NEW b \in Started
    PROVE  HeldMove(b)
<1> USE DEF TypeOK
<1>0. b \in Backups /\ row[b].status # "absent"
  BY DEF Started
<1>1. ASSUME UNCHANGED stores PROVE HeldMove(b)
  <2>1. row'[b].storage = row[b].storage /\ row'[b].name = row[b].name
    <3>1. RowMove(b)
      BY <1>0, RowStep
    <3>2. ~Inserting(b)
      BY <1>0, InsertMove
    <3>3. RowEnded(b) => row'[b].storage = row[b].storage /\ row'[b].name = row[b].name
      BY <1>0 DEF RowEnded, Row
    <3> QED  BY <3>1, <3>2, <3>3 DEF RowMove, RowSame, RowDeleted
  <2> QED  BY <1>1, <2>1 DEF HeldMove, Held, stores
<1>2. ASSUME NEW w \in Backups, Working(w) PROVE HeldMove(b)
  <2>1. CASE Store(w) /\ Put(w)
    <3>1. row' = row /\ job[w].pc = "store"
      BY <2>1 DEF Store
    <3>2. row[w].status # "absent"
      BY <3>1 DEF Kept, BackupKept, Performing
    <3>3. CASE w = b
      BY <2>1, <3>1, <3>2, <3>3, PutHeld DEF Kept, HeldMove
    <3>4. CASE w # b
      <4>1. Held(b)' = Held(b)
        BY <2>1, <3>1, <3>2, <3>4, PutHeld DEF Kept
      <4> QED  BY <4>1 DEF HeldMove
    <3> QED  BY <3>3, <3>4
  <2>2. CASE ~(Store(w) /\ Put(w))
    <3>1. UNCHANGED stores
      BY <1>2, <2>2 DEF Working, ReadBackup, Dump, Store, SaveCompleted, MarkFailed, RecordRun,
         ListExpired, ExpireNext, Outcome
    <3> QED  BY <1>1, <3>1
  <2> QED  BY <2>1, <2>2
<1>3. ASSUME NEW d \in Slots \cup Backups, Deleting(d) PROVE HeldMove(b)
  <2>1. CASE UNCHANGED stores
    BY <1>1, <2>1
  <2>2. ASSUME NEW v \in Backups, v = deleting[d].of, DeleteFile(d), Erase(v)
        PROVE  HeldMove(b)
    <3>1. row' = row /\ deleting[d].pc = "file"
      BY <2>2 DEF DeleteFile
    <3>2. row[v].status # "absent"
      BY <2>2, <3>1 DEF Kept, DeletionKept, Settled
    <3>3. CASE v = b
      <4>1. ~Held(b)'
        BY <2>2, <3>1, <3>2, <3>3, EraseHeld DEF Kept
      <4>2. CASE deleting' = [deleting EXCEPT ![d].pc = "row"]
        <5>1. deleting[d] = [pc |-> "file", of |-> b] /\ deleting'[d] = [pc |-> "row", of |-> b]
          BY <2>2, <3>1, <3>3, <4>2
        <5> QED  BY <4>1, <5>1 DEF HeldMove
      <4>3. CASE b \in cut'
        BY <4>1, <4>3 DEF HeldMove
      <4>4. CASE Cancelled(d) /\ cut' = cut
        <5>1. b \in cut'
          <6>1. d \in Backups /\ job[d].gone /\ DeletionKept(d)
            BY <4>4 DEF Cancelled, Kept
          <6>2. deleting[d].of = b /\ b # None
            BY <1>0, <2>2, <3>3, BackupsAssumption
          <6>3. b \in cut
            BY <6>1, <6>2 DEF DeletionKept
          <6> QED  BY <4>4, <6>3
        <5> QED  BY <4>3, <5>1
      <4> QED  BY <2>2, <3>3, <4>2, <4>3, <4>4 DEF DeleteFile, Outcome, NoFault, Fault
    <3>4. CASE v # b
      <4>1. Held(b)' = Held(b)
        BY <2>2, <3>1, <3>2, <3>4, EraseHeld DEF Kept
      <4> QED  BY <4>1 DEF HeldMove
    <3> QED  BY <3>3, <3>4
  <2>3. deleting[d].pc = "file" => deleting[d].of \in Backups
    BY DEF Aimed
  <2> QED  BY <1>3, <2>1, <2>2, <2>3, ZenonT(40) DEF Deleting, DeleteFile, DeleteRow, Outcome
<1>4. CASE Bystanding
  BY <1>1, <1>4, Bystand
<1>5. ASSUME \/ \E c \in Backups : ClientGone(c) \/ \E d \in Slots : DeleteRequest(d, c)
             \/ ServerDeleted \/ Crash \/ \E p \in Policies : DeletePolicy(p)
      PROVE  UNCHANGED stores
  BY <1>5 DEF ClientGone, DeleteRequest, ServerDeleted, Crash, DeletePolicy
<1> QED  BY <1>1, <1>2, <1>3, <1>4, <1>5, Steps

-----------------------------------------------------------------------------
(* The invariant is kept *)

LEMMA SettledStep ==
    ASSUME TypeOK, Aimed, IsFiniteSet(Started), [Next]_vars, NEW b \in Backups, Settled(b)
    PROVE  Settled(b)'
<1>1. RowMove(b) /\ JobMove(b) /\ ~Inserting(b)
  BY RowStep, JobStep, InsertMove DEF Settled
<1> QED  BY <1>1 DEF Settled, RowMove, RowSame, RowEnded, RowDeleted, JobMove

\* What goes is a backup of no policy, or leaves the newest ones of its policy.
LEMMA SparedStep ==
    ASSUME TypeOK, Aimed, IsFiniteSet(Started), IsFiniteSet(Started'), [Next]_vars, Kept,
           NEW b \in Backups, Settled(b), Spared(b)
    PROVE  Spared(b)'
<1> SUFFICES ASSUME Exists(b)', row'[b].policy # None, asked' = {}
             PROVE  Cardinality(Newer(b)') >= RetentionCount
  BY DEF Spared
<1> USE DEF TypeOK
<1>1. asked = {}
  BY HistoryStep
<1>2. RowSame(b) /\ row[b].status = "completed"
  <2>1. RowMove(b) /\ ~Inserting(b)
    BY RowStep, InsertMove DEF Settled
  <2>2. ~RowEnded(b) /\ ~RowDeleted(b)
    BY DEF Settled, RowEnded, RowDeleted, Exists
  <2> QED  BY <2>1, <2>2 DEF RowMove, RowSame, Settled, Exists
<1>3. row[b].policy # None /\ Cardinality(Newer(b)) >= RetentionCount
  <2>1. row[b].policy # None
    BY <1>2, PolicyStep DEF PolicyMove
  <2> QED  BY <1>1, <1>2, <2>1 DEF Spared, Exists
<1>4. IsFiniteSet(Newer(b)')
  <2>1. Newer(b)' \subseteq Started'
    BY DEF Newer, CompletedOf, Started
  <2> QED  BY <2>1, FS_Subset
<1>5. ASSUME NEW c \in Newer(b), c \notin Newer(b)'
      PROVE  /\ Cardinality(Newer(c)) >= RetentionCount /\ Newer(c) \subseteq Newer(b)'
  <2>1. /\ c \in Backups /\ row[c].status = "completed" /\ row[c].policy = row[b].policy
        /\ row[c].seq > row[b].seq
    BY <1>5 DEF Newer, CompletedOf
  <2>2. row'[c].policy = row'[b].policy
    BY <1>2, <2>1, PolicyStep DEF PolicyMove
  <2>3. ~RowSame(c)
    BY <1>2, <1>5, <2>1, <2>2 DEF RowSame, Newer, CompletedOf
  <2>4. ~Inserting(c) /\ ~RowEnded(c)
    BY <2>1, InsertMove DEF RowEnded, Kept, BackupKept
  <2>5. RowMove(c)
    BY <2>1, RowStep
  <2>6. RowDeleted(c)
    BY <2>3, <2>4, <2>5 DEF RowMove
  <2>7. PICK d \in Slots \cup Backups : /\ deleting[d] = [pc |-> "row", of |-> c]
                                        /\ row' = [row EXCEPT ![c].status = "deleted"]
    BY <2>6 DEF RowDeleted, Exists
  <2>8. Spared(c)
    BY <1>1, <2>7 DEF Kept, DeletionKept
  <2>9. Cardinality(Newer(c)) >= RetentionCount
    BY <1>1, <1>3, <2>1, <2>8 DEF Spared, Exists
  <2>10. ASSUME NEW e \in Newer(c) PROVE e \in Newer(b)'
    <3>1. /\ e \in Backups /\ row[e].status = "completed" /\ row[e].policy = row[c].policy
          /\ row[e].seq > row[c].seq
      BY <2>10 DEF Newer, CompletedOf
    <3>2. e # c /\ row[e].seq > row[b].seq
      BY <2>1, <3>1 DEF Row
    <3>3. row'[e] = row[e]
      BY <2>7, <3>1, <3>2
    <3>4. row'[b].policy = row[b].policy /\ row'[b].seq = row[b].seq
      BY <1>2, <2>7 DEF RowSame, Row
    <3> QED  BY <2>1, <3>1, <3>2, <3>3, <3>4 DEF Newer, CompletedOf
  <2> QED  BY <2>9, <2>10
<1>6. CASE Newer(b) \subseteq Newer(b)'
  <2>1. Cardinality(Newer(b)) <= Cardinality(Newer(b)')
    BY <1>4, <1>6, FS_Subset
  <2>2. Cardinality(Newer(b)') \in Nat /\ Cardinality(Newer(b)) \in Nat
    BY <1>4, <1>6, FS_Subset, FS_CardinalityType
  <2> QED  BY <1>3, <2>1, <2>2, BackupsAssumption
<1>7. ASSUME NEW c \in Newer(b), c \notin Newer(b)'
      PROVE  Cardinality(Newer(b)') >= RetentionCount
  <2>0. Cardinality(Newer(c)) >= RetentionCount /\ Newer(c) \subseteq Newer(b)'
    BY <1>5, <1>7
  <2>1. Cardinality(Newer(c)) <= Cardinality(Newer(b)')
    BY <1>4, <2>0, FS_Subset
  <2>2. Cardinality(Newer(b)') \in Nat /\ Cardinality(Newer(c)) \in Nat
    BY <1>4, <2>0, FS_Subset, FS_CardinalityType
  <2> QED  BY <2>0, <2>1, <2>2, BackupsAssumption
<1> QED  BY <1>6, <1>7

LEMMA BackupKeptStep ==
    ASSUME TypeOK, Aimed, IsFiniteSet(Started), [Next]_vars, Kept, NEW b \in Backups
    PROVE  BackupKept(b)'
<1> USE DEF TypeOK
<1>0. BackupKept(b) /\ \A d \in Slots \cup Backups : DeletionKept(d)
  BY DEF Kept
<1>1. RowMove(b) /\ JobMove(b) /\ (Spaced /\ row[b].status # "absent" => HeldMove(b))
  BY RowStep, JobStep, HeldStep DEF Started
<1>2. cut \subseteq cut' /\ early \subseteq early'
  BY HistoryStep
<1>3. CASE Inserting(b)
  BY <1>0, <1>2, <1>3, InsertMove DEF BackupKept, FileKept
<1>4. ASSUME ~Inserting(b), row[b].status = "absent" PROVE BackupKept(b)'
  <2>1. RowSame(b)
    BY <1>1, <1>4 DEF RowMove, RowEnded, RowDeleted, Exists
  <2>2. row'[b].status = "absent" /\ job'[b].pc \notin Performing
    BY <1>0, <1>1, <1>4, <2>1 DEF RowSame, JobMove, BackupKept
  <2>3. job'[b].gone => b \in cut'
    BY <1>0, <1>1, <1>2 DEF JobMove, BackupKept
  <2> QED  BY <2>2, <2>3 DEF BackupKept, FileKept, Performing
<1>5. ASSUME ~Inserting(b), row[b].status # "absent" PROVE BackupKept(b)'
  <2> USE DEF FileKept
  <2> DEFINE Gone == \E d \in Slots \cup Backups : deleting[d] = [pc |-> "row", of |-> b]
  <2>0. Spaced => HeldMove(b)
    BY <1>1, <1>5
  <2>1. job'[b].pc \in Performing => job[b].pc \in Performing
    BY <1>1, <1>5 DEF JobMove
  <2>2. job'[b].pc \in Performing => row'[b].status \in {"running", "deleted"}
    BY <1>0, <1>1, <1>5, <2>1 DEF RowMove, RowSame, RowEnded, RowDeleted, BackupKept
  <2>3. row'[b].status = "deleted" /\ b \notin early' => job'[b].pc \notin Performing
    <3>1. CASE RowSame(b)
      BY <1>0, <1>2, <2>1, <3>1 DEF RowSame, BackupKept
    <3>2. ASSUME RowDeleted(b), b \notin early' PROVE job[b].pc \notin Performing
      BY <1>0, <1>2, <3>2 DEF RowDeleted, DeletionKept, Settled
    <3>3. CASE RowEnded(b)
      BY <3>3 DEF RowEnded
    <3> QED  BY <1>1, <1>5, <2>1, <3>1, <3>2, <3>3 DEF RowMove
  <2>4. ASSUME Spaced, job'[b].pc = "save", row'[b].status = "running", b \notin cut' PROVE Held(b)'
    <3>1. row[b].status = "running"
      BY <1>1, <1>5, <2>4 DEF RowMove, RowSame, RowEnded, RowDeleted, Performing
    <3>2. CASE job[b].pc = "save"
      <4>1. Held(b)
        BY <1>0, <1>2, <2>4, <3>1, <3>2 DEF BackupKept
      <4>2. \A d \in Slots \cup Backups : deleting[d] # [pc |-> "file", of |-> b]
        BY <1>0, <3>1 DEF DeletionKept, Settled
      <4> QED  BY <2>0, <2>4, <4>1, <4>2 DEF HeldMove
    <3>3. CASE job[b].pc # "save"
      BY <1>1, <1>5, <2>4, <3>3, PutHeld DEF JobMove, Kept
    <3> QED  BY <3>2, <3>3
  <2>5. ASSUME Spaced, row'[b].status = "completed", b \notin cut'
        PROVE  Held(b)' \/ \E d \in Slots \cup Backups : deleting'[d] = [pc |-> "row", of |-> b]
    <3>1. ASSUME NEW d \in Slots \cup Backups, deleting[d] = [pc |-> "row", of |-> b]
          PROVE  deleting'[d] = [pc |-> "row", of |-> b]
      <4>1. SlotMove(d)
        BY <1>0, SlotStep
      <4> QED  BY <2>5, <3>1, <4>1 DEF SlotMove, Released, FileGone, Asks, Expires, NotDeleting
    <3>2. Held(b) \/ Gone
      <4>1. CASE RowSame(b)
        BY <1>0, <1>2, <2>5, <4>1 DEF RowSame, BackupKept
      <4>2. CASE RowEnded(b)
        BY <1>0, <1>2, <2>5, <4>2 DEF RowEnded, Exists, BackupKept
      <4> QED  BY <1>1, <1>5, <2>5, <4>1, <4>2 DEF RowMove, RowDeleted
    <3>3. CASE Held(b)
      BY <2>0, <2>5, <3>3 DEF HeldMove
    <3> QED  BY <3>1, <3>2, <3>3
  <2>6. ASSUME Spaced, row'[b].status = "deleted", b \notin cut' \cup early' PROVE ~Held(b)'
    <3>1. job[b].pc # "store" /\ ~Held(b)
      <4>1. CASE RowSame(b)
        BY <1>0, <1>2, <2>6, <4>1 DEF RowSame, BackupKept, Performing
      <4>2. CASE RowDeleted(b)
        BY <1>0, <1>2, <2>6, <4>2 DEF RowDeleted, DeletionKept, Settled, Performing
      <4>3. ~RowEnded(b)
        BY <2>6 DEF RowEnded, Row
      <4> QED  BY <1>1, <1>5, <4>1, <4>2, <4>3 DEF RowMove
    <3> QED  BY <2>0, <2>6, <3>1 DEF HeldMove
  <2>7. job'[b].gone => b \in cut'
    BY <1>0, <1>1, <1>2 DEF JobMove, BackupKept
  <2> QED  BY <2>2, <2>3, <2>4, <2>5, <2>6, <2>7 DEF BackupKept
<1> QED  BY <1>3, <1>4, <1>5

LEMMA TodoKeptStep ==
    ASSUME TypeOK, Aimed, IsFiniteSet(Started), IsFiniteSet(Started'), [Next]_vars, Kept,
           NEW b \in Backups
    PROVE  TodoKept(b)'
<1> USE DEF TypeOK
<1>1. ASSUME NEW c \in Backups, Settled(c), Spared(c) PROVE Settled(c)' /\ Spared(c)'
  BY <1>1, SettledStep, SparedStep
<1>2. JobMove(b)
  BY JobStep
<1>3. CASE job'[b].todo \subseteq job[b].todo
  <2>1. \A c \in job[b].todo : c \in Backups /\ Settled(c) /\ Spared(c)
    BY DEF Kept, TodoKept, Job
  <2> QED  BY <1>1, <1>3, <2>1 DEF TodoKept
<1>4. CASE job'[b].todo = Expired(job[b].for)
  <2>1. ASSUME NEW c \in Expired(job[b].for) PROVE c \in Backups /\ Settled(c) /\ Spared(c)
    <3>1. c \in Backups /\ row[c].status = "completed" /\ Cardinality(Newer(c)) >= RetentionCount
      BY <2>1 DEF Expired, CompletedOf
    <3>2. job[c].pc \notin Performing
      BY <3>1 DEF Kept, BackupKept
    <3> QED  BY <3>1, <3>2 DEF Settled, Spared
  <2> QED  BY <1>1, <1>4, <2>1 DEF TodoKept
<1> QED  BY <1>2, <1>3, <1>4 DEF JobMove

LEMMA DeletionKeptStep ==
    ASSUME TypeOK, Aimed, IsFiniteSet(Started), IsFiniteSet(Started'), [Next]_vars, Kept,
           NEW d \in Slots \cup Backups
    PROVE  DeletionKept(d)' /\ (deleting'[d].pc # "idle" => deleting'[d].of \in Backups)
<1> DEFINE Goal == DeletionKept(d)' /\ (deleting'[d].pc # "idle" => deleting'[d].of \in Backups)
<1> USE DEF TypeOK
<1>0. DeletionKept(d) /\ SlotMove(d) /\ (deleting[d].pc # "idle" => deleting[d].of \in Backups)
  BY SlotStep DEF Kept, Aimed
<1>1. ASSUME NEW c \in Backups, Settled(c) PROVE Settled(c)'
  BY <1>1, SettledStep
<1>2. ASSUME NEW c \in Backups, Settled(c), Spared(c) PROVE Spared(c)'
  BY <1>2, SparedStep
<1>3. cut \subseteq cut' /\ asked \subseteq asked' /\ early \subseteq early'
  BY HistoryStep
<1>4. ASSUME Spaced, NEW c \in Backups, Settled(c), ~Held(c) PROVE ~Held(c)'
  <2>1. HeldMove(c)
    BY <1>4, HeldStep DEF Settled, Started
  <2> QED  BY <1>4, <2>1 DEF HeldMove, Settled, Performing
<1>5. d \in Backups => JobMove(d)
  BY JobStep
<1>6. ASSUME NEW b \in Backups, deleting'[d].of = b, deleting'[d].pc = "row" \/ deleting'[d].pc = "file",
             deleting'[d].pc = "file" => Settled(b),
             deleting'[d].pc = "row" /\ b \notin early' => Settled(b),
             Spaced /\ deleting'[d].pc = "row" /\ b \notin early' \cup cut' => ~Held(b)',
             d \in Slots => asked' # {},
             d \in Backups /\ job'[d].gone => b \in cut',
             d \in Backups => Settled(b) /\ Spared(b)
      PROVE  Goal
  <2>1. Settled(b) => Settled(b)'
    BY <1>1
  <2>2. Settled(b) /\ Spared(b) => Spared(b)'
    BY <1>2
  <2> QED  BY <1>6, <2>1, <2>2 DEF DeletionKept
<1>7. CASE deleting'[d] = deleting[d] /\ deleting[d].pc = "idle"
  <2>1. d \in Backups /\ job'[d].gone /\ deleting'[d].of # None => deleting'[d].of \in cut'
    BY <1>0, <1>3, <1>5, <1>7 DEF JobMove, DeletionKept
  <2> QED  BY <1>7, <2>1 DEF DeletionKept
<1>8. CASE deleting'[d] = deleting[d] /\ deleting[d].pc # "idle"
  <2>1. PICK b \in Backups : b = deleting[d].of
    BY <1>0, <1>8
  <2>2. deleting[d].pc = "row" \/ deleting[d].pc = "file"
    BY <1>8
  <2>3. d \in Backups /\ job'[d].gone => b \in cut'
    <3>1. b # None
      BY BackupsAssumption
    <3> QED  BY <1>0, <1>3, <1>5, <1>8, <2>1, <3>1 DEF JobMove, DeletionKept
  <2>4. Spaced /\ deleting[d].pc = "row" /\ b \notin early' \cup cut' => Settled(b) /\ ~Held(b)
    BY <1>0, <1>3, <2>1 DEF DeletionKept
  <2>5. /\ deleting[d].pc = "file" => Settled(b)
        /\ d \in Slots => asked' # {}
        /\ d \in Backups => Settled(b) /\ Spared(b)
        /\ deleting[d].pc = "row" /\ b \notin early' => Settled(b)
    BY <1>0, <1>3, <1>8, <2>1 DEF DeletionKept
  <2> QED  BY <1>4, <1>6, <1>8, <2>1, <2>2, <2>3, <2>4, <2>5
<1>9. CASE Released(d)
  BY <1>9 DEF Released, NotDeleting, DeletionKept
<1>10. CASE FileGone(d)
  <2>1. PICK b \in Backups : b = deleting[d].of
    BY <1>0, <1>10 DEF FileGone
  <2>2. Settled(b)
    BY <1>0, <1>10, <2>1 DEF FileGone, DeletionKept
  <2>3. Spaced => ~Held(b)'
    BY <1>10, <2>1, <2>2, EraseHeld DEF FileGone, Settled, Kept
  <2>4. d \in Backups /\ job'[d].gone => b \in cut'
    <3>1. b # None /\ deleting'[d].of = b
      BY <1>10, <2>1, BackupsAssumption DEF FileGone
    <3> QED  BY <1>0, <1>3, <1>5, <2>1, <3>1 DEF JobMove, DeletionKept
  <2>5. (d \in Slots => asked' # {}) /\ (d \in Backups => Spared(b))
    BY <1>0, <1>3, <1>10, <2>1 DEF FileGone, DeletionKept
  <2>6. deleting'[d].pc = "row" /\ deleting'[d].of = b
    BY <1>10, <2>1 DEF FileGone
  <2> QED  BY <1>6, <2>2, <2>3, <2>4, <2>5, <2>6
<1>11. CASE Asks(d)
  <2>1. PICK b \in Backups : /\ Exists(b) /\ deleting'[d] = Aims(b)
                             /\ row[b].status = "completed" \/ b \in early'
    BY <1>11 DEF Asks
  <2>2. d \notin Backups /\ asked' # {}
    BY <1>11, BackupsAssumption DEF Asks
  <2>3. row[b].status = "completed" => Settled(b)
    BY DEF Settled, Kept, BackupKept
  <2>4. /\ deleting'[d].of = b
        /\ deleting'[d].pc = IF row[b].status = "completed" THEN "file" ELSE "row"
    BY <2>1 DEF Aims
  <2> QED  BY <1>6, <2>1, <2>2, <2>3, <2>4
<1>12. CASE Expires(d)
  <2>1. PICK b \in job[d].todo : Exists(b) /\ deleting'[d] = Aims(b)
    BY <1>12 DEF Expires
  <2>2. b \in Backups /\ Settled(b) /\ Spared(b)
    BY <1>12, <2>1 DEF Expires, Kept, TodoKept, Job
  <2>3. deleting'[d].of = b /\ deleting'[d].pc = "file"
    BY <2>1, <2>2 DEF Aims, Settled, Exists
  <2>4. d \notin Slots /\ ~job'[d].gone
    BY <1>12, BackupsAssumption DEF Expires
  <2> QED  BY <1>6, <2>2, <2>3, <2>4
<1> QED  BY <1>0, <1>7, <1>8, <1>9, <1>10, <1>11, <1>12 DEF SlotMove

LEMMA FiniteStep ==
    ASSUME TypeOK, Aimed, IsFiniteSet(Started), [Next]_vars
    PROVE  IsFiniteSet(Started')
<1>1. ASSUME NEW c \in Backups, Inserting(c) PROVE IsFiniteSet(Started')
  <2>1. Started' \subseteq Started \cup {c}
    BY <1>1, InsertMove DEF Started
  <2> QED  BY <2>1, FS_AddElement, FS_Subset
<1>2. CASE \A c \in Backups : ~Inserting(c)
  <2>1. \A c \in Backups : RowMove(c)
    BY RowStep
  <2>2. Started' \subseteq Started
    BY <1>2, <2>1 DEF Started, RowMove, RowSame, RowEnded, RowDeleted, Exists
  <2> QED  BY <2>2, FS_Subset
<1> QED  BY <1>1, <1>2

LEMMA NamesStep ==
    ASSUME TypeOK, Aimed, IsFiniteSet(Started), [Next]_vars, Spaced, NamesDiffer
    PROVE  NamesDiffer'
<1> SUFFICES ASSUME NEW b \in Backups, NEW c \in Backups, b # c,
                    row'[b].status # "absent", row'[c].status # "absent"
             PROVE  row'[b].name # row'[c].name
  BY DEF NamesDiffer, Started
<1>1. ASSUME NEW e \in Backups, Inserting(e) PROVE row'[b].name # row'[c].name
  <2>1. /\ \A x \in Backups : x # e => row'[x] = row[x]
        /\ row'[e].name = second /\ row[e].status = "absent"
        /\ \A x \in Backups : row[x].status # "absent" => row[x].name # second
    BY <1>1, InsertMove
  <2> QED  BY <2>1 DEF NamesDiffer, Started
<1>2. CASE \A e \in Backups : ~Inserting(e)
  <2>1. ASSUME NEW x \in Backups, row'[x].status # "absent"
        PROVE  row[x].status # "absent" /\ row'[x].name = row[x].name
    <3>1. RowMove(x)
      BY RowStep
    <3>2. RowEnded(x) => row'[x].name = row[x].name
      BY DEF RowEnded, TypeOK, Row
    <3> QED  BY <1>2, <2>1, <3>1, <3>2 DEF RowMove, RowSame, RowEnded, RowDeleted, Exists
  <2> QED  BY <2>1 DEF NamesDiffer, Started
<1> QED  BY <1>1, <1>2

-----------------------------------------------------------------------------
(* The theorems *)

LEMMA BaseInit == Init => Base
<1> SUFFICES ASSUME Init PROVE Base
  OBVIOUS
<1>1. Started = {}
  BY DEF Init, Started
<1>2. IsFiniteSet(Started)
  BY <1>1, FS_EmptySet
<1>3. row \in [Backups -> Row] /\ second \in 0 .. MaxSecond /\ budget \in Nat
  BY BackupsAssumption DEF Init, Row
<1>4. TypeOK
  BY <1>3, IdleTypes DEF Init, TypeOK, Deletion
<1>5. Aimed
  BY DEF Init, Aimed, NotDeleting
<1> QED  BY <1>2, <1>4, <1>5 DEF Base

Inv == Base /\ Kept

LEMMA InvInit == Init => Inv
<1> SUFFICES ASSUME Init PROVE Kept
  BY BaseInit DEF Inv
<1>1. \A b \in Backups : row[b].status = "absent" /\ job[b].pc = "idle" /\ job[b].todo = {} /\ ~job[b].gone
  BY DEF Init, IdleJob
<1>2. \A d \in Slots \cup Backups : deleting[d].pc = "idle" /\ deleting[d].of = None
  BY DEF Init, NotDeleting
<1> QED  BY <1>1, <1>2 DEF Kept, NamesDiffer, Started, BackupKept, TodoKept, DeletionKept, FileKept,
     Performing

LEMMA InvStep == Inv /\ [Next]_vars => Inv'
<1> SUFFICES ASSUME Inv, [Next]_vars PROVE Inv'
  OBVIOUS
<1>1. TypeOK /\ Aimed /\ IsFiniteSet(Started) /\ Kept
  BY DEF Inv, Base
<1>2. TypeOK' /\ IsFiniteSet(Started')
  BY <1>1, TypeStep, FiniteStep
<1>3. \A b \in Backups : BackupKept(b)' /\ TodoKept(b)'
  BY <1>1, <1>2, BackupKeptStep, TodoKeptStep
<1>4. \A d \in Slots \cup Backups :
        DeletionKept(d)' /\ (deleting'[d].pc # "idle" => deleting'[d].of \in Backups)
  BY <1>1, <1>2, DeletionKeptStep
<1>5. Spaced => NamesDiffer'
  BY <1>1, NamesStep DEF Kept
<1> QED  BY <1>2, <1>3, <1>4, <1>5 DEF Inv, Base, Kept, Aimed

\* The rows keep their types, and the retention of a policy leaves its retention_count
\* newest completed backups, however runs, retentions and the sweep of several policies
\* overlap, as long as nobody deletes by hand.
THEOREM RetentionIsSafe == Spec => [](TypeOK /\ RetentionSparesNewest)
<1>1. Inv => TypeOK /\ RetentionSparesNewest
  <2> SUFFICES ASSUME Inv PROVE TypeOK /\ RetentionSparesNewest
    OBVIOUS
  <2>1. TypeOK /\ \A b \in Backups : DeletionKept(b)
    BY DEF Inv, Base, Kept
  <2> QED  BY <2>1 DEF RetentionSparesNewest, DeletionKept, Spared
<1> QED  BY <1>1, InvInit, InvStep, PTL DEF Spec

\* As long as no two backups start within one second, the rows of the backups and the
\* dumps on the disk and in Drive tell one story, and retention spares the newest:
\* whatever workers, retentions, delete requests, outages, crashes and clients that
\* go away do at the same time.
THEOREM DumpsStayWithRows ==
    ASSUME Spaced
    PROVE  Spec => []DumpsMatchRows
<1>1. Inv => CompletedHasDump /\ NoOrphanDump
  <2> SUFFICES ASSUME Inv PROVE CompletedHasDump /\ NoOrphanDump
    OBVIOUS
  <2>1. \A b \in Backups : FileKept(b)
    BY DEF Inv, Kept, BackupKept
  <2> QED  BY <2>1 DEF CompletedHasDump, NoOrphanDump, FileKept
<1>2. Spec => [](TypeOK /\ RetentionSparesNewest)
  BY RetentionIsSafe
<1>3. TypeOK /\ RetentionSparesNewest /\ CompletedHasDump /\ NoOrphanDump => DumpsMatchRows
  BY DEF DumpsMatchRows
<1> QED  BY <1>1, <1>2, <1>3, InvInit, InvStep, PTL DEF Spec

-----------------------------------------------------------------------------
(* A retention takes no manual backup *)

\* A policy made the backup, or some policy was deleted and with it the trace of that.
Tied(b) == row[b].policy # None \/ \E p \in Policies : policy[p] = "deleted"

ForKept(b) ==
    /\ job[b].pc # "idle" /\ job[b].by # "manual" => job[b].for \in Policies
    /\ job[b].pc \in {"record", "list", "expire"} => job[b].by # "manual"

RetainKept ==
    \A b \in Backups :
        /\ ForKept(b)
        /\ \A c \in job[b].todo : Tied(c)
        /\ deleting[b].pc # "idle" => Tied(deleting[b].of)

LEMMA PolicyStays ==
    ASSUME TypeOK, [Next]_vars, NEW p \in Policies, policy[p] = "deleted"
    PROVE  policy'[p] = "deleted"
<1>1. CASE policy' = policy
  BY <1>1
<1>2. ASSUME NEW q \in Policies, CreatePolicy(q) \/ SetPolicyEnabled(q) \/ DeletePolicy(q)
      PROVE  policy'[p] = "deleted"
  <2>1. CASE q = p
    BY <1>2, <2>1 DEF CreatePolicy, SetPolicyEnabled, DeletePolicy
  <2>2. CASE q # p
    BY <1>2, <2>2 DEF CreatePolicy, SetPolicyEnabled, DeletePolicy, TypeOK
  <2> QED  BY <2>1, <2>2
<1>3. CASE ServerDeleted
  BY <1>3 DEF ServerDeleted
<1>4. ASSUME NEW b \in Backups, Working(b) PROVE policy' = policy
  BY <1>4 DEF Working, ReadBackup, Dump, Store, SaveCompleted, MarkFailed, RecordRun, ListExpired, ExpireNext
<1>5. ASSUME NEW d \in Slots \cup Backups, Deleting(d) PROVE policy' = policy
  BY <1>5 DEF Deleting, DeleteFile, DeleteRow
<1>6. ASSUME NEW b \in Backups, NEW st \in Storages,
             CreateBackup(b, st) \/ \E q \in Policies : RunPolicyNow(b, q, st) \/ SweepStart(b, q, st)
      PROVE  policy' = policy
  BY <1>6 DEF CreateBackup, RunPolicyNow, SweepStart
<1>7. ASSUME NEW b \in Backups, ClientGone(b) \/ \E d \in Slots : DeleteRequest(d, b) PROVE policy' = policy
  BY <1>7 DEF ClientGone, DeleteRequest
<1>8. ASSUME SweepTick \/ SweepNext \/ (\E q \in Policies : SweepSkip(q) \/ TimeComes(q))
             \/ ServerStops \/ ServerStarts \/ SecondPasses \/ Crash \/ UNCHANGED vars
      PROVE  policy' = policy
  BY <1>8 DEF SweepTick, SweepNext, SweepSkip, TimeComes, ServerStops, ServerStarts, SecondPasses, Crash, vars
<1> QED  BY <1>1, <1>2, <1>3, <1>4, <1>5, <1>6, <1>7, <1>8 DEF Next, Sweeping

LEMMA TiedStep ==
    ASSUME TypeOK, Aimed, IsFiniteSet(Started), [Next]_vars, NEW c \in Backups, row[c].status # "absent", Tied(c)
    PROVE  Tied(c)'
<1>1. ASSUME NEW p \in Policies, policy[p] = "deleted" PROVE Tied(c)'
  BY <1>1, PolicyStays DEF Tied
<1>2. ASSUME NEW p \in Policies, DeletePolicy(p) PROVE Tied(c)'
  <2>1. policy'[p] = "deleted"
    BY <1>2 DEF DeletePolicy, TypeOK
  <2> QED  BY <2>1 DEF Tied
<1>3. CASE row'[c].policy = row[c].policy /\ row[c].policy # None
  BY <1>3 DEF Tied
<1> QED  BY <1>1, <1>2, <1>3, PolicySame DEF Tied

\* Whose run a job is, is settled when it starts.
LEMMA ForStep ==
    ASSUME TypeOK, IsFiniteSet(Started), [Next]_vars, NEW b \in Backups, ForKept(b)
    PROVE  ForKept(b)'
<1> USE DEF TypeOK
<1>1. ASSUME job'[b] = job[b] PROVE ForKept(b)'
  BY <1>1 DEF ForKept
<1>2. ASSUME NEW c \in Backups, NEW p \in Policies \cup {None}, NEW st \in Storages, NEW by \in {"manual", "now", "sweep"},
             Insert(c, p, st, by), by # "manual" => p \in Policies
      PROVE  ForKept(b)'
  <2>1. PICK x : x = [IdleJob EXCEPT !.pc = "read", !.by = by, !.for = p]
    OBVIOUS
  <2>2. x.pc = "read" /\ x.by = by /\ x.for = p
    BY <2>1 DEF IdleJob
  <2>3. job' = [job EXCEPT ![c] = x]
    BY <1>2, <2>1 DEF Insert
  <2>4. CASE b = c
    BY <1>2, <2>2, <2>3, <2>4 DEF ForKept
  <2>5. CASE b # c
    BY <1>1, <2>3, <2>5
  <2> QED  BY <2>4, <2>5
<1>3. ASSUME NEW c \in Backups, NEW st \in Storages,
             CreateBackup(c, st) \/ \E p \in Policies : RunPolicyNow(c, p, st) \/ SweepStart(c, p, st)
      PROVE  ForKept(b)'
  <2>1. CASE CreateBackup(c, st)
    BY <1>2, <2>1 DEF CreateBackup
  <2>2. ASSUME NEW p \in Policies, RunPolicyNow(c, p, st) \/ SweepStart(c, p, st) PROVE ForKept(b)'
    BY <1>2, <2>2 DEF RunPolicyNow, SweepStart
  <2> QED  BY <1>3, <2>1, <2>2
<1>4. ASSUME job'[b].pc \in {"idle"} \cup Performing, job'[b].by = job[b].by, job'[b].for = job[b].for,
             job[b].pc # "idle"
      PROVE  ForKept(b)'
  BY <1>4 DEF ForKept, Performing
<1>5. ASSUME job'[b] = IdleJob PROVE ForKept(b)'
  BY <1>5 DEF ForKept, IdleJob
<1>6. ASSUME NEW ok, Performed(b, ok), job[b].pc # "idle" PROVE ForKept(b)'
  <2>1. CASE job[b].by = "manual"
    BY <1>5, <1>6, <2>1 DEF Performed
  <2>2. CASE job[b].by # "manual"
    <3>1. PICK x : x = [job[b] EXCEPT !.pc = "record", !.ok = ok]
      OBVIOUS
    <3>2. x.by = job[b].by /\ x.for = job[b].for /\ x.pc = "record"
      BY <3>1 DEF Job
    <3>3. job' = [job EXCEPT ![b] = x]
      BY <1>6, <2>2, <3>1 DEF Performed
    <3> QED  BY <1>6, <2>2, <3>2, <3>3 DEF ForKept
  <2> QED  BY <2>1, <2>2
<1>7. ASSUME NEW pc \in Performing, Step(b, pc), job[b].pc # "idle" PROVE ForKept(b)'
  <2>1. job'[b].pc = pc /\ job'[b].by = job[b].by /\ job'[b].for = job[b].for
    BY <1>7 DEF Step, Job
  <2> QED  BY <1>4, <1>7, <2>1
<1>8. ASSUME Working(b) PROVE ForKept(b)'
  <2>1. CASE ReadBackup(b)
    BY <1>6, <1>7, <2>1 DEF ReadBackup, Outcome, Performing
  <2>2. CASE Dump(b)
    BY <1>7, <2>2 DEF Dump, Outcome, Performing
  <2>3. CASE Store(b)
    BY <1>7, <2>3 DEF Store, Outcome, Performing
  <2>4. CASE SaveCompleted(b)
    BY <1>6, <1>7, <2>4 DEF SaveCompleted, Outcome, Performing
  <2>5. CASE MarkFailed(b)
    BY <1>6, <2>5 DEF MarkFailed
  <2>6. CASE RecordRun(b)
    <3>1. job'[b] = IdleJob \/ (/\ job'[b].pc = "list" /\ job'[b].by = job[b].by
                                /\ job'[b].for = job[b].for /\ job[b].pc = "record")
      BY <2>6 DEF RecordRun, Job
    <3> QED  BY <1>5, <3>1 DEF ForKept
  <2>7. CASE ListExpired(b)
    <3>1. CASE job' = [job EXCEPT ![b] = IdleJob]
      BY <1>5, <3>1
    <3>2. CASE job' = [job EXCEPT ![b].pc = "expire", ![b].todo = Expired(job[b].for)]
      <4>1. PICK x : x = [job[b] EXCEPT !.pc = "expire", !.todo = Expired(job[b].for)]
        OBVIOUS
      <4>2. x.pc = "expire" /\ x.by = job[b].by /\ x.for = job[b].for
        BY <4>1 DEF Job
      <4>3. job'[b] = x
        BY <3>2, <4>1
      <4> QED  BY <2>7, <4>2, <4>3 DEF ListExpired, ForKept
    <3> QED  BY <2>7, <3>1, <3>2 DEF ListExpired, Outcome
  <2>8. CASE ExpireNext(b)
    <3>1. CASE job' = [job EXCEPT ![b] = IdleJob]
      BY <1>5, <3>1
    <3>2. ASSUME NEW v \in job[b].todo, job' = [job EXCEPT ![b].todo = job[b].todo \ {v}] PROVE ForKept(b)'
      <4>1. job'[b].pc = job[b].pc /\ job'[b].by = job[b].by /\ job'[b].for = job[b].for
        BY <3>2 DEF Job
      <4> QED  BY <4>1 DEF ForKept
    <3> QED  BY <2>8, <3>1, <3>2 DEF ExpireNext
  <2> QED  BY <1>8, <2>1, <2>2, <2>3, <2>4, <2>5, <2>6, <2>7, <2>8 DEF Working
<1>9. ASSUME NEW w \in Backups, Working(w) PROVE ForKept(b)'
  BY <1>1, <1>8, <1>9, WorkingRow
<1>10. ASSUME NEW w \in Backups, ClientGone(w) PROVE ForKept(b)'
  <2>1. CASE w = b
    <3>1. job'[b].pc = job[b].pc /\ job'[b].by = job[b].by /\ job'[b].for = job[b].for
      BY <1>10, <2>1 DEF ClientGone, Job
    <3> QED  BY <3>1 DEF ForKept
  <2>2. CASE w # b
    BY <1>1, <1>10, <2>2 DEF ClientGone
  <2> QED  BY <2>1, <2>2
<1>11. ASSUME Bystanding \/ ServerDeleted \/ (\E c \in Backups, d \in Slots : DeleteRequest(d, c))
              \/ (\E p \in Policies : DeletePolicy(p)) \/ \E d \in Slots \cup Backups : Deleting(d)
       PROVE  job' = job
  BY <1>11, Bystand DEF ServerDeleted, DeleteRequest, DeletePolicy, Deleting, DeleteFile, DeleteRow
<1>12. CASE Crash
  BY <1>5, <1>12 DEF Crash
<1>13. CASE Sweeping
  BY <1>3, <1>1, <1>11, <1>13 DEF Sweeping, Bystanding
<1> QED  BY <1>1, <1>3, <1>9, <1>10, <1>11, <1>12, <1>13, ZenonT(40) DEF Next, Bystanding

LEMMA RetainInit == Init => RetainKept
  BY DEF Init, RetainKept, ForKept, IdleJob, NotDeleting

LEMMA RetainStep == Inv /\ RetainKept /\ [Next]_vars => RetainKept'
<1> SUFFICES ASSUME Inv, RetainKept, [Next]_vars, NEW b \in Backups
             PROVE  /\ ForKept(b)'
                    /\ \A c \in job'[b].todo : Tied(c)'
                    /\ deleting'[b].pc # "idle" => Tied(deleting[b].of)'
  BY DEF RetainKept
<1>0. TypeOK /\ Aimed /\ IsFiniteSet(Started) /\ Kept /\ ForKept(b)
  BY DEF Inv, Base, RetainKept
<1>1. ForKept(b)'
  BY <1>0, ForStep
<1>2. ASSUME NEW c \in Backups, row[c].status # "absent", Tied(c) PROVE Tied(c)'
  BY <1>0, <1>2, TiedStep
<1>3. ASSUME NEW c \in job[b].todo PROVE c \in Backups /\ row[c].status # "absent" /\ Tied(c)
  <2>1. c \in Backups /\ Settled(c)
    BY <1>0, <1>3 DEF Kept, TodoKept, TypeOK, Job
  <2> QED  BY <1>3, <2>1 DEF Settled, RetainKept
<1>4. ASSUME NEW c \in job'[b].todo PROVE Tied(c)'
  <2>1. CASE job'[b].todo \subseteq job[b].todo
    BY <1>2, <1>3, <1>4, <2>1
  <2>2. CASE job'[b].todo = Expired(job[b].for) /\ row' = row /\ job[b].pc = "list"
    <3>1. job[b].for \in Policies /\ job[b].for # None
      BY <1>0, <2>2, BackupsAssumption DEF ForKept
    <3>2. row'[c].policy = job[b].for
      BY <1>4, <2>2 DEF Expired, CompletedOf
    <3> QED  BY <3>1, <3>2 DEF Tied
  <2> QED  BY <1>0, <2>1, <2>2, JobStep DEF JobMove
<1>5. ASSUME deleting'[b].pc # "idle" PROVE Tied(deleting[b].of)'
  <2>1. SlotMove(b) /\ DeletionKept(b)
    BY <1>0, SlotStep DEF Kept
  <2>2. ASSUME deleting[b].pc # "idle", deleting'[b].of = deleting[b].of PROVE Tied(deleting[b].of)'
    <3>1. deleting[b].of \in Backups /\ row[deleting[b].of].status # "absent"
      BY <1>0, <2>1, <2>2 DEF Aimed, DeletionKept, Settled
    <3>2. PICK v \in Backups : v = deleting[b].of
      BY <3>1
    <3>3. Tied(v)
      BY <2>2, <3>2 DEF RetainKept
    <3> QED  BY <1>2, <2>2, <3>1, <3>2, <3>3 DEF Tied
  <2>3. ASSUME NEW v \in job[b].todo, deleting'[b].of = v PROVE Tied(deleting[b].of)'
    BY <1>2, <1>3, <2>3 DEF Tied
  <2>4. b \notin Slots
    BY BackupsAssumption
  <2>5. CASE deleting'[b] = deleting[b]
    BY <1>5, <2>2, <2>5
  <2>6. CASE FileGone(b)
    BY <2>2, <2>6 DEF FileGone
  <2>7. CASE Expires(b)
    <3>1. PICK v \in job[b].todo : deleting'[b] = Aims(v)
      BY <2>7 DEF Expires
    <3> QED  BY <2>3, <3>1 DEF Aims
  <2>8. ~Released(b) /\ ~Asks(b)
    BY <1>5, <2>4 DEF Released, Asks, NotDeleting
  <2> QED  BY <2>1, <2>5, <2>6, <2>7, <2>8 DEF SlotMove
<1> QED  BY <1>1, <1>4, <1>5

\* As long as no two backups start within one second and no policy is deleted, the
\* retentions of any number of policies leave row and dump of a manual backup alone.
THEOREM ManualBackupsStay ==
    ASSUME Spaced
    PROVE  Spec => ManualBackupKept
<1> DEFINE Keeps == \A j, b \in Backups :
          /\ deleting'[j] # deleting[j]
          /\ row[b].status = "completed" /\ row[b].policy = None
          /\ \A p \in Policies : policy[p] # "deleted"
          => row'[b] = row[b] /\ (Held(b) => Held(b)')
<1>1. ASSUME Inv, RetainKept, [Next]_vars, NEW j \in Backups, NEW b \in Backups,
             deleting'[j] # deleting[j], row[b].status = "completed", ~Tied(b)
      PROVE  row'[b] = row[b] /\ (Held(b) => Held(b)')
  <2>0. TypeOK /\ Aimed /\ IsFiniteSet(Started) /\ Kept
    BY <1>1 DEF Inv, Base
  <2>1. ASSUME row' = row, UNCHANGED stores PROVE row'[b] = row[b] /\ (Held(b) => Held(b)')
    BY <2>1 DEF Held, stores
  <2>2. CASE Deleting(j)
    <3>1. deleting[j].pc # "idle"
      BY <2>2 DEF Deleting, DeleteFile, DeleteRow
    <3>2. PICK v \in Backups : v = deleting[j].of
      BY <2>0, <3>1 DEF Aimed
    <3>3. v # b /\ row[v].status # "absent"
      <4>1. Tied(v)
        BY <1>1, <3>1, <3>2 DEF RetainKept
      <4>2. DeletionKept(j)
        BY <2>0 DEF Kept
      <4> QED  BY <1>1, <3>1, <3>2, <4>1, <4>2 DEF DeletionKept, Settled
    <3>4. CASE Erase(v) /\ row' = row
      <4>1. b \in Started \ {v}
        BY <1>1, <3>3 DEF Started
      <4> QED  BY <2>0, <3>3, <3>4, <4>1, EraseHeld DEF Kept
    <3>5. CASE UNCHANGED stores /\ row' = [row EXCEPT ![v].status = "deleted"]
      <4>1. row'[b] = row[b]
        BY <2>0, <3>3, <3>5 DEF TypeOK
      <4> QED  BY <3>5, <4>1 DEF Held, stores
    <3> QED  BY <2>1, <2>2, <3>2, <3>4, <3>5 DEF Deleting, DeleteFile, DeleteRow, Outcome
  <2>3. ASSUME NEW d \in Slots \cup Backups, Deleting(d), d # j PROVE FALSE
    <3>1. \A e \in (Slots \cup Backups) \ {d} : deleting'[e] = deleting[e]
      BY <2>0, <2>3, DeletingSlot DEF Kept
    <3> QED  BY <1>1, <2>3, <3>1
  <2>4. ASSUME NEW w \in Backups, Working(w) PROVE row' = row /\ UNCHANGED stores
    <3>1. ExpireNext(w)
      BY <1>1, <2>4 DEF Working, ReadBackup, Dump, Store, SaveCompleted, MarkFailed, RecordRun, ListExpired
    <3> QED  BY <3>1 DEF ExpireNext
  <2>5. CASE Crash
    BY <2>1, <2>5 DEF Crash
  <2>6. ASSUME NEW c \in Backups, NEW d \in Slots, DeleteRequest(d, c) PROVE FALSE
    <3>1. d # j
      BY BackupsAssumption
    <3> QED  BY <1>1, <2>0, <2>6, <3>1 DEF DeleteRequest, TypeOK
  <2>7. ASSUME Bystanding \/ (\E c \in Backups : ClientGone(c)) \/ ServerDeleted
               \/ \E p \in Policies : DeletePolicy(p)
        PROVE  deleting' = deleting
    BY <2>7, Bystand DEF ClientGone, ServerDeleted, DeletePolicy
  <2> QED  BY <1>1, <2>0, <2>1, <2>2, <2>3, <2>4, <2>5, <2>6, <2>7, Steps
<1>2. Inv /\ RetainKept /\ [Next]_vars => [Keeps]_vars
  BY <1>1 DEF Tied
<1> QED  BY <1>2, InvInit, InvStep, RetainInit, RetainStep, PTL DEF Spec, ManualBackupKept

-----------------------------------------------------------------------------
(* The schedule of a policy *)

Fits(t, i) == (t.day + i) % 7 = Weekday /\ Before(t, On(t.day + i))

\* Each weekday is one of the next seven days.
LEMMA EveryWeekday ==
    ASSUME NEW d \in Nat, NEW w \in 0..6
    PROVE  \E k \in 1..7 : (d + k) % 7 = w
<1>1. PICK m \in 0..6 : m = d % 7
  OBVIOUS
<1>2. ASSUME NEW k \in 1..7, m + k < 7 PROVE (d + k) % 7 = m + k
  BY <1>1, <1>2
<1>3. ASSUME NEW k \in 1..7, m + k >= 7 PROVE (d + k) % 7 = m + k - 7
  BY <1>1, <1>3
<1>4. CASE w > m
  <2>1. w - m \in 1..7 /\ m + (w - m) = w /\ w < 7
    BY <1>4
  <2>2. (d + (w - m)) % 7 = w
    BY <2>1, <1>2
  <2> QED  BY <2>1, <2>2
<1>5. CASE ~(w > m)
  <2>1. w + 7 - m \in 1..7 /\ m + (w + 7 - m) = w + 7
    BY <1>5
  <2>2. (d + (w + 7 - m)) % 7 = w
    BY <2>1, <1>3
  <2> QED  BY <2>1, <2>2
<1> QED  BY <1>4, <1>5

\* Among today and the next seven days one has the weekday and a time to come.
LEMMA SomeDayFits ==
    ASSUME NEW t \in Time
    PROVE  \E i \in 0..7 : Fits(t, i) /\ \A j \in 0..7 : j < i => ~Fits(t, j)
<1>1. t.day \in Nat /\ t.at \in Nat /\ TimeOfDay \in Nat /\ Weekday \in 0..6
  BY ScheduleAssumption DEF Time
<1>2. \A i \in 1..7 : Before(t, On(t.day + i))
  BY <1>1 DEF Before, On
<1>3. PICK k \in 1..7 : (t.day + k) % 7 = Weekday
  BY <1>1, EveryWeekday
<1>4. Fits(t, k)
  BY <1>2, <1>3 DEF Fits
<1>5. \E i \in 0..7 : Fits(t, i) /\ \A j \in 0..7 : j < i => ~Fits(t, j)
  <2> DEFINE F(i) == Fits(t, i)
  <2>1. \/ F(0) \/ F(1) \/ F(2) \/ F(3) \/ F(4) \/ F(5) \/ F(6) \/ F(7)
    BY <1>4
  <2> HIDE DEF F
  <2>2. \E i \in 0..7 : F(i) /\ \A j \in 0..7 : j < i => ~F(j)
    BY <2>1, SMTT(30)
  <2> QED  BY <2>2 DEF F
<1> QED  BY <1>5

\* nextScheduledRun returns the first scheduled time strictly after t.
LEMMA NextScheduledRunIsNext ==
    ASSUME NEW t \in Time, frequency \in Frequencies
    PROVE  NextScheduledRun(t) \in Time /\ IsNext(NextScheduledRun(t), t)
<1>1. /\ t.day \in Nat /\ t.at \in Nat /\ t = [day |-> t.day, at |-> t.at]
      /\ TimeOfDay \in Nat /\ Weekday \in 0..6 /\ TimeOfDay \in 0..DayLength - 1
  BY ScheduleAssumption DEF Time
<1>2. CASE frequency = "daily"
  <2>1. NextScheduledRun(t) = IF Before(t, On(t.day)) THEN On(t.day) ELSE On(t.day + 1)
    BY <1>2 DEF NextScheduledRun
  <2> QED  BY <1>1, <1>2, <2>1 DEF IsNext, Scheduled, Before, On, Time
<1>3. CASE frequency = "weekly"
  <2> DEFINE P(i) == Fits(t, i) /\ \A j \in 0..7 : j < i => ~Fits(t, j)
  <2>1. PICK i \in 0..7 : i = (CHOOSE x \in 0..7 : P(x)) /\ P(i)
    BY SomeDayFits
  <2>2. NextScheduledRun(t) = On(t.day + i)
    BY <1>3, <2>1, ZenonT(40) DEF NextScheduledRun, Fits
  <2>3. Before(t, On(t.day + i)) /\ (t.day + i) % 7 = Weekday
    BY <2>1, ZenonT(40) DEF Fits
  <2>4. ASSUME NEW u \in Time, Scheduled(u), Before(t, u), Before(u, On(t.day + i))
        PROVE  FALSE
    <3>1. /\ u.day \in Nat /\ u.at = TimeOfDay /\ (u.day % 7) = Weekday
          /\ t.day <= u.day /\ u.day < t.day + i
      BY <1>1, <1>3, <2>4 DEF Scheduled, Before, On, Time
    <3>2. PICK j \in 0..7 : j = u.day - t.day /\ j < i /\ t.day + j = u.day
      BY <1>1, <3>1
    <3>3. On(t.day + j) = u
      BY <2>4, <3>1, <3>2 DEF On, Time
    <3>4. Fits(t, j)
      BY <2>4, <3>1, <3>2, <3>3 DEF Fits
    <3> QED  BY <2>1, <3>2, <3>4
  <2>5. /\ On(t.day + i) \in Time /\ On(t.day + i).day = t.day + i
        /\ On(t.day + i).at = TimeOfDay
    BY <1>1 DEF On, Time
  <2> QED  BY <2>2, <2>3, <2>4, <2>5 DEF IsNext, Scheduled
<1> QED  BY <1>2, <1>3, ScheduleAssumption


LEMMA ScheduleTypeInit == ScheduleInit => ScheduleTypeOK
<1> SUFFICES ASSUME ScheduleInit PROVE ScheduleTypeOK
  OBVIOUS
<1>1. PICK d \in FirstDay, a \in 0..DayLength - 1 : now = [day |-> d, at |-> a]
  BY DEF ScheduleInit
<1>2. now \in Time
  BY <1>1, ScheduleAssumption DEF Time
<1> QED  BY <1>2 DEF ScheduleInit, ScheduleTypeOK

LEMMA ScheduleTypeStep == ScheduleTypeOK /\ [ScheduleNext]_scheduleVars => ScheduleTypeOK'
<1> SUFFICES ASSUME ScheduleTypeOK, [ScheduleNext]_scheduleVars PROVE ScheduleTypeOK'
  OBVIOUS
<1> USE DEF ScheduleTypeOK
<1>1. CASE ClockTicks
  <2>1. now.day \in Nat /\ now.at \in 0..DayLength - 1 /\ now = [day |-> now.day, at |-> now.at]
    BY DEF Time
  <2>2. now' \in Time
    BY <1>1, <2>1, ScheduleAssumption DEF ClockTicks, Time
  <2> QED  BY <1>1, <2>2 DEF ClockTicks
<1>2. CASE ListDuePolicies \/ ListFails
  BY <1>2 DEF ListDuePolicies, ListFails
<1>3. CASE StartDueRun \/ SweepEnds \/ RunBackupPolicyNow
  BY <1>3 DEF StartDueRun, SweepEnds, RunBackupPolicyNow
<1>4. ASSUME NEW r \in {"sweep", "user"}, RecordPolicyRun(r) \/ RunNotRecorded(r) PROVE ScheduleTypeOK'
  BY <1>4 DEF RecordPolicyRun, Recorded, RunNotRecorded
<1>5. CASE SetBackupPolicyEnabled
  BY <1>5 DEF SetBackupPolicyEnabled
<1>6. CASE Stop
  BY <1>6 DEF Stop
<1>7. CASE Restart
  BY <1>7 DEF Restart
<1>8. CASE UNCHANGED scheduleVars
  BY <1>8 DEF scheduleVars
<1> QED  BY <1>1, <1>2, <1>3, <1>4, <1>5, <1>6, <1>7, <1>8 DEF ScheduleNext

\* The clock, last_run_at and the runs keep their types.
LEMMA ScheduleTypeCorrect == ScheduleSpec => []ScheduleTypeOK
  BY ScheduleTypeInit, ScheduleTypeStep, PTL DEF ScheduleSpec

\* Whenever the sweep looks, the time it compares the clock with is the first
\* scheduled one strictly after the last run, for every policy.
THEOREM NextRunAlwaysNext == ScheduleSpec => []ScheduleSound
<1>1. ScheduleTypeOK => ScheduleSound
  <2> SUFFICES ASSUME ScheduleTypeOK PROVE NextRunIsNext
    BY DEF ScheduleSound
  <2> DEFINE n == NextScheduledRun(base)
  <2>1. base \in Time /\ n \in Time /\ IsNext(n, base)
    BY NextScheduledRunIsNext DEF ScheduleTypeOK
  <2>2. [day : base.day..n.day, at : {TimeOfDay}] \subseteq Time
    BY <2>1, ScheduleAssumption DEF Time
  <2> QED  BY <2>1, <2>2 DEF NextRunIsNext, IsNext
<1> QED  BY <1>1, ScheduleTypeCorrect, PTL

\* What the list of due policies stands for until the turn of the policy comes.
ListInv ==
    /\ round # "busy" => "sweep" \notin runs
    /\ round = "listed" => TurnSince(swept) /\ (~overtaken => TurnSince(base))
    /\ ~Before(base, swept) /\ ~Before(now, swept)

\* A turn that has come stays one as time passes, and is one for every earlier run.
LEMMA TurnStays ==
    ASSUME now \in Time, now' \in Time, ~Before(now', now), frequency' = frequency,
           NEW t \in Time, TurnSince(t)
    PROVE  TurnSince(t)'
<1>1. PICK d \in t.day..now.day : Scheduled(On(d)) /\ Before(t, On(d)) /\ ~Before(now, On(d))
  BY DEF TurnSince
<1>2. d \in t.day..now'.day /\ ~Before(now', On(d))
  BY <1>1, ScheduleAssumption DEF Before, On, Time
<1> QED  BY <1>1, <1>2 DEF TurnSince, Scheduled, On, Before

LEMMA TurnOfEarlier ==
    ASSUME now \in Time, NEW t \in Time, NEW u \in Time, ~Before(u, t), TurnSince(u)
    PROVE  TurnSince(t)
<1>1. PICK d \in u.day..now.day : Scheduled(On(d)) /\ Before(u, On(d)) /\ ~Before(now, On(d))
  BY DEF TurnSince
<1>2. d \in t.day..now.day /\ Before(t, On(d))
  BY <1>1, ScheduleAssumption DEF Before, On, Time
<1> QED  BY <1>1, <1>2 DEF TurnSince

\* A policy is due when its turn has come since last_run_at.
LEMMA DueIsTurn ==
    ASSUME ScheduleTypeOK, Due
    PROVE  TurnSince(base)
<1> DEFINE n == NextScheduledRun(base)
<1>1. n \in Time /\ Scheduled(n) /\ Before(base, n) /\ ~Before(now, n) /\ base \in Time /\ now \in Time
  BY NextScheduledRunIsNext DEF ScheduleTypeOK, IsNext, Due
<1> HIDE DEF n
<1>2. n = On(n.day)
  BY <1>1 DEF Scheduled, On, Time
<1>3. n.day \in base.day..now.day
  BY <1>1 DEF Before, Time
<1> QED  BY <1>1, <1>2, <1>3 DEF TurnSince

LEMMA ClockForward ==
    ASSUME ScheduleTypeOK, [ScheduleNext]_scheduleVars
    PROVE  now' \in Time /\ ~Before(now', now) /\ frequency' = frequency
<1>1. now' \in Time
  BY ScheduleTypeStep DEF ScheduleTypeOK
<1>2. CASE ClockTicks
  <2>1. now.day \in Nat /\ now.at \in 0..DayLength - 1 /\ now = [day |-> now.day, at |-> now.at]
    BY DEF ScheduleTypeOK, Time
  <2>2. ~Before(now', now)
    BY <1>2, <2>1, ScheduleAssumption DEF ClockTicks, Before
  <2> QED  BY <1>1, <1>2, <2>2 DEF ClockTicks
<1>3. CASE ~ClockTicks
  <2>1. now' = now /\ frequency' = frequency
    BY <1>3 DEF ScheduleNext, ListDuePolicies, ListFails, StartDueRun, SweepEnds, RunBackupPolicyNow,
       RecordPolicyRun, Recorded, RunNotRecorded, SetBackupPolicyEnabled, Stop, Restart, scheduleVars
  <2> QED  BY <1>1, <2>1 DEF Before, ScheduleTypeOK, Time
<1> QED  BY <1>2, <1>3

LEMMA ListInvInit == ScheduleInit => ListInv
<1> SUFFICES ASSUME ScheduleInit PROVE ListInv
  OBVIOUS
<1>1. now \in Time /\ base = now /\ swept = now
  BY ScheduleTypeInit DEF ScheduleInit, ScheduleTypeOK
<1> QED  BY <1>1 DEF ScheduleInit, ListInv, Before, Time

LEMMA ListInvStep ==
    ASSUME ScheduleTypeOK, ListInv, [ScheduleNext]_scheduleVars
    PROVE  ListInv'
<1>0. now \in Time /\ now' \in Time /\ base \in Time /\ swept \in Time /\ ~Before(now', now)
      /\ frequency' = frequency
  BY ClockForward DEF ScheduleTypeOK
<1>1. \A t \in Time : TurnSince(t) => TurnSince(t)'
  BY <1>0, TurnStays
<1>2. ~Before(now', swept)
  BY <1>0 DEF ListInv, Before, Time
<1>3. CASE ListDuePolicies
  <2>1. UNCHANGED <<frequency, now, base, runs, swept, overtaken>> /\ round = "idle"
    BY <1>3 DEF ListDuePolicies
  <2>2. ASSUME round' = "listed" PROVE TurnSince(base) /\ TurnSince(swept)
    <3>1. Due
      BY <1>3, <2>2 DEF ListDuePolicies
    <3> QED  BY <1>0, <3>1, DueIsTurn, TurnOfEarlier DEF ListInv
  <2> QED  BY <1>0, <1>1, <1>2, <2>1, <2>2 DEF ListInv
<1>4. ASSUME NEW r \in {"sweep", "user"}, RecordPolicyRun(r) PROVE ListInv'
  <2>1. /\ r \in runs /\ runs' = runs \ {r} /\ base' = now /\ now' = now /\ round' = round
        /\ swept' = IF r = "sweep" THEN now ELSE swept
        /\ overtaken' = (overtaken \/ (r = "user" /\ round = "listed"))
    BY <1>4 DEF RecordPolicyRun, Recorded
  <2>2. ~Before(base', swept') /\ ~Before(now', swept')
    BY <1>0, <1>2, <2>1 DEF Before, Time
  <2>3. ASSUME round' = "listed" PROVE swept' = swept /\ overtaken'
    BY <2>1, <2>3 DEF ListInv
  <2>4. round' = "listed" => TurnSince(swept)'
    <3>1. round' = "listed" => TurnSince(swept) /\ swept' = swept
      BY <2>1, <2>3 DEF ListInv
    <3> QED  BY <1>0, <2>1, <3>1 DEF TurnSince, Scheduled
  <2> QED  BY <2>1, <2>2, <2>3, <2>4 DEF ListInv
<1>5. CASE ClockTicks
  <2>1. UNCHANGED <<base, round, runs, swept, overtaken>>
    BY <1>5 DEF ClockTicks
  <2>2. /\ TurnSince(swept) => TurnSince(swept)'
        /\ TurnSince(base) => TurnSince(base)'
    <3>1. \A t \in Time : TurnSince(t) =>
             \E d \in t.day..now'.day : Scheduled(On(d))' /\ Before(t, On(d)) /\ ~Before(now', On(d))
      BY <1>1 DEF TurnSince, Before, On
    <3> QED  BY <1>0, <2>1, <3>1 DEF TurnSince, Before, On
  <2> QED  BY <1>2, <2>1, <2>2 DEF ListInv, Before
<1>6. CASE StartDueRun \/ SweepEnds \/ Stop
  BY <1>6 DEF StartDueRun, SweepEnds, Stop, ListInv, Before
<1>7. CASE ListFails \/ RunBackupPolicyNow \/ SetBackupPolicyEnabled \/ Restart \/ UNCHANGED scheduleVars
  <2>1. UNCHANGED <<frequency, now, base, round, swept, overtaken>> /\ ("sweep" \in runs' => "sweep" \in runs)
    BY <1>7 DEF ListFails, RunBackupPolicyNow, SetBackupPolicyEnabled, Restart, scheduleVars
  <2> QED  BY <2>1 DEF ListInv, TurnSince, Scheduled, Before
<1>8. ASSUME NEW r \in {"sweep", "user"}, RunNotRecorded(r) PROVE ListInv'
  <2>1. UNCHANGED <<frequency, now, base, round, swept, overtaken>> /\ ("sweep" \in runs' => "sweep" \in runs)
    BY <1>8 DEF RunNotRecorded
  <2> QED  BY <2>1 DEF ListInv, TurnSince, Scheduled, Before
<1> QED  BY <1>3, <1>4, <1>5, <1>6, <1>7, <1>8 DEF ScheduleNext

\* However long the sweep is busy with the policies before this one, however often
\* the backend restarts, the user runs the policy by hand or switches it off and on,
\* the sweep starts a run only for a scheduled time that came after the last run it
\* recorded, and after the last run by hand unless that overtook the list.
THEOREM NoRunOutOfTurn == ScheduleSpec => OneRunPerTime
<1> DEFINE Turn == "sweep" \in runs' \ runs => TurnSince(swept) /\ (~overtaken => TurnSince(base))
<1>1. ASSUME ScheduleTypeOK, ListInv, ScheduleNext PROVE Turn
  <2> SUFFICES ASSUME "sweep" \in runs' \ runs
               PROVE  TurnSince(swept) /\ (~overtaken => TurnSince(base))
    OBVIOUS
  <2>1. StartDueRun
    BY <1>1 DEF ScheduleNext, ClockTicks, ListDuePolicies, ListFails, StartDueRun, SweepEnds,
       RunBackupPolicyNow, RecordPolicyRun, Recorded, RunNotRecorded, SetBackupPolicyEnabled, Stop, Restart
  <2> QED  BY <1>1, <2>1 DEF StartDueRun, ListInv
<1>2. ScheduleTypeOK /\ ListInv /\ [ScheduleNext]_scheduleVars => [Turn]_scheduleVars
  BY <1>1
<1> QED  BY <1>2, ScheduleTypeInit, ScheduleTypeStep, ListInvInit, ListInvStep, PTL
         DEF ScheduleSpec, OneRunPerTime
=============================================================================

------------------------------ MODULE Retention ------------------------------
(***************************************************************************)
(* Data retention (internal/server/retention.go): a policy deletes, or     *)
(* archives and deletes, the rows of one table older than its age.  The    *)
(* sweep and a click run the same policy, each in a transaction of its     *)
(* own on the server; applications write to the table meanwhile.           *)
(*                                                                         *)
(* READ COMMITTED: each statement sees what is committed when it begins,   *)
(* and now() is the beginning of the transaction.                          *)
(***************************************************************************)
EXTENDS Integers, FiniteSets

CONSTANTS
    Rows,       \* rows of the table
    MaxAgeDays, \* of the policy
    LastDay,    \* bound on the clock
    Budget

RetentionAssumption ==
    MaxAgeDays \in Nat \ {0} /\ Budget \in Nat /\ LastDay \in Nat

Today == 0 .. LastDay   \* dates of rows are days too
Runners == {"sweep", "hand"}
Never == -1

VARIABLES
    today,      \* the clock, in days
    policy,     \* retention_policies: the policy
    keyed,      \* the table has a primary key, and so has the archive (LIKE INCLUDING ALL)
    row,        \* the table: committed rows and their date column
    copies,     \* the archive: how often each row is there
    deal,       \* the runs: next statement, cutoff, uncommitted copies and deletions
    late,       \* history: rows committed between the INSERT and the DELETE of a run
    overlap,    \* history: two runs had transactions at a time
    active, rest, budget

retentionVars == <<today, policy, keyed, row, copies, deal, late, overlap>>
Elsewhere == UNCHANGED <<rest, active>>

NoDeal == [pc |-> "idle", cutoff |-> 0, copied |-> {}, deleted |-> {}]

RetentionTypeOK ==
    /\ today \in Today /\ keyed \in BOOLEAN /\ overlap \in BOOLEAN
    /\ policy \in [state : {"on", "off", "gone"}, action : {"archive", "delete"}, last : {Never} \cup Today]
    /\ row \in [Rows -> [state : {"unborn", "in", "retained", "removed"}, date : Today]]
    /\ copies \in [Rows -> Nat] /\ late \subseteq Rows
    /\ deal \in [Runners -> [pc : {"idle", "listed", "begin", "insert", "delete", "commit", "record"},
                             cutoff : Int, copied : SUBSET Rows, deleted : SUBSET Rows]]

-----------------------------------------------------------------------------
Charged == budget > 0 /\ budget' = budget - 1
Keep == UNCHANGED budget
Goes(x, pc) == deal' = [deal EXCEPT ![x].pc = pc]
InTransaction(x) == deal[x].pc \in {"insert", "delete", "commit"}
Other(x) == CHOOSE y \in Runners : y # x
\* WHERE date_column < now() - interval
Expired(x) == {r \in Rows : row[r].state = "in" /\ row[r].date < deal[x].cutoff}
Quiet == UNCHANGED <<today, policy, keyed, row, copies, late, overlap>>

\* The sweep lists the policies to run, and then runs them.
ListPolicy ==
    /\ active /\ deal["sweep"].pc = "idle" /\ policy.state = "on"
    /\ policy.last = Never \/ policy.last < today
    /\ Goes("sweep", "listed") /\ Quiet /\ Keep /\ Elsewhere

RunByHand ==
    /\ active /\ deal["hand"].pc = "idle" /\ policy.state # "gone" /\ Charged
    /\ Goes("hand", "listed") /\ Quiet /\ Elsewhere

\* RunRetentionPolicy reads the policy again, but not whether it is enabled.
ReadPolicy(x) ==
    /\ deal[x].pc = "listed" /\ Keep
    /\ IF policy.state = "gone" THEN deal' = [deal EXCEPT ![x] = NoDeal] ELSE Goes(x, "begin")
    /\ Quiet /\ Elsewhere

\* The server is running and lets the backend in, or the run ends with an error.
Begin(x) ==
    /\ deal[x].pc = "begin"
    /\ \/ /\ deal' = [deal EXCEPT ![x].pc = IF policy.action = "archive" THEN "insert" ELSE "delete",
                                ![x].cutoff = today - MaxAgeDays]
          /\ overlap' = (overlap \/ InTransaction(Other(x))) /\ Keep
       \/ Goes(x, "record") /\ UNCHANGED overlap /\ Charged
    /\ UNCHANGED <<today, policy, keyed, row, copies, late>> /\ Elsewhere

Aborts(x) == deal' = [deal EXCEPT ![x] = [NoDeal EXCEPT !.pc = "record"]]

\* Mutant: the copy is committed before the rows are deleted.
InsertIntoArchive_Commits(x) ==
    /\ deal[x].pc = "insert" /\ Keep
    /\ Goes(x, "delete") /\ copies' = [r \in Rows |-> copies[r] + (IF r \in Expired(x) THEN 1 ELSE 0)]
    /\ UNCHANGED <<today, policy, keyed, row, late, overlap>> /\ Elsewhere

\* INSERT INTO archive SELECT: a key that is there is an error, and one another
\* run has inserted is waited for.
InsertIntoArchive(x) ==
    LET clash == keyed /\ \E r \in Expired(x) : copies[r] > 0
        wait == keyed /\ Expired(x) \cap deal[Other(x)].copied # {}
    IN
    /\ deal[x].pc = "insert" /\ (wait => clash)
    /\ \/ ~clash /\ deal' = [deal EXCEPT ![x].pc = "delete", ![x].copied = Expired(x)] /\ Keep
       \/ Aborts(x) /\ (IF clash THEN Keep ELSE Charged)
    /\ Quiet /\ Elsewhere

\* DELETE waits for the rows another run has deleted.
DeleteExpired(x) ==
    /\ deal[x].pc = "delete" /\ Expired(x) \cap deal[Other(x)].deleted = {}
    /\ \/ deal' = [deal EXCEPT ![x].pc = "commit", ![x].deleted = Expired(x)] /\ Keep
       \/ Aborts(x) /\ Charged
    /\ Quiet /\ Elsewhere

Commit(x) ==
    LET gone == {r \in deal[x].deleted : row[r].state = "in"} IN
    /\ deal[x].pc = "commit"
    /\ \/ /\ row' = [r \in Rows |-> IF r \in gone THEN [row[r] EXCEPT !.state = "retained"] ELSE row[r]]
          /\ copies' = [r \in Rows |-> copies[r] + (IF r \in deal[x].copied THEN 1 ELSE 0)]
          /\ Keep
       \/ UNCHANGED <<row, copies>> /\ Charged
    /\ Aborts(x)
    /\ UNCHANGED <<today, policy, keyed, late, overlap>> /\ Elsewhere

\* last_run_at, whatever the result; its own error is only logged.
RecordRun(x) ==
    /\ deal[x].pc = "record" /\ deal' = [deal EXCEPT ![x] = NoDeal]
    /\ \/ policy' = (IF policy.state = "gone" THEN policy ELSE [policy EXCEPT !.last = today]) /\ Keep
       \/ UNCHANGED policy /\ Charged
    /\ UNCHANGED <<today, keyed, row, copies, late, overlap>> /\ Elsewhere

SetRetentionPolicyEnabled ==
    /\ active /\ policy.state # "gone" /\ Charged
    /\ policy' = [policy EXCEPT !.state = IF @ = "on" THEN "off" ELSE "on"]
    /\ UNCHANGED <<today, keyed, row, copies, deal, late, overlap>> /\ Elsewhere

DeleteRetentionPolicy ==
    /\ active /\ policy.state # "gone" /\ policy' = [policy EXCEPT !.state = "gone"] /\ Charged
    /\ UNCHANGED <<today, keyed, row, copies, deal, late, overlap>> /\ Elsewhere

\* An application commits a row, of today or of an earlier date.
InsertRow(r, d) ==
    /\ active /\ row[r].state = "unborn" /\ d <= today
    /\ row' = [row EXCEPT ![r] = [state |-> "in", date |-> d]]
    /\ late' = IF \E x \in Runners : deal[x].pc = "delete" THEN late \cup {r} ELSE late
    /\ UNCHANGED <<today, policy, keyed, copies, deal, overlap>> /\ Charged /\ Elsewhere

\* An application deletes a row that no run has deleted before it.
RemoveRow(r) ==
    /\ active /\ row[r].state = "in" /\ \A x \in Runners : r \notin deal[x].deleted
    /\ row' = [row EXCEPT ![r].state = "removed"]
    /\ UNCHANGED <<today, policy, keyed, copies, deal, late, overlap>> /\ Charged /\ Elsewhere

DayPasses ==
    /\ active /\ today + 1 \in Today /\ today' = today + 1
    /\ UNCHANGED <<policy, keyed, row, copies, deal, late, overlap>> /\ Keep /\ Elsewhere

\* PostgreSQL rolls back the transactions of a backend that dies.
RetentionDropped ==
    /\ deal' = [x \in Runners |-> NoDeal]
    /\ UNCHANGED <<today, policy, keyed, row, copies, late, overlap>>

\* One row is there, as old as the policy allows.
RetentionInit ==
    /\ today = MaxAgeDays /\ keyed \in BOOLEAN /\ overlap = FALSE /\ late = {}
    /\ \E a \in {"archive", "delete"} : policy = [state |-> "on", action |-> a, last |-> Never]
    /\ ~active => keyed /\ policy.action = "archive"
    /\ row = [r \in Rows |-> [state |-> IF r = CHOOSE q \in Rows : TRUE THEN "in" ELSE "unborn", date |-> 0]]
    /\ copies = [r \in Rows |-> 0] /\ deal = [x \in Runners |-> NoDeal]

-----------------------------------------------------------------------------
(* What has to hold *)

\* "se o INSERT falhar nada é apagado": an archive policy only moves rows.  Each
\* row is either in the table or, once, in the archive, whatever fails and
\* whenever days pass; a table without a key excepted when runs overlap, rows
\* committed between the two statements, and rows an application removed.
MovedNotLost ==
    policy.action = "archive" =>
        \A r \in Rows \ late :
            /\ row[r].state = "retained" => copies[r] = 1 \/ (copies[r] = 2 /\ overlap /\ ~keyed)
            /\ row[r].state = "in" => copies[r] = 0
=============================================================================

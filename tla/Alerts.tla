------------------------------- MODULE Alerts -------------------------------
(***************************************************************************)
(* Alert rules (internal/server/alerts.go): every sweep reads the enabled  *)
(* rules, measures each, and notifies when the threshold is reached, at    *)
(* most once per cooldown.  Deadlocks are measured as a difference to the  *)
(* count the rule saw last.                                                *)
(***************************************************************************)
EXTENDS Integers

CONSTANTS
    AlertRules,
    Deadly,     \* the rules on deadlocks; the others look at a level
    Threshold,  \* of the rules on deadlocks
    Cooldown,   \* alertCooldown, in ticks of the clock
    Hours,      \* bound on the clock
    None, Budget

AlertAssumption ==
    /\ Deadly \subseteq AlertRules /\ {Threshold, Cooldown, Hours, Budget} \subseteq Nat
    /\ None \notin AlertRules

VARIABLES
    clock,
    rule,       \* alert_rules: enabled, last_triggered_at, last_deadlock_count
    high,       \* the level is over the threshold
    deadlocks,  \* the counter of PostgreSQL
    check,      \* the sweep: rules still to look at, as listed, and the one at hand
    told,       \* history: when a notification of a rule was last tried
    since,      \* history: deadlocks since a rule was measured last
    sunk,       \* history: rules since whose last measurement the counter fell
    early,      \* history: rules that notified within the cooldown
    unmarked,   \* history: rules with a trigger or a count that was not written
    active, rest, budget

alertVars == <<clock, rule, high, deadlocks, check, told, since, sunk, early, unmarked>>
Elsewhere == UNCHANGED <<rest, active>>

Never == -1
Fresh == [state |-> "on", last |-> Never, seen |-> 0]
NoCheck == [pc |-> "idle", todo |-> {}, listed |-> [r \in AlertRules |-> Fresh], at |-> None]
RuleRecords == [state : {"on", "off", "gone"}, last : Never .. Hours, seen : 0 .. Budget + 1]

AlertTypeOK ==
    /\ clock \in 0 .. Hours /\ deadlocks \in 0 .. Budget + 1 /\ high \in BOOLEAN
    /\ rule \in [AlertRules -> RuleRecords]
    /\ check \in [pc : {"idle", "sweep", "send", "mark"}, todo : SUBSET AlertRules,
                  listed : [AlertRules -> RuleRecords], at : AlertRules \cup {None}]
    /\ told \in [AlertRules -> Never .. Hours] /\ since \in [AlertRules -> Nat] /\ sunk \subseteq AlertRules
    /\ early \subseteq AlertRules /\ unmarked \subseteq AlertRules

-----------------------------------------------------------------------------
Charged == budget > 0 /\ budget' = budget - 1
Keep == UNCHANGED budget
World == UNCHANGED <<clock, high, deadlocks>>

\* sweepAlertRulesOnce reads the enabled rules of running servers.
ListRules ==
    /\ active /\ check.pc = "idle" /\ Keep
    /\ check' = [pc |-> "sweep", todo |-> {r \in AlertRules : rule[r].state = "on"}, listed |-> rule, at |-> None]
    /\ UNCHANGED <<rule, told, since, sunk, early, unmarked>> /\ World /\ Elsewhere

Cooling(r) == check.listed[r].last # Never /\ clock - check.listed[r].last < Cooldown
Passed(r) == check' = [check EXCEPT !.todo = @ \ {r}]

\* A rule within its cooldown, or that cannot be measured, is passed over.
PassOver(r) ==
    /\ check.pc = "sweep" /\ r \in check.todo /\ Passed(r)
    /\ IF Cooling(r) THEN Keep ELSE Charged
    /\ UNCHANGED <<rule, told, since, sunk, early, unmarked>> /\ World /\ Elsewhere

Breached(r) ==
    IF r \in Deadly THEN deadlocks - check.listed[r].seen >= Threshold ELSE high

\* Mutant: the count is written when the rule fires.
Measure_CountIfBreached(r) ==
    /\ check.pc = "sweep" /\ r \in check.todo /\ ~Cooling(r) /\ Keep
    /\ IF Breached(r) THEN check' = [check EXCEPT !.todo = @ \ {r}, !.pc = "send", !.at = r] ELSE Passed(r)
    /\ since' = [since EXCEPT ![r] = 0] /\ sunk' = sunk \ {r}
    /\ rule' = IF r \in Deadly /\ Breached(r) THEN [rule EXCEPT ![r].seen = deadlocks] ELSE rule
    /\ UNCHANGED <<told, early, unmarked>> /\ World /\ Elsewhere

\* alertMetricValue, and the count that the next sweep starts from, whose
\* error is ignored; deleted rules take no update.
Measure(r) ==
    /\ check.pc = "sweep" /\ r \in check.todo /\ ~Cooling(r)
    /\ IF Breached(r) THEN check' = [check EXCEPT !.todo = @ \ {r}, !.pc = "send", !.at = r] ELSE Passed(r)
    /\ since' = [since EXCEPT ![r] = 0] /\ sunk' = sunk \ {r}
    /\ IF r \in Deadly /\ rule[r].state # "gone"
       THEN \/ rule' = [rule EXCEPT ![r].seen = deadlocks] /\ UNCHANGED unmarked /\ Keep
            \/ UNCHANGED rule /\ unmarked' = unmarked \cup {r} /\ Charged
       ELSE UNCHANGED <<rule, unmarked>> /\ Keep
    /\ UNCHANGED <<told, early>> /\ World /\ Elsewhere

\* sendNotification: delivered or not, or there is no such channel; a rule
\* deleted or switched off since the sweep began notifies all the same.
SendNotification ==
    LET r == check.at IN
    /\ check.pc = "send" /\ check' = [check EXCEPT !.pc = "mark"] /\ Keep
    /\ told' = [told EXCEPT ![r] = clock]
    /\ early' = IF told[r] # Never /\ clock - told[r] < Cooldown /\ r \notin unmarked
                THEN early \cup {r} ELSE early
    /\ UNCHANGED <<rule, since, sunk, unmarked>> /\ World /\ Elsewhere

\* Mutant: only a notification that got through begins the cooldown.
Mark_SentOnly ==
    LET r == check.at IN
    /\ check.pc = "mark" /\ check' = [check EXCEPT !.pc = "sweep", !.at = None] /\ Keep
    /\ rule' \in {rule, [rule EXCEPT ![r].last = IF rule[r].state = "gone" THEN @ ELSE clock]}
    /\ UNCHANGED <<told, since, sunk, early, unmarked>> /\ World /\ Elsewhere

\* last_triggered_at = now(), whatever became of the notification
Mark ==
    LET r == check.at IN
    /\ check.pc = "mark" /\ check' = [check EXCEPT !.pc = "sweep", !.at = None]
    /\ \/ rule' = [rule EXCEPT ![r].last = IF rule[r].state = "gone" THEN @ ELSE clock] /\ UNCHANGED unmarked /\ Keep
       \/ UNCHANGED rule /\ unmarked' = unmarked \cup {r} /\ Charged
    /\ UNCHANGED <<told, since, sunk, early>> /\ World /\ Elsewhere

SweepEnds ==
    /\ check.pc = "sweep" /\ check.todo = {} /\ check' = NoCheck /\ Keep
    /\ UNCHANGED <<rule, told, since, sunk, early, unmarked>> /\ World /\ Elsewhere

\* SetAlertRuleEnabled, DeleteAlertRule
ChangeRule(r, state) ==
    /\ active /\ rule[r].state \notin {"gone", state} /\ Charged
    /\ rule' = [rule EXCEPT ![r].state = state]
    /\ UNCHANGED <<check, told, since, sunk, early, unmarked>> /\ World /\ Elsewhere

\* The server: a deadlock, the level rising or falling, time
ServerChanges ==
    /\ active
    /\ \/ deadlocks' = deadlocks + 1 /\ since' = [r \in AlertRules |-> IF r \in Deadly THEN since[r] + 1 ELSE 0]
          /\ UNCHANGED <<clock, high>> /\ Charged
       \/ high' = ~high /\ UNCHANGED <<clock, deadlocks, since>> /\ Charged
       \/ clock < Hours /\ clock' = clock + 1 /\ UNCHANGED <<high, deadlocks, since>> /\ Keep
    /\ UNCHANGED <<rule, check, told, sunk, early, unmarked>> /\ Elsewhere

\* The counter is a sum over the databases there are: it falls when one is
\* dropped, and when the statistics are reset or a crash discards them.
CounterFalls ==
    /\ active /\ deadlocks' \in 0 .. deadlocks - 1 /\ sunk' = Deadly /\ Charged
    /\ UNCHANGED <<clock, high, rule, check, told, since, early, unmarked>> /\ Elsewhere

\* The backend dies: a notification may be out whose rule is not marked.
AlertsDropped ==
    /\ check' = NoCheck
    /\ unmarked' = IF check.pc = "mark" THEN unmarked \cup {check.at} ELSE unmarked
    /\ UNCHANGED <<clock, rule, high, deadlocks, told, since, sunk, early>>

AlertInit ==
    /\ clock = 0 /\ rule = [r \in AlertRules |-> Fresh] /\ high = TRUE
    /\ deadlocks \in 0 .. 1 /\ (~active => deadlocks = 0)
    /\ check = NoCheck /\ told = [r \in AlertRules |-> Never] /\ since = [r \in AlertRules |-> IF r \in Deadly THEN deadlocks ELSE 0]
    /\ sunk = {} /\ early = {} /\ unmarked = {}

-----------------------------------------------------------------------------
(* What has to hold *)

\* "não tiver disparado nos últimos 15min (evita spam)": a rule does not notify
\* twice within the cooldown, whatever sweeps, failed deliveries and restarts
\* come between, unless its trigger could not be written.
CooldownHolds == early = {}

\* What a sweep is to measure for a rule on deadlocks are the deadlocks since the
\* last one measured it (for a new rule: all there were), none lost and none
\* twice, whatever cooldowns, pauses, deletions and crashes come between; but
\* for counts that were not written, and but for the time in which the counter
\* fell: the difference is then too small, below zero even, and that many
\* deadlocks go unnoticed.
DeadlocksMeasuredOnce ==
    \A r \in Deadly \ (unmarked \cup sunk) :
        /\ rule[r].state # "gone" => deadlocks - rule[r].seen = since[r]
        /\ r \in check.todo => deadlocks - check.listed[r].seen = since[r]
=============================================================================

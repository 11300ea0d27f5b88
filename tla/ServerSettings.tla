---------------------------- MODULE ServerSettings ----------------------------
(***************************************************************************)
(* Extensions and parameters of a server (internal/server/extensions.go,   *)
(* query_stats.go and expanded_config.go).  Both write postgresql.auto.conf *)
(* with ALTER SYSTEM; a reload makes the postmaster follow it in most      *)
(* parameters, and a restart in all.  A library is preloaded by writing    *)
(* shared_preload_libraries whole again, from what SHOW told of it: that   *)
(* is the value the postmaster runs with, not the one in the file.         *)
(***************************************************************************)
EXTENDS Integers, SequencesExt

CONSTANTS
    Params,     \* manageable parameters
    Static,     \* those marked Restart
    Postmaster, \* those PostgreSQL takes at its start only
    Catalogs,   \* databases of the server
    Admins,     \* requests in flight together
    None, Budget

Cron == "pg_cron"
Libs == {"pg_stat_statements", Cron}

SettingsAssumption == Static \subseteq Params /\ Postmaster \subseteq Params /\ None \notin Catalogs /\ Budget \in Nat

VARIABLES
    auto,       \* postgresql.auto.conf: preloaded libraries, cron.database_name, version of each parameter
    live,       \* what the postmaster runs with
    enabled,    \* the extensions created, with their database
    change,     \* requests: next call, extension, database, libraries read, parameters left, set and announced
    granted,    \* history: extensions answered to be enabled, neither disabled since nor pg_cron on its way to another database
    erased,     \* history: libraries a write took away that its SHOW had not told of
    announced,       \* history: parameters whose setter was told to restart, no restart since
    refused,    \* history: parameters set by a request that failed afterwards, neither reloaded nor restarted since
    active, rest, budget

settingsVars == <<auto, live, enabled, change, granted, erased, announced, refused>>
Elsewhere == UNCHANGED <<rest, active>>

NoChange == [pc |-> "idle", ext |-> None, db |-> None, read |-> <<>>, left |-> {}, set |-> {}, restart |-> FALSE]
Versions == 0 .. Budget
Confs == [libs : SeqOf(Libs, Budget + 2), cron : Catalogs \cup {None}, param : [Params -> Versions]]
Extensions == Libs \X Catalogs

SettingsTypeOK ==
    /\ auto \in Confs /\ live \in Confs
    /\ enabled \subseteq Extensions /\ granted \subseteq Extensions /\ erased \subseteq Libs
    /\ announced \subseteq Params /\ refused \subseteq Params
    /\ change \in [Admins -> [pc : {"idle", "show", "alter", "cron", "restart", "create", "set", "reload"},
                              ext : Libs \cup {None}, db : Catalogs \cup {None}, read : SeqOf(Libs, Budget + 2),
                              left : SUBSET Params, set : SUBSET Params, restart : BOOLEAN]]

-----------------------------------------------------------------------------
Charged == budget > 0 /\ budget' = budget - 1
Keep == UNCHANGED budget

\* A slot for the next request: slots are interchangeable.
Ready(a) == change[a].pc = "idle" /\ a = CHOOSE b \in Admins : change[b].pc = "idle"
Goes(a, pc) == change' = [change EXCEPT ![a].pc = pc]
Ends(a) == change' = [change EXCEPT ![a] = NoChange]

\* EnableExtension of one that has to be preloaded; EnableQueryStats is it for
\* pg_stat_statements.
EnableExtension(a, e, d) ==
    /\ active /\ Ready(a) /\ Charged
    /\ change' = [change EXCEPT ![a] = [NoChange EXCEPT !.pc = "show", !.ext = e, !.db = d]]
    /\ UNCHANGED <<auto, live, enabled, granted, erased, announced, refused>> /\ Elsewhere

DisableExtension(e, d) ==
    /\ active /\ <<e, d>> \in enabled /\ Charged
    /\ enabled' = enabled \ {<<e, d>>} /\ granted' = granted \ {<<e, d>>}
    /\ UNCHANGED <<auto, live, change, erased, announced, refused>> /\ Elsewhere

\* SHOW writes the libraries with ", " between them and containsLib compares
\* untrimmed: it finds a library in the first place only.
ContainsLib(read, e) == read # <<>> /\ Head(read) = e

AfterLib(a) == IF change[a].ext = Cron THEN "cron" ELSE "restart"

\* SHOW shared_preload_libraries
ShowLibs(a) ==
    /\ change[a].pc = "show" /\ Keep
    /\ change' = [change EXCEPT ![a].read = live.libs,
                     ![a].pc = IF ContainsLib(live.libs, change[a].ext) THEN AfterLib(a) ELSE "alter"]
    /\ UNCHANGED <<auto, live, enabled, granted, erased, announced, refused>> /\ Elsewhere

\* Mutant: the library replaces the ones that are configured.
AlterLibs_Replace(a) ==
    /\ change[a].pc = "alter" /\ Keep
    /\ auto' = [auto EXCEPT !.libs = <<change[a].ext>>]
    /\ erased' = erased \cup (Range(auto.libs) \ (Range(change[a].read) \cup {change[a].ext}))
    /\ Goes(a, AfterLib(a))
    /\ UNCHANGED <<live, enabled, granted, announced, refused>> /\ Elsewhere

\* ALTER SYSTEM SET shared_preload_libraries = the library, then those SHOW told
AlterLibs(a) ==
    /\ change[a].pc = "alter" /\ Keep
    /\ auto' = [auto EXCEPT !.libs = <<change[a].ext>> \o change[a].read]
    /\ erased' = erased \cup (Range(auto.libs) \ (Range(change[a].read) \cup {change[a].ext}))
    /\ Goes(a, AfterLib(a))
    /\ UNCHANGED <<live, enabled, granted, announced, refused>> /\ Elsewhere

\* ALTER SYSTEM SET cron.database_name: pg_cron works in one database.
AlterCron(a) ==
    /\ change[a].pc = "cron" /\ Keep
    /\ auto' = [auto EXCEPT !.cron = change[a].db] /\ Goes(a, "restart")
    /\ granted' = {g \in granted : g[1] = Cron => g[2] = change[a].db}
    /\ UNCHANGED <<live, enabled, erased, announced, refused>> /\ Elsewhere

\* RestartContainer cuts every connection; a request that held one fails.
Cut == {a \in Admins : change[a].pc \in {"alter", "set", "reload"}}
SetBy(as) == UNION {change[a].set : a \in as}

\* RestartContainer, WaitHealthy and waitPostgresReady.  The restart may not
\* happen, and it may happen and not be seen to end.
Restart(a) ==
    /\ change[a].pc = "restart"
    /\ \/ /\ live' = auto /\ announced' = {} /\ refused' = {}
          /\ \E pc \in {"create", "idle"} :
                /\ change' = [b \in Admins |->
                        IF b \in Cut \/ (b = a /\ pc = "idle") THEN NoChange
                        ELSE IF b = a THEN [change[a] EXCEPT !.pc = pc] ELSE change[b]]
                /\ IF pc = "idle" THEN Charged ELSE Keep
       \/ Ends(a) /\ Charged /\ UNCHANGED <<live, announced, refused>>
    /\ UNCHANGED <<auto, enabled, granted, erased>> /\ Elsewhere

\* CREATE EXTENSION.  pg_cron refuses a server that does not run it for this
\* database; pg_stat_statements can be created and not work.
CreateExtension(a) ==
    /\ change[a].pc = "create" /\ Ends(a) /\ Keep
    /\ LET x == <<change[a].ext, change[a].db>> IN
       \/ /\ x[1] = Cron => Contains(live.libs, Cron) /\ live.cron = x[2]
          /\ enabled' = enabled \cup {x}
          /\ granted' = IF x[1] = Cron => auto.cron = x[2] THEN granted \cup {x} ELSE granted
       \/ /\ x[1] = Cron /\ ~(Contains(live.libs, Cron) /\ live.cron = x[2])
          /\ UNCHANGED <<enabled, granted>>
    /\ UNCHANGED <<auto, live, erased, announced, refused>> /\ Elsewhere

-----------------------------------------------------------------------------
\* ApplyExpandedConfig of some parameters, in the order the map gives them
ApplyExpandedConfig(a, ps) ==
    /\ active /\ Ready(a) /\ Charged
    /\ change' = [change EXCEPT ![a] = [NoChange EXCEPT !.pc = "set", !.left = ps]]
    /\ UNCHANGED <<auto, live, enabled, granted, erased, announced, refused>> /\ Elsewhere

\* Mutant: the answer follows the last parameter.
SetParam_Last(a, p) ==
    /\ change[a].pc = "set" /\ p \in change[a].left /\ Keep
    /\ auto' = [auto EXCEPT !.param[p] = @ + 1]
    /\ change' = [change EXCEPT ![a].left = @ \ {p}, ![a].set = @ \cup {p}, ![a].restart = p \in Static,
                     ![a].pc = IF change[a].left = {p} THEN "reload" ELSE "set"]
    /\ UNCHANGED <<live, enabled, granted, erased, announced, refused>> /\ Elsewhere

\* ALTER SYSTEM SET of the next parameter; PostgreSQL may refuse the value, and
\* the request ends with what it has set.
SetParam(a, p) ==
    /\ change[a].pc = "set" /\ p \in change[a].left
    /\ \/ /\ auto' = [auto EXCEPT !.param[p] = @ + 1] /\ Keep
          /\ change' = [change EXCEPT ![a].left = @ \ {p}, ![a].set = @ \cup {p},
                           ![a].restart = @ \/ p \in Static,
                           ![a].pc = IF change[a].left = {p} THEN "reload" ELSE "set"]
          /\ UNCHANGED refused
       \/ Ends(a) /\ Charged /\ refused' = refused \cup change[a].set /\ UNCHANGED auto
    /\ UNCHANGED <<live, enabled, granted, erased, announced>> /\ Elsewhere

\* What the server runs with once it has read the file again
Reloaded == [live EXCEPT !.param = [p \in Params |-> IF p \in Postmaster THEN @[p] ELSE auto.param[p]]]

\* pg_reload_conf, and the answer; the call may fail, before or after the server
\* got the signal.
Reload(a) ==
    /\ change[a].pc = "reload" /\ Ends(a)
    /\ \/ /\ Keep /\ live' = Reloaded /\ refused' = refused \cap Postmaster
          /\ announced' = IF change[a].restart THEN announced \cup change[a].set ELSE announced
       \/ /\ Charged /\ live' \in {live, Reloaded} /\ refused' = refused \cup change[a].set
          /\ UNCHANGED announced
    /\ UNCHANGED <<auto, enabled, granted, erased>> /\ Elsewhere

SettingsDropped ==
    /\ refused' = refused \cup SetBy(Admins)
    /\ change' = [a \in Admins |-> NoChange]
    /\ UNCHANGED <<auto, live, enabled, granted, erased, announced>>

\* A server is created with pg_stat_statements preloaded.
SettingsInit ==
    /\ auto = [libs |-> <<"pg_stat_statements">>, cron |-> None, param |-> [p \in Params |-> 0]]
    /\ live = auto /\ enabled = {} /\ granted = {}
    /\ erased = {} /\ announced = {} /\ refused = {}
    /\ change = [a \in Admins |-> NoChange]

-----------------------------------------------------------------------------
(* What has to hold *)

\* An extension that was answered to be enabled has its library in the running
\* server, and pg_cron its database, whatever else is enabled or restarted
\* later; except for libraries that were written after another request's SHOW,
\* or written and not running at it, and that this request then erased.
ExtensionsStay ==
    \A g \in granted :
        g[1] \notin erased => Contains(live.libs, g[1]) /\ (g[1] = Cron => live.cron = g[2])

\* Parameters that wait for a restart without a word: PostgreSQL takes them at
\* its start only, and they are not marked (autovacuum_freeze_max_age is one,
\* expanded_config.go:88).
Unmarked == Postmaster \ Static

\* A parameter in the file that the server does not follow is one whose setter
\* was told to restart, or whose setting failed half way, or is still going on;
\* except for those PostgreSQL takes at its start and the table does not mark.
PendingIsAnnounced ==
    \A p \in Params \ Unmarked :
        live.param[p] # auto.param[p] =>
            p \in refused \cup (announced \cap Static) \cup SetBy({a \in Admins : change[a].pc \in {"set", "reload"}})
=============================================================================

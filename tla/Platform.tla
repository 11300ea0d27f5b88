------------------------------ MODULE Platform ------------------------------
(***************************************************************************)
(* The platform as a whole: what every start of the backend does           *)
(* (cmd/api/main.go, internal/db/db.go) to the migrations, the cloud       *)
(* tunnel and the integration key, while administrators use and change     *)
(* them, and the updates that install the next version and restart it.     *)
(*                                                                         *)
(* IntegrationKeys, CloudTunnel and SelfUpdate are the components; their   *)
(* steps leave the rest of the system alone. Here are the boot, which runs *)
(* before the API listens, and the steps that end everything in progress.  *)
(***************************************************************************)
EXTENDS Naturals, FiniteSets

CONSTANTS
    None,
    Keys, Seeds,            \* of IntegrationKeys
    Boxes, Tokens,          \* of CloudTunnel
    Calls, MaxSecond,       \* of SelfUpdate
    Users,                  \* requests in flight together
    Boot,                   \* the boot, which acts as one more request
    Migrations,             \* number of migration files of the last version
    Budget

Reqs == Users \cup {Boot}

VARIABLES
    key, tx,                            \* IntegrationKeys
    box, row, work, spent, stray, kept, \* CloudTunnel
    file, unit, call, second, raced,    \* SelfUpdate
    boot,       \* run() of main.go: its step, the budget it began with
    env,        \* .env: CLOUDFLARE_TUNNEL_TOKEN and INTEGRATION_KEY_SEED
    version,    \* migrations the installed binary carries
    migrated,   \* schema_migrations
    ran,        \* history: how often each migration took effect
    budget

keyVars == <<key, tx>>
tunnelVars == <<box, row, work, spent, stray, kept>>
updateVars == <<file, unit, call, second, raced>>
bootVars == <<boot, env, version, migrated, ran>>
vars == <<keyVars, tunnelVars, updateVars, bootVars, budget>>

K == INSTANCE IntegrationKeys WITH
        listening <- (boot.pc = "up"), rest <- <<tunnelVars, updateVars, bootVars>>
T == INSTANCE CloudTunnel WITH
        listening <- (boot.pc = "up"), rest <- <<keyVars, updateVars, bootVars>>
S == INSTANCE SelfUpdate WITH
        NoUnit <- None, rest <- <<keyVars, tunnelVars, bootVars>>

ASSUME PlatformAssumption ==
    /\ Migrations \in Nat /\ Boot \notin Users
    /\ K!KeyAssumption /\ T!TunnelAssumption /\ S!UpdateAssumption

-----------------------------------------------------------------------------
(* One boot *)

Charged == budget > 0 /\ budget' = budget - 1
BootTo(pc) == boot' = [boot EXCEPT !.pc = pc]
Down == boot' = [pc |-> "off", began |-> 0]
Resting == UNCHANGED <<env, version, budget>>

\* Mutant: the migration and its row in schema_migrations commit apart.
Migrate_TwoCommits ==
    /\ boot.pc = "migrate"
    /\ \E m \in 1 .. version :
         /\ m \notin migrated /\ 1 .. m - 1 \subseteq migrated
         /\ ran' = [ran EXCEPT ![m] = @ + 1]
         /\ \/ migrated' = migrated \cup {m} /\ UNCHANGED <<boot, budget>>
            \/ UNCHANGED migrated /\ BootTo("off") /\ Charged
    /\ UNCHANGED <<env, version, keyVars, tunnelVars, updateVars>>

\* The first file not yet applied: its statements and its row are one transaction.
Migrate ==
    /\ boot.pc = "migrate"
    /\ \E m \in 1 .. version :
         /\ m \notin migrated /\ 1 .. m - 1 \subseteq migrated
         /\ ran' = [ran EXCEPT ![m] = @ + 1] /\ migrated' = migrated \cup {m}
    /\ UNCHANGED <<boot, env, version, budget, keyVars, tunnelVars, updateVars>>

\* Migrate, or any step before the listener, fails: run() returns, Docker starts it again.
BootFails ==
    /\ boot.pc = "migrate" /\ Charged /\ Down
    /\ UNCHANGED <<env, version, migrated, ran, keyVars, tunnelVars, updateVars>>

Migrated ==
    /\ boot.pc = "migrate" /\ migrated = 1 .. version
    /\ BootTo("tunnel")
    /\ UNCHANGED <<migrated, ran, keyVars, tunnelVars, updateVars>> /\ Resting

\* seedCloudConnect, its first half
BootTunnel ==
    /\ boot.pc = "tunnel" /\ T!BootStatus(Boot, env.token) /\ BootTo("tunnelling")
    /\ UNCHANGED <<env, version, migrated, ran, keyVars, updateVars>>

\* ... and its second half, if the first did not fail
BootKey ==
    /\ boot.pc = "tunnelling" /\ work[Boot].pc = "idle" /\ BootTo("seeding")
    /\ IF env.seed = None THEN UNCHANGED keyVars ELSE K!Seed(Boot, env.seed)
    /\ UNCHANGED <<migrated, ran, tunnelVars, updateVars>> /\ Resting

\* Mutant: the error of seedCloudConnect ends run().
Listen_ErrorEndsRun ==
    /\ \/ boot.pc = "seeding" /\ tx[Boot].pc = "idle"
       \/ boot.pc = "tunnelling" /\ work[Boot].pc = "failed"
    /\ IF boot.pc = "seeding" THEN BootTo("up") ELSE BootTo("off")
    /\ work' = [work EXCEPT ![Boot] = T!Idle]
    /\ UNCHANGED <<box, row, spent, stray, kept, migrated, ran, keyVars, updateVars>> /\ Resting

\* Its error is logged; the API listens in any case.
Listen ==
    /\ \/ boot.pc = "seeding" /\ tx[Boot].pc = "idle"
       \/ boot.pc = "tunnelling" /\ work[Boot].pc = "failed"
    /\ boot' = [pc |-> "up", began |-> 0]
    /\ work' = [work EXCEPT ![Boot] = T!Idle]
    /\ UNCHANGED <<box, row, spent, stray, kept, migrated, ran, keyVars, updateVars>> /\ Resting

-----------------------------------------------------------------------------
(* Around the boot *)

Ended == K!KeysDropped /\ T!TunnelDropped

\* Docker starts the backend that went down.
Start ==
    /\ boot.pc = "off"
    /\ boot' = [pc |-> "migrate", began |-> budget]
    /\ UNCHANGED <<env, version, migrated, ran, budget, keyVars, tunnelVars, updateVars>>

Crash ==
    /\ boot.pc # "off" /\ Charged /\ Ended /\ Down
    /\ UNCHANGED <<env, version, migrated, ran, updateVars>>

\* setup.sh refuses one value without the other.
Envs(t, k) == {[token |-> None, seed |-> None], [token |-> t, seed |-> k]}

\* The operator runs setup.sh with other flags.
Setup ==
    /\ Charged /\ Ended /\ Down
    /\ \E t \in Tokens, k \in Seeds : env' \in Envs(t, k)
    /\ UNCHANGED <<version, migrated, ran, updateVars>>

\* setup.sh as the last part of an update: the next version, the same .env.
Deploy(u) ==
    /\ S!Deploys(u) /\ Ended /\ Down
    /\ version' \in {version, Migrations}
    /\ UNCHANGED <<env, migrated, ran, budget>>

HostReboots ==
    /\ S!HostReboots /\ Ended /\ Down
    /\ UNCHANGED <<env, version, migrated, ran>>

Init ==
    /\ K!KeyInit /\ T!TunnelInit /\ S!UpdateInit
    /\ boot = [pc |-> "off", began |-> 0]
    /\ \E t \in Tokens, k \in Seeds : env \in Envs(t, k)
    /\ version \in {0, Migrations} /\ migrated = {} /\ ran = [m \in 1 .. Migrations |-> 0]
    /\ budget = Budget

Booting ==
    Start \/ Migrate \/ Migrated \/ BootTunnel \/ BootKey \/ Listen

Next ==
    \/ \E r \in Reqs :
          \/ K!SeedUpdate(r) \/ K!Lock(r) \/ K!Insert(r) \/ K!Commit(r) \/ K!Answer(r)
          \/ K!Leave(r) \/ K!Fail(r) \/ K!Rotate(r) \/ K!RevokeKey(r)
          \/ \E k \in Keys : K!Validate(r, k)
    \/ \E r \in Reqs :
          \/ T!Create(r) \/ T!Record(r) \/ T!RecordFails(r) \/ T!ReadId(r) \/ T!Remove(r)
          \/ T!Clear(r) \/ T!StatementFails(r) \/ T!Disable(r) \/ \E t \in Tokens : T!Enable(r, t)
    \/ T!BoxChanges
    \/ \E c \in Calls :
          \/ S!Status(c) \/ S!CheckUnit(c) \/ S!Heal(c)
          \/ S!Apply(c) \/ S!CheckApply(c) \/ S!WriteState(c) \/ S!Launch(c)
    \/ \E u \in S!Units : S!Pull(u) \/ S!Report(u)
    \/ Booting \/ BootFails \/ Crash \/ Setup \/ HostReboots
    \/ \E u \in S!Units : Deploy(u)

Spec == Init /\ [][Next]_vars

-----------------------------------------------------------------------------
(* What has to hold *)

TypeOK ==
    /\ K!KeyTypeOK /\ T!TunnelTypeOK /\ S!UpdateTypeOK
    /\ boot \in [pc : {"off", "migrate", "tunnel", "tunnelling", "seeding", "up"},
                 began : 0 .. Budget]
    /\ env \in [token : Tokens \cup {None}, seed : Seeds \cup {None}]
    /\ version \in 0 .. Migrations /\ migrated \subseteq 1 .. Migrations
    /\ ran \in [1 .. Migrations -> Nat] /\ budget \in 0 .. Budget

\* The promises of the components, which the boot and its crashes may not break.
OneActiveKey == K!OneActiveKey
TunnelKnown == T!TunnelKnown
OneUpdate == S!OneUpdate
SwapIsAtomic == K!SwapIsAtomic
KeysAreCredentials == K!KeysAreCredentials

\* Every migration takes effect once, also when boots die half-way, and no API
\* is served on a schema older than the binary.
MigratedOnce ==
    /\ \A m \in 1 .. Migrations : ran[m] = (IF m \in migrated THEN 1 ELSE 0)
    /\ boot.pc \in {"tunnel", "tunnelling", "seeding", "up"} => 1 .. version \subseteq migrated

\* "rodar de novo sem mudar o .env não faz nada" (main.go): a boot that nothing
\* disturbed ends with the tunnel .env asks for, whatever earlier boots, crashes
\* and requests left, and with its key in the table, active or revoked since. The
\* one exception the code has: a tunnel found running keeps the token it runs with.
BootFollowsEnv ==
    [][boot.pc = "seeding" /\ boot'.pc = "up" /\ budget = boot.began =>
         T!Follows(env.token) /\ (env.seed # None => key[env.seed] # "unborn")]_vars

-----------------------------------------------------------------------------
(* Liveness *)

\* Docker restarts the backend, statements and daemon calls return, the unit of
\* an update ends, and the interface polls the status while an update runs.
Fairness ==
    /\ WF_vars(Booting) /\ WF_vars(K!Transacting(Boot)) /\ WF_vars(T!Working(Boot))
    /\ \A c \in Calls : WF_vars(S!Status(c)) /\ WF_vars(S!Answering(c))
    /\ \A u \in S!Units : WF_vars(S!Updating(u)) /\ WF_vars(Deploy(u))

FairSpec == Spec /\ Fairness

\* "autocura pra unknown em vez de travar o botão de atualizar pra sempre"
\* (update-agent/main.go): no update stays running for ever.
UpdateEnds == file.status = "running" ~> file.status # "running"

\* The API comes back after every crash, update and reboot, with the tunnel or
\* the key in whatever state.
ComesUp == boot.pc = "off" ~> boot.pc = "up"
\* The container of the tunnel, the update and the schema are what their rows
\* and files say, whatever boots, crashes and requests meet.
PlatformSound == TypeOK /\ TunnelKnown /\ OneUpdate /\ MigratedOnce

\* An update that began ends, and the backend it restarts comes back.
ComesBack == UpdateEnds /\ ComesUp

=============================================================================

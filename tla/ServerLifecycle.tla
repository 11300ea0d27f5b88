--------------------------- MODULE ServerLifecycle ---------------------------
(***************************************************************************)
(* The life of a managed PostgreSQL server: Service.Create/provision,      *)
(* Start/Stop/Restart, the port change of UpdateServer, Delete and the     *)
(* status reconciliation of Get/List (internal/server/service.go), over    *)
(* the metadata rows (repo.go) and the Docker engine (docker/containers.go)*)
(*                                                                         *)
(* Every handler is a goroutine.  A step is one call that leaves the       *)
(* process - one SQL statement or one Docker request - so steps of         *)
(* different goroutines interleave exactly where the code lets them.       *)
(* Any such call may fail (a fault), and the backend may crash between two *)
(* steps: rows, containers and volumes survive, goroutines do not.         *)
(***************************************************************************)
EXTENDS Naturals

CONSTANTS
    Servers,    \* server ids: one potential row each, never reused (UUIDs)
    Reqs,       \* request goroutines that can be in flight together
    Ports,      \* host ports a server may be given
    BusyPorts,  \* ports held by some other process of the host
    Ops,        \* which user operations the clients issue
    Budget      \* bound on user operations, outside events, faults, crashes

ASSUME ConstantsAssumption ==
    /\ Servers # {} /\ Ports # {}
    /\ BusyPorts \subseteq Ports
    /\ Ops \subseteq {"start", "stop", "restart", "port", "delete"}
    /\ Budget \in Nat

VARIABLES
    \* metadata database, table servers
    status,     \* servers.status, "absent" before the INSERT, "deleted" after
    cid,        \* servers.container_id; 0 is the empty string
    port,       \* servers.host_port
    \* Docker engine and the managed PostgreSQL
    ctr,        \* the container that bears the server's container_name
    volume,     \* does the server's named volume exist?
    conf,       \* preset settings in that volume: none, written, active
    \* goroutines of the backend
    prov,       \* provision(), one per created server
    req,        \* request handlers
    \* bookkeeping of the model
    budget,     \* what is left of Budget
    upset       \* history: some operation on the server was cut short

rowVars    == <<status, cid, port>>
dockerVars == <<ctr, volume, conf>>
vars == <<status, cid, port, ctr, volume, conf, prov, req, budget, upset>>

Live   == {"creating", "running", "stopped", "restarting", "error", "removing"}
Status == Live \cup {"absent", "deleted"}

ReqPC  == {"idle", "mark", "docker", "save", "inspect", "stop", "remove",
           "create", "setcid", "setport", "settle", "rmvol", "rowdel"}
ProvPC == {"idle", "get", "volume", "create", "setcid", "wait1", "ready1",
           "settings", "restart", "wait2", "ready2", "extension", "save", "fail"}

Container == [gen: Nat, state: {"none", "created", "running", "exited"},
              ready: BOOLEAN, port: Ports]
Provision == [pc: ProvPC, gen: Nat]
Request   == [op: Ops \cup {"get", "none"}, srv: Servers, pc: ReqPC, cid: Nat,
              next: Status, port: Ports, keep: BOOLEAN, gen: Nat]

TypeOK ==
    /\ status \in [Servers -> Status]
    /\ cid \in [Servers -> Nat]
    /\ port \in [Servers -> Ports]
    /\ ctr \in [Servers -> Container]
    /\ volume \in [Servers -> BOOLEAN]
    /\ conf \in [Servers -> {"none", "written", "active"}]
    /\ prov \in [Servers -> Provision]
    /\ req \in [Reqs -> Request]
    /\ budget \in Nat
    /\ upset \in [Servers -> BOOLEAN]

-----------------------------------------------------------------------------
(* Docker and row primitives *)

Idle == [op |-> "none", srv |-> CHOOSE s \in Servers : TRUE, pc |-> "idle",
         cid |-> 0, next |-> "absent", port |-> CHOOSE p \in Ports : TRUE,
         keep |-> FALSE, gen |-> 0]

Present(s) == status[s] \in Live

\* Container ids are never reused: an id is the generation of the container.
Exists(s, c) == ctr[s].state # "none" /\ ctr[s].gen = c

IsRunning(s) == ctr[s].state = "running"

\* PostgreSQL answers at the container's NAME, whichever generation bears it.
Accepts(s) == IsRunning(s) /\ ctr[s].ready

\* docker start fails with "port is already allocated" otherwise.
CanBind(s, p) ==
    /\ p \notin BusyPorts
    /\ \A t \in Servers \ {s} : ~(IsRunning(t) /\ ctr[t].port = p)

SetStatus(s, st) ==
    status' = IF Present(s) THEN [status EXCEPT ![s] = st] ELSE status

\* A postmaster start reads postgresql.auto.conf: ALTER SYSTEM takes effect.
Booted(s) == IF conf[s] = "written" THEN [conf EXCEPT ![s] = "active"] ELSE conf

Boot(s) ==
    /\ ctr' = [ctr EXCEPT ![s].state = "running", ![s].ready = FALSE]
    /\ conf' = Booted(s)
    /\ UNCHANGED volume

Upset(s) == upset' = [upset EXCEPT ![s] = TRUE]

NoFault == UNCHANGED <<budget, upset>>

Fault(s) == budget > 0 /\ budget' = budget - 1 /\ Upset(s)

\* One external call: it does its work if it can, reports an error if it
\* cannot, and may report an error although it could.
Outcome(s, possible, success, failure) ==
    \/ possible /\ success /\ NoFault
    \/ ~possible /\ failure /\ NoFault
    \/ possible /\ failure /\ Fault(s)

\* ContainerCreate then ContainerStart.  The create needs the name, the start
\* needs the port; a failed start leaves the created container behind.
NewContainer(s, p, state) ==
    /\ ctr' = [ctr EXCEPT ![s] = [gen |-> ctr[s].gen + 1, state |-> state,
                                  ready |-> FALSE, port |-> p]]
    /\ volume' = [volume EXCEPT ![s] = TRUE]
    /\ conf' = IF state = "running" THEN Booted(s) ELSE conf

CreateContainer(s, p, success, failure) ==
    LET free == ctr[s].state = "none" IN
    \/ free /\ CanBind(s, p) /\ NewContainer(s, p, "running") /\ success /\ NoFault
    \/ free /\ ~CanBind(s, p) /\ NewContainer(s, p, "created") /\ failure
            /\ Upset(s) /\ budget' = budget
    \/ ~free /\ UNCHANGED dockerVars /\ failure /\ Upset(s) /\ budget' = budget
    \/ free /\ failure /\ Fault(s)
            /\ (UNCHANGED dockerVars \/ NewContainer(s, p, "created"))

-----------------------------------------------------------------------------
(* Service.Create and provision *)

\* The INSERT takes whatever port allocatePort came up with, provided the
\* UNIQUE constraint accepts it (module Pooling has the choice itself).
Create(s, p) ==
    /\ status[s] = "absent" /\ budget > 0
    /\ \A t \in Servers : Present(t) => port[t] # p
    /\ status' = [status EXCEPT ![s] = "creating"]
    /\ port' = [port EXCEPT ![s] = p]
    /\ prov' = [prov EXCEPT ![s].pc = "get"]
    /\ budget' = budget - 1
    /\ UNCHANGED <<cid, dockerVars, req, upset>>

ProvTo(s, pc) == prov' = [prov EXCEPT ![s].pc = pc]

ProvGet(s) ==
    /\ prov[s].pc = "get"
    /\ Outcome(s, Present(s), ProvTo(s, "volume"), ProvTo(s, "idle"))
    /\ UNCHANGED <<rowVars, dockerVars, req>>

\* EnsureNetwork, EnsureVolume, PullImageIfMissing.
ProvVolume(s) ==
    /\ prov[s].pc = "volume"
    /\ Outcome(s, TRUE,
               ProvTo(s, "create") /\ volume' = [volume EXCEPT ![s] = TRUE],
               ProvTo(s, "fail") /\ \/ UNCHANGED volume
                                    \/ volume' = [volume EXCEPT ![s] = TRUE])
    /\ UNCHANGED <<rowVars, ctr, conf, req>>

ProvCreate(s) ==
    /\ prov[s].pc = "create"
    /\ CreateContainer(s, port[s],
           prov' = [prov EXCEPT ![s] = [pc |-> "setcid", gen |-> ctr[s].gen + 1]],
           ProvTo(s, "fail"))
    /\ UNCHANGED <<rowVars, req>>

\* The error of SetContainerID is dropped.
ProvSetContainerID(s) ==
    /\ prov[s].pc = "setcid"
    /\ Outcome(s, Present(s), cid' = [cid EXCEPT ![s] = prov[s].gen], UNCHANGED cid)
    /\ ProvTo(s, "wait1")
    /\ UNCHANGED <<status, port, dockerVars, req>>

\* WaitHealthy looks at the container it created, by id.
ProvWaitHealthy(s, from, to) ==
    /\ prov[s].pc = from
    /\ Outcome(s, Exists(s, prov[s].gen) /\ IsRunning(s), ProvTo(s, to), ProvTo(s, "fail"))
    /\ UNCHANGED <<rowVars, dockerVars, req>>

\* waitPostgresReady and the connections that configure the server go by name;
\* while nothing accepts the wait may also run into its deadline.
ProvReady(s, from, to) ==
    /\ prov[s].pc = from
    /\ Outcome(s, Accepts(s), ProvTo(s, to), ProvTo(s, "fail"))
    /\ UNCHANGED <<rowVars, dockerVars, req>>

\* applySettings and enableQueryStatsPreload: ALTER SYSTEM, not yet in effect.
ProvSettings(s) ==
    /\ prov[s].pc = "settings"
    /\ Outcome(s, Accepts(s),
               ProvTo(s, "restart") /\ conf' = [conf EXCEPT ![s] = "written"],
               ProvTo(s, "fail") /\ conf' \in {conf, [conf EXCEPT ![s] = "written"]})
    /\ UNCHANGED <<rowVars, ctr, volume, req>>

\* Mutant: the settings are left for whatever restart comes next.
ProvRestart_Skipped(s) ==
    /\ prov[s].pc = "restart"
    /\ ProvTo(s, "wait2")
    /\ UNCHANGED <<rowVars, dockerVars, req, budget, upset>>

ProvRestart(s) ==
    /\ prov[s].pc = "restart"
    /\ Outcome(s, Exists(s, prov[s].gen) /\ (IsRunning(s) \/ CanBind(s, ctr[s].port)),
               ProvTo(s, "wait2") /\ Boot(s),
               ProvTo(s, "fail") /\ UNCHANGED dockerVars)
    /\ UNCHANGED <<rowVars, req>>

\* CREATE EXTENSION pg_stat_statements changes nothing the model tells apart.
ProvExtension(s) == ProvReady(s, "extension", "save")

\* Mutant: the failure paths return without markError.
ProvFinish_NoMarkError(s) ==
    /\ prov[s].pc \in {"save", "fail"}
    /\ IF prov[s].pc = "save" THEN SetStatus(s, "running") ELSE UNCHANGED status
    /\ ProvTo(s, "idle")
    /\ UNCHANGED <<cid, port, dockerVars, req, budget, upset>>

\* markError and the final UpdateStatus; their own error is dropped.
ProvFinish(s) ==
    /\ prov[s].pc \in {"save", "fail"}
    /\ Outcome(s, TRUE,
               SetStatus(s, IF prov[s].pc = "save" THEN "running" ELSE "error"),
               UNCHANGED status)
    /\ ProvTo(s, "idle")
    /\ UNCHANGED <<cid, port, dockerVars, req>>

Provisioning(s) ==
    \/ ProvGet(s) \/ ProvVolume(s) \/ ProvCreate(s) \/ ProvSetContainerID(s)
    \/ ProvWaitHealthy(s, "wait1", "ready1") \/ ProvReady(s, "ready1", "settings")
    \/ ProvSettings(s) \/ ProvRestart(s)
    \/ ProvWaitHealthy(s, "wait2", "ready2") \/ ProvReady(s, "ready2", "extension")
    \/ ProvExtension(s) \/ ProvFinish(s)

-----------------------------------------------------------------------------
(* Request handlers.  Each begins with repo.Get: req[r] holds what it read. *)

To(r, pc)  == req' = [req EXCEPT ![r].pc = pc]
Finish(r)  == req' = [req EXCEPT ![r] = Idle]

Read(r, op, s, pc, next, p, keep) ==
    /\ req[r].pc = "idle"
    /\ Present(s)
    /\ req' = [req EXCEPT ![r] = [op |-> op, srv |-> s, pc |-> pc, cid |-> cid[s],
                                  next |-> next, port |-> p, keep |-> keep, gen |-> 0]]
    /\ UNCHANGED <<rowVars, dockerVars, prov>>

\* A user operation draws on the budget, a poll does not.
Charged == budget > 0 /\ budget' = budget - 1 /\ UNCHANGED upset

\* requireContainer refuses start, stop and restart before SetContainerID.
StartStop(r, s) ==
    /\ cid[s] # 0 /\ Charged
    /\ \/ "start" \in Ops /\ Read(r, "start", s, "docker", "running", Idle.port, FALSE)
       \/ "stop" \in Ops /\ Read(r, "stop", s, "docker", "stopped", Idle.port, FALSE)
       \/ "restart" \in Ops /\ Read(r, "restart", s, "mark", "restarting", Idle.port, FALSE)

ChangePort(r, s, p) ==
    /\ "port" \in Ops /\ p # port[s] /\ cid[s] # 0 /\ Charged
    /\ Read(r, "port", s, "stop", IF status[s] = "running" THEN "running" ELSE "stopped", p, FALSE)

Delete(r, s, keep) ==
    /\ "delete" \in Ops /\ Charged
    /\ Read(r, "delete", s, "mark", "removing", Idle.port, keep)

\* Get and List; refreshLiveStatus leaves creating and error rows alone.
Poll(r, s) ==
    /\ cid[s] # 0 /\ status[s] \notin {"creating", "error"}
    /\ Read(r, "get", s, "inspect", status[s], Idle.port, FALSE)
    /\ NoFault

\* UpdateStatus(restarting) must find the row; UpdateStatus(removing) need not.
Mark(r) ==
    LET q == req[r] IN
    /\ q.pc = "mark"
    /\ IF q.op = "restart"
       THEN Outcome(q.srv, Present(q.srv),
                    SetStatus(q.srv, "restarting")
                        /\ req' = [req EXCEPT ![r].pc = "docker", ![r].next = "running"],
                    UNCHANGED status /\ Finish(r))
       ELSE /\ Outcome(q.srv, TRUE, SetStatus(q.srv, "removing"), UNCHANGED status)
            /\ To(r, IF q.cid # 0 THEN "remove" ELSE "rowdel")
    /\ UNCHANGED <<cid, port, dockerVars, prov>>

SaveNext(r, st) == req' = [req EXCEPT ![r].pc = "save", ![r].next = st]

\* Mutant: Docker's word is stored as it is.
LiveStatus_Raw(state) == state

\* mapDockerStatus
LiveStatus(state) ==
    CASE state = "running" -> "running" [] state = "created" -> "creating"
      [] state = "exited" -> "stopped"  [] OTHER -> "error"

\* Mutant: the live status is returned to the caller and never stored.
Inspect_NotStored(r) ==
    /\ req[r].pc = "inspect"
    /\ Outcome(req[r].srv, TRUE, Finish(r), Finish(r))
    /\ UNCHANGED <<rowVars, dockerVars, prov>>

\* InspectContainer by the id read earlier; an error keeps the last status.
Inspect(r) ==
    LET q == req[r]
        live == LiveStatus(ctr[q.srv].state)
    IN
    /\ q.pc = "inspect"
    /\ Outcome(q.srv, Exists(q.srv, q.cid),
               IF live # q.next THEN SaveNext(r, live) ELSE Finish(r),
               Finish(r))
    /\ UNCHANGED <<rowVars, dockerVars, prov>>

DockerStart(r) ==
    LET s == req[r].srv IN
    /\ req[r].pc = "docker" /\ req[r].op = "start"
    /\ Outcome(s, Exists(s, req[r].cid) /\ (IsRunning(s) \/ CanBind(s, ctr[s].port)),
               To(r, "save") /\ IF IsRunning(s) THEN UNCHANGED dockerVars ELSE Boot(s),
               Finish(r) /\ UNCHANGED dockerVars)
    /\ UNCHANGED <<rowVars, prov>>

\* A stop leaves a container that never ran as it is.
Halted(s) == [ctr EXCEPT ![s].state = IF IsRunning(s) THEN "exited" ELSE @,
                         ![s].ready = FALSE]

DockerStop(r) ==
    LET s == req[r].srv IN
    /\ \/ req[r].pc = "docker" /\ req[r].op = "stop"
       \/ req[r].pc = "stop" /\ req[r].op = "port"
    /\ Outcome(s, Exists(s, req[r].cid),
               ctr' = Halted(s) /\ To(r, IF req[r].op = "stop" THEN "save" ELSE "remove"),
               UNCHANGED ctr /\ Finish(r))
    /\ UNCHANGED <<rowVars, volume, conf, prov>>

DockerRestart(r) ==
    LET s == req[r].srv IN
    /\ req[r].pc = "docker" /\ req[r].op = "restart"
    /\ Outcome(s, Exists(s, req[r].cid) /\ (IsRunning(s) \/ CanBind(s, ctr[s].port)),
               To(r, "save") /\ Boot(s),
               SaveNext(r, "error") /\ UNCHANGED dockerVars)
    /\ UNCHANGED <<rowVars, prov>>

\* The last UpdateStatus of a handler: running, stopped, error or the live one.
SaveStatus(r) ==
    /\ req[r].pc = "save"
    /\ Outcome(req[r].srv, TRUE, SetStatus(req[r].srv, req[r].next), UNCHANGED status)
    /\ Finish(r)
    /\ UNCHANGED <<cid, port, dockerVars, prov>>

\* Mutant: the port change removes the volume with the container.
RemoveContainer_WithVolume(r) ==
    LET q == req[r] IN
    /\ q.pc = "remove"
    /\ Exists(q.srv, q.cid) /\ NoFault
    /\ ctr' = [ctr EXCEPT ![q.srv].state = "none", ![q.srv].ready = FALSE]
    /\ volume' = [volume EXCEPT ![q.srv] = FALSE]
    /\ To(r, IF q.op = "port" THEN "create" ELSE IF q.keep THEN "rowdel" ELSE "rmvol")
    /\ UNCHANGED <<rowVars, conf, prov>>

\* Mutant: Delete is best-effort about its own container, as it is about the pooler's.
RemoveContainer_BestEffort(r) ==
    LET q == req[r] IN
    /\ q.pc = "remove"
    /\ Outcome(q.srv, Exists(q.srv, q.cid),
               /\ ctr' = [ctr EXCEPT ![q.srv].state = "none", ![q.srv].ready = FALSE]
               /\ To(r, IF q.op = "port" THEN "create" ELSE IF q.keep THEN "rowdel" ELSE "rmvol"),
               UNCHANGED ctr /\ IF q.op = "port" THEN Finish(r) ELSE To(r, "rowdel"))
    /\ UNCHANGED <<rowVars, volume, conf, prov>>

\* docker rm -f by id, of Delete and of the port change.  Only Delete goes on
\* to the volume, and only Delete marks the row when the removal fails.
RemoveContainer(r) ==
    LET q == req[r] IN
    /\ q.pc = "remove"
    /\ Outcome(q.srv, Exists(q.srv, q.cid),
               /\ ctr' = [ctr EXCEPT ![q.srv].state = "none", ![q.srv].ready = FALSE]
               /\ To(r, IF q.op = "port" THEN "create" ELSE IF q.keep THEN "rowdel" ELSE "rmvol"),
               UNCHANGED ctr /\ IF q.op = "port" THEN Finish(r) ELSE SaveNext(r, "error"))
    /\ UNCHANGED <<rowVars, volume, conf, prov>>

\* docker refuses to remove a volume some container mounts.
RemoveVolume(r) ==
    LET s == req[r].srv IN
    /\ req[r].pc = "rmvol"
    /\ Outcome(s, ctr[s].state = "none",
               /\ volume' = [volume EXCEPT ![s] = FALSE]
               /\ conf' = [conf EXCEPT ![s] = "none"]
               /\ To(r, "rowdel"),
               SaveNext(r, "error") /\ UNCHANGED <<volume, conf>>)
    /\ UNCHANGED <<rowVars, ctr, prov>>

DeleteRow(r) ==
    LET s == req[r].srv IN
    /\ req[r].pc = "rowdel"
    /\ Outcome(s, Present(s), status' = [status EXCEPT ![s] = "deleted"], UNCHANGED status)
    /\ Finish(r)
    /\ UNCHANGED <<cid, port, dockerVars, prov>>

RecreateContainer(r) ==
    LET s == req[r].srv IN
    /\ req[r].pc = "create"
    /\ CreateContainer(s, req[r].port,
           req' = [req EXCEPT ![r].pc = "setcid", ![r].gen = ctr[s].gen + 1],
           SaveNext(r, "error"))
    /\ UNCHANGED <<rowVars, prov>>

\* Mutant: the port change forgets to store the id of the new container.
SetContainerID_Forgotten(r) ==
    /\ req[r].pc = "setcid"
    /\ To(r, "setport") /\ NoFault
    /\ UNCHANGED <<rowVars, dockerVars, prov>>

SetContainerID(r) ==
    LET q == req[r] IN
    /\ q.pc = "setcid"
    /\ Outcome(q.srv, Present(q.srv),
               cid' = [cid EXCEPT ![q.srv] = q.gen] /\ To(r, "setport"),
               UNCHANGED cid /\ Finish(r))
    /\ UNCHANGED <<status, port, dockerVars, prov>>

\* UpdateHostPort; a duplicate port (23505) is reported as a validation error.
UpdateHostPort(r) ==
    LET q == req[r] IN
    /\ q.pc = "setport"
    /\ Outcome(q.srv, Present(q.srv) /\ \A t \in Servers \ {q.srv} : Present(t) => port[t] # q.port,
               port' = [port EXCEPT ![q.srv] = q.port] /\ To(r, "settle"),
               UNCHANGED port /\ Finish(r))
    /\ UNCHANGED <<status, cid, dockerVars, prov>>

\* Back to what the server was: stopped again, or waited for.
Settle(r) ==
    LET q == req[r]
        s == q.srv
    IN
    /\ q.pc = "settle"
    /\ IF q.next = "stopped"
       THEN Outcome(s, Exists(s, q.gen), ctr' = Halted(s) /\ To(r, "save"),
                                         UNCHANGED ctr /\ Finish(r))
       ELSE Outcome(s, Exists(s, q.gen) /\ IsRunning(s), UNCHANGED ctr /\ To(r, "save"),
                                         UNCHANGED ctr /\ Finish(r))
    /\ UNCHANGED <<rowVars, volume, conf, prov>>

UserRequest(r, s) ==
    \/ StartStop(r, s)
    \/ \E p \in Ports : ChangePort(r, s, p)
    \/ \E keep \in BOOLEAN : Delete(r, s, keep)

Handling(r) ==
    \/ Mark(r) \/ Inspect(r) \/ DockerStart(r) \/ DockerStop(r) \/ DockerRestart(r)
    \/ SaveStatus(r) \/ RemoveContainer(r) \/ RemoveVolume(r) \/ DeleteRow(r)
    \/ RecreateContainer(r) \/ SetContainerID(r) \/ UpdateHostPort(r) \/ Settle(r)

-----------------------------------------------------------------------------
(* Around the backend *)

\* initdb, or crash recovery, ends and PostgreSQL accepts connections.
PostgresUp(s) ==
    /\ IsRunning(s) /\ ~ctr[s].ready
    /\ ctr' = [ctr EXCEPT ![s].ready = TRUE]
    /\ UNCHANGED <<rowVars, volume, conf, prov, req, budget, upset>>

\* Somebody stops the container behind the platform's back.
StoppedOutside(s) ==
    /\ IsRunning(s) /\ Charged
    /\ ctr' = Halted(s)
    /\ UNCHANGED <<rowVars, volume, conf, prov, req>>

InFlight(s) == prov[s].pc # "idle" \/ \E r \in Reqs : req[r].srv = s /\ req[r].pc # "idle"

\* The backend process dies and starts again: goroutines are gone for good,
\* nothing in main.go resumes or reconciles what they were doing.
Crash ==
    /\ budget > 0 /\ budget' = budget - 1
    /\ \E s \in Servers : InFlight(s)
    /\ prov' = [s \in Servers |-> [prov[s] EXCEPT !.pc = "idle"]]
    /\ req' = [r \in Reqs |-> Idle]
    /\ upset' = [s \in Servers |-> upset[s] \/ InFlight(s)]
    /\ UNCHANGED <<rowVars, dockerVars>>

Init ==
    /\ status = [s \in Servers |-> "absent"]
    /\ cid = [s \in Servers |-> 0]
    /\ port = [s \in Servers |-> Idle.port]
    /\ ctr = [s \in Servers |-> [gen |-> 0, state |-> "none", ready |-> FALSE, port |-> Idle.port]]
    /\ volume = [s \in Servers |-> FALSE]
    /\ conf = [s \in Servers |-> "none"]
    /\ prov = [s \in Servers |-> [pc |-> "idle", gen |-> 0]]
    /\ req = [r \in Reqs |-> Idle]
    /\ budget = Budget
    /\ upset = [s \in Servers |-> FALSE]

Next ==
    \/ \E s \in Servers :
          \/ \E p \in Ports : Create(s, p)
          \/ Provisioning(s) \/ PostgresUp(s) \/ StoppedOutside(s)
          \/ \E r \in Reqs : UserRequest(r, s) \/ Poll(r, s)
    \/ \E r \in Reqs : Handling(r)
    \/ Crash

Spec == Init /\ [][Next]_vars

-----------------------------------------------------------------------------
(* Safety *)

\* A request that has taken the container away and not yet named its
\* successor (port change) or removed the row (delete).
InGap(r, s) ==
    /\ req[r].srv = s /\ req[r].cid # 0
    /\ \/ req[r].op = "port" /\ req[r].pc \in {"create", "setcid"}
       \/ req[r].op = "delete" /\ req[r].pc \in {"rmvol", "rowdel"}

\* Unless an operation on it was cut short, the container_id of a row names a
\* container Docker has, outside the gap of the one request that replaces or
\* removes it - whatever lifecycle requests, polls, a concurrent delete and a
\* running provision interleave (UpdateServer and Delete take no lock).
ContainerBacked ==
    \A s \in Servers :
        Present(s) /\ cid[s] # 0 /\ ~upset[s] =>
            Exists(s, cid[s]) \/ \E r \in Reqs : InGap(r, s)

\* The data volume of a server that still has its row is gone only while the
\* delete that removed it is about to remove the row: a port change, alone or
\* racing a delete, never loses data ("mantendo o volume").
DataKept ==
    \A s \in Servers :
        Present(s) /\ cid[s] # 0 /\ ~upset[s] /\ ~volume[s] =>
            \E r \in Reqs : req[r].srv = s /\ req[r].op = "delete" /\ req[r].pc = "rowdel"

\* When a delete that had seen the container is about to remove the row, no
\* container of the server is left, not even one a port change was creating.
DeleteLeavesNoContainer ==
    \A r \in Reqs :
        req[r].op = "delete" /\ req[r].pc = "rowdel" /\ req[r].cid # 0 /\ ~upset[req[r].srv] =>
            ctr[req[r].srv].state = "none"

\* provision writes "running" only after a restart has put the preset settings
\* and shared_preload_libraries into effect, whatever requests ran meanwhile.
PublishedAfterTuning ==
    \A s \in Servers : prov[s].pc = "save" /\ volume[s] => conf[s] = "active"

\* The delete dialog says "Isso remove o container do servidor": once the row
\* is gone and no goroutine is at work the server has no container.
NoOrphanContainer ==
    \A s \in Servers :
        status[s] = "deleted" /\ ~InFlight(s) /\ ~upset[s] => ctr[s].state = "none"

-----------------------------------------------------------------------------
(* The inductive invariant behind ContainerBacked, DataKept and               *)
(* DeleteLeavesNoContainer (proved in ServerLifecycle_proofs).                *)

Gone(s) == ctr[s].state = "none"

\* Which handler is at which step; past the container_id checks it is not empty.
RequestRoute ==
    \A r \in Reqs :
        LET q == req[r] IN
        /\ q.pc # "idle" => q.next \in Live
        /\ q.pc = "mark" => q.op \in {"restart", "delete"}
        /\ q.pc \in {"stop", "create", "setcid"} => q.op = "port"
        /\ q.pc = "remove" => q.op \in {"port", "delete"}
        /\ q.pc \in {"rmvol", "rowdel"} => q.op = "delete"
        /\ q.pc \in {"stop", "remove", "create", "setcid", "rmvol"} => q.cid # 0

\* No handler knows a container younger than the one of the row.
IdsOrdered(s) ==
    /\ cid[s] <= ctr[s].gen
    /\ \A r \in Reqs : req[r].srv = s => req[r].cid <= cid[s]

\* Until provision stores the first id nobody else touches the container.
ProvisionAlone(s) ==
    /\ status[s] = "absent" => prov[s].pc = "idle" /\ cid[s] = 0 /\ Gone(s)
    /\ prov[s].pc \in {"get", "volume", "create"} => cid[s] = 0 /\ Gone(s)
    /\ prov[s].pc = "setcid" =>
          cid[s] = 0 /\ volume[s] /\ Exists(s, prov[s].gen)

\* At most one request is in the gap; it faces no container, or the one it made.
GapExclusive(s) ==
    \A r \in Reqs : InGap(r, s) =>
        /\ IF req[r].pc = "setcid"
           THEN Exists(s, req[r].gen) /\ cid[s] < ctr[s].gen
           ELSE Gone(s)
        /\ \A t \in Reqs : InGap(t, s) => t = r

BackedAt(s) ==
    Present(s) /\ cid[s] # 0 => Exists(s, cid[s]) \/ \E r \in Reqs : InGap(r, s)

KeptAt(s) ==
    Present(s) /\ cid[s] # 0 /\ ~volume[s] =>
        \E r \in Reqs : req[r].srv = s /\ req[r].op = "delete" /\ req[r].pc = "rowdel"

Undisturbed(s) ==
    IdsOrdered(s) /\ ProvisionAlone(s) /\ GapExclusive(s) /\ BackedAt(s) /\ KeptAt(s)

\* The inductive invariant: as long as no operation on a server was cut short,
\* requests and provision hand its container on one at a time.
HandedOver == RequestRoute /\ \A s \in Servers : ~upset[s] => Undisturbed(s)

-----------------------------------------------------------------------------
(* Liveness *)

\* Docker and database calls return, so goroutines go on; the UI polls every
\* server again and again.  Users, outside events, faults and crashes are free.
Fairness ==
    /\ \A s \in Servers : WF_vars(Provisioning(s))
    /\ \A r \in Reqs : WF_vars(Handling(r))
    /\ \A s \in Servers : SF_vars(\E r \in Reqs : Poll(r, s))

FairSpec == Spec /\ Fairness

\* Polling repairs every status that the races of the handlers leave wrong,
\* but for creating and error rows and rows whose container is gone: in the
\* end the row says what Docker says.
StatusConverges ==
    \A s \in Servers :
        <>[](\/ status[s] \in {"creating", "error", "absent", "deleted"}
             \/ ~Exists(s, cid[s])
             \/ status[s] = LiveStatus(ctr[s].state))

\* "creating" is transient unless the provision itself was cut short.
CreatingEnds ==
    \A s \in Servers : status[s] = "creating" ~> status[s] # "creating" \/ upset[s]
\* Both promises to a client that waits, under the same scheduling: the list
\* comes to agree with the daemon, and no server stays "creating".
ServersSettle == StatusConverges /\ CreatingEnds

=============================================================================

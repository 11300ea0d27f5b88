--------------------------- MODULE HostContainers ---------------------------
(***************************************************************************)
(* Containers of the host as the Docker page handles them: created from an *)
(* image, started, stopped, removed, connected to networks, and recreated  *)
(* to change what Docker fixes at creation (internal/docker/recreate.go,   *)
(* internal/infra/container_detail.go, containers.go).                     *)
(*                                                                         *)
(* A recreation is a sequence of daemon calls on one container id; the     *)
(* name passes to the new container.  Other parts of the system hold names *)
(* or ids of containers: routes, deployments, cron jobs.                   *)
(***************************************************************************)
EXTENDS Naturals, FiniteSets

CONSTANTS
    Ids,        \* container ids
    Names,      \* container names
    Volumes,    \* volumes the page may attach
    Nets,       \* networks
    Managed,    \* the network every container the platform creates joins
    Domains,    \* of the routes Traefik reads from labels
    Deployments,    \* git deployments
    Sources,    \* what an image the platform built was built from
    None,
    Reqs,       \* requests in flight together
    Budget      \* bound on requests and faults

HostAssumption ==
    /\ Managed \in Nets /\ Budget \in Nat /\ Ids # {}
    /\ None \notin Ids \cup Names \cup Volumes \cup Nets \cup Domains \cup Deployments /\ None \notin Sources

VARIABLES
    box,        \* Docker: the containers, by id
    job,        \* requests: next call, what they work on
    bound,      \* history: volumes attached with success to the container of a name
    joined,     \* history: networks connected with success
    cut,        \* history: names whose recreation failed or was cut short half-way
    raced,      \* history: names whose networks were changed, or read, during a recreation
    taken,      \* history: names whose container somebody removed
    renewed,    \* history: names whose container a redeploy replaced
    remade,     \* history: names whose container the Docker page, a route or a redeploy made
    active,     \* requests for this part come
    rest,       \* whatever else the system is made of
    budget

hostVars == <<box, job, bound, joined, cut, raced, taken, renewed, remade>>
Elsewhere == UNCHANGED <<rest, active>>

NoCfg == [name |-> None, binds |-> {}, nets |-> {}, label |-> None, image |-> None]
Idle == [pc |-> "idle", op |-> "none", id |-> None, arg |-> None, cfg |-> NoCfg]
Cfgs == [name : Names \cup {None}, binds : SUBSET Volumes, nets : SUBSET Nets,
         label : Domains \cup {None}, image : Sources \cup {None}]

HostTypeOK ==
    /\ box \in [Ids -> [state : {"none", "created", "running", "exited", "gone"}, cfg : Cfgs]]
    /\ job \in [Reqs -> [pc : {"idle", "inspect", "stop", "remove", "make", "nets", "start",
                               "attach", "insert", "find", "apply", "done", "undo", "read",
                               "wait", "record", "drop", "clear",
                               "clean", "clone", "write", "build", "create"},
                         op : {"none", "create", "bind", "env", "label", "unlabel", "file",
                               "unfile", "enable", "disable", "deploy", "push"},
                         id : Ids \cup {None}, arg : Volumes \cup Domains \cup Deployments \cup {None}, cfg : Cfgs]]
    /\ bound \in [Names -> SUBSET Volumes] /\ joined \in [Names -> SUBSET Nets]
    /\ \A names \in {cut, raced, taken, renewed, remade} : names \subseteq Names

-----------------------------------------------------------------------------
Charged == budget > 0 /\ budget' = budget - 1
Keep == UNCHANGED budget /\ Elsewhere
Noted == UNCHANGED <<bound, joined, cut, raced, taken, renewed, remade>>

Exists(c) == c # None /\ box[c].state \in {"created", "running", "exited"}
\* FindContainerIDByName
HolderOf(n) == IF \E c \in Ids : Exists(c) /\ box[c].cfg.name = n
               THEN CHOOSE c \in Ids : Exists(c) /\ box[c].cfg.name = n ELSE None

\* A slot for the next request: slots are interchangeable.
Ready(r) == job[r].pc = "idle" /\ r = CHOOSE q \in Reqs : job[q].pc = "idle"
To(r, pc) == job' = [job EXCEPT ![r].pc = pc]
\* Routes, the proxy and redeploys go on after the daemon calls; the others answer.
Ends(r, ok) ==
    IF job[r].op \in {"label", "unlabel", "enable", "deploy", "push"} THEN To(r, IF ok THEN "done" ELSE "undo")
    ELSE job' = [job EXCEPT ![r] = Idle]

\* One daemon call: refused when it is not possible, and it may fail for no
\* reason the backend knows.
Call(r, possible, success) ==
    \/ possible /\ success /\ Keep
    \/ /\ IF possible THEN Charged /\ Elsewhere ELSE Keep
       /\ Ends(r, FALSE) /\ UNCHANGED box

Asks(r, op, id, arg) ==
    job' = [job EXCEPT ![r] = [Idle EXCEPT !.pc = "inspect", !.op = op, !.id = id, !.arg = arg]]

\* AttachVolumeToContainer, UpdateContainerEnv: of the id the page shows
Recreate(r, c) ==
    /\ active /\ Ready(r) /\ Exists(c) /\ Charged
    /\ Asks(r, "env", c, None) \/ \E v \in Volumes : Asks(r, "bind", c, v)
    /\ UNCHANGED box /\ Noted /\ Elsewhere

\* What was given to the container of name n is over with it.
Forgotten(n) == bound' = [bound EXCEPT ![n] = {}] /\ joined' = [joined EXCEPT ![n] = {}]

\* CreateContainerFromImage, the image being there
CreateContainerFromImage(r, n) ==
    /\ active /\ Ready(r) /\ Charged
    /\ job' = [job EXCEPT ![r] = [Idle EXCEPT !.pc = "make", !.op = "create",
                                    !.cfg = [NoCfg EXCEPT !.name = n, !.nets = {Managed}]]]
    /\ UNCHANGED box /\ Noted /\ Elsewhere

-----------------------------------------------------------------------------
(* recreateContainer *)

\* Mutant: the container is looked up by its name when it is stopped and removed.
Target_ByName(r) == HolderOf(job[r].cfg.name)

Target(r) == job[r].id

Inspect(r) ==
    /\ job[r].pc = "inspect"
    /\ Call(r, Exists(job[r].id),
            /\ job' = [job EXCEPT ![r].pc = "stop", ![r].cfg = box[job[r].id].cfg]
            /\ UNCHANGED box)
    /\ raced' = raced \cup {job[q].cfg.name : q \in {q \in Reqs : job[q].pc = "nets" /\ job[q].id = job[r].id}}
    /\ UNCHANGED <<bound, joined, cut, taken, renewed, remade>>

Stop(r) ==
    /\ job[r].pc = "stop"
    /\ Call(r, Exists(Target(r)), To(r, "remove") /\ box' = [box EXCEPT ![Target(r)].state = "exited"])
    /\ Noted

\* The mutation of the configuration touches nothing outside, so it is done here.
Edited(r) ==
    LET cfg == job[r].cfg IN
    CASE job[r].op = "bind" -> [cfg EXCEPT !.binds = @ \cup {job[r].arg}]
      [] job[r].op = "label" -> [cfg EXCEPT !.label = job[r].arg]
      [] job[r].op = "unlabel" -> [cfg EXCEPT !.label = None]
      [] OTHER -> cfg

Remove(r) ==
    /\ job[r].pc = "remove"
    /\ Call(r, Exists(Target(r)),
            /\ job' = [job EXCEPT ![r].pc = "make", ![r].cfg = Edited(r)]
            /\ box' = [box EXCEPT ![Target(r)].state = "gone"])
    /\ Noted

Unused == {c \in Ids : box[c].state = "none"}
\* Docker gives the container an id of its own.
NewBox(cfg) == box' = [box EXCEPT ![CHOOSE c \in Unused : TRUE] = [state |-> "created", cfg |-> cfg]]
NewId == CHOOSE c \in Unused : TRUE

\* ContainerCreate: the name may be taken.  A recreated container is connected
\* to its networks afterwards, one by one.
Make(r) ==
    LET cfg == job[r].cfg
        recreation == job[r].op \notin {"create", "enable"}
        free == HolderOf(cfg.name) = None
        made == IF recreation THEN [cfg EXCEPT !.nets = {}] ELSE cfg
    IN
    /\ job[r].pc = "make" /\ (free => Unused # {})
    /\ Call(r, free,
            /\ NewBox(made)
            /\ job' = [job EXCEPT ![r].id = NewId, ![r].pc = IF recreation THEN "nets" ELSE "start"])
    /\ cut' = IF recreation /\ box' = box THEN cut \cup {cfg.name} ELSE cut
    /\ IF recreation \/ box' = box THEN UNCHANGED <<bound, joined>>
       ELSE Forgotten(cfg.name)
    /\ remade' = IF job[r].op = "enable" \/ box' = box THEN remade ELSE remade \cup {cfg.name}
    /\ UNCHANGED <<raced, taken, renewed>>

\* Mutant: a network that cannot be connected again is passed over.
ConnectNext_BestEffort(r) ==
    LET c == job[r].id
        todo == job[r].cfg.nets \ box[c].cfg.nets
    IN
    /\ job[r].pc = "nets"
    /\ \/ todo = {} /\ To(r, "start") /\ UNCHANGED box /\ Keep
       \/ \E n \in todo : box' = [box EXCEPT ![c].cfg.nets = @ \cup {n}] /\ UNCHANGED job /\ Keep
       \/ todo # {} /\ To(r, "start") /\ UNCHANGED box /\ Charged /\ Elsewhere
    /\ UNCHANGED <<bound, joined, cut, raced, taken, renewed, remade>>

ConnectNext(r) ==
    LET c == job[r].id
        todo == job[r].cfg.nets \ box[c].cfg.nets
    IN
    /\ job[r].pc = "nets"
    /\ IF todo = {} THEN To(r, "start") /\ UNCHANGED <<box, cut>> /\ Keep
       ELSE \E n \in todo :
              /\ Call(r, Exists(c), box' = [box EXCEPT ![c].cfg.nets = @ \cup {n}] /\ UNCHANGED job)
              /\ cut' = IF box' = box THEN cut \cup {job[r].cfg.name} ELSE cut
    /\ UNCHANGED <<bound, joined, raced, taken, renewed, remade>>

\* Mutant: a container that does not start is removed.
Start_OrRemove(r) ==
    /\ job[r].pc = "start"
    /\ \/ /\ Exists(job[r].id) /\ Keep /\ Ends(r, TRUE)
          /\ box' = [box EXCEPT ![job[r].id].state = "running"]
       \/ /\ Exists(job[r].id) /\ Charged /\ Ends(r, FALSE) /\ Elsewhere
          /\ box' = [box EXCEPT ![job[r].id].state = "gone"]
       \/ ~Exists(job[r].id) /\ Keep /\ Ends(r, FALSE) /\ UNCHANGED box
    /\ bound' = IF job[r].op = "bind" /\ box' # box
                THEN [bound EXCEPT ![job[r].cfg.name] = @ \cup {job[r].arg}] ELSE bound
    /\ UNCHANGED <<joined, cut, raced, taken, renewed, remade>>

\* A container whose start fails stays, with its name.
Start(r) ==
    /\ job[r].pc = "start"
    /\ Call(r, Exists(job[r].id),
            Ends(r, TRUE) /\ box' = [box EXCEPT ![job[r].id].state = "running"])
    /\ bound' = IF job[r].op = "bind" /\ box' # box
                THEN [bound EXCEPT ![job[r].cfg.name] = @ \cup {job[r].arg}] ELSE bound
    /\ UNCHANGED <<joined, cut, raced, taken, renewed, remade>>

HalfWay(r) == job[r].pc \in {"make", "nets"} /\ job[r].op \notin {"create", "enable"}
CutShort(R) == cut' = cut \cup {job[r].cfg.name : r \in {r \in R : HalfWay(r)}}

\* The client of a request goes away: the call under way is the last.
Abandon(r) ==
    /\ job[r].op \in {"create", "bind", "env"} /\ Charged
    /\ job' = [job EXCEPT ![r] = Idle] /\ CutShort({r})
    /\ UNCHANGED <<box, bound, joined, raced, taken, renewed, remade>> /\ Elsewhere

-----------------------------------------------------------------------------
(* Requests of one daemon call, on the id the page shows *)

RemoveContainer(c) ==
    /\ active /\ Exists(c) /\ Charged
    /\ box' = [box EXCEPT ![c].state = "gone"] /\ taken' = taken \cup {box[c].cfg.name}
    /\ Forgotten(box[c].cfg.name)
    /\ UNCHANGED <<job, cut, raced, renewed, remade>> /\ Elsewhere

StartStop(c) ==
    /\ active /\ Exists(c) /\ Charged
    /\ \E s \in {"running", "exited"} : s # box[c].state /\ box' = [box EXCEPT ![c].state = s]
    /\ UNCHANGED job /\ Noted /\ Elsewhere

\* A recreation of this container has read its configuration.
Recreating(c) == \E r \in Reqs : job[r].id = c /\ job[r].pc \in {"stop", "remove", "nets"}

ConnectNetwork(c, n) ==
    /\ active /\ Exists(c) /\ Charged
    /\ box' = [box EXCEPT ![c].cfg.nets = @ \cup {n}]
    /\ joined' = [joined EXCEPT ![box[c].cfg.name] = @ \cup {n}]
    /\ raced' = raced \cup (IF Recreating(c) THEN {box[c].cfg.name} ELSE {})
    /\ UNCHANGED <<job, bound, cut, taken, renewed, remade>> /\ Elsewhere

DisconnectNetwork(c, n) ==
    /\ active /\ Exists(c) /\ n \in box[c].cfg.nets /\ Charged
    /\ box' = [box EXCEPT ![c].cfg.nets = @ \ {n}]
    /\ joined' = [joined EXCEPT ![box[c].cfg.name] = @ \ {n}]
    /\ raced' = raced \cup (IF Recreating(c) THEN {box[c].cfg.name} ELSE {})
    /\ UNCHANGED <<job, bound, cut, taken, renewed, remade>> /\ Elsewhere

HostDropped ==
    /\ job' = [r \in Reqs |-> Idle] /\ CutShort(Reqs)
    /\ UNCHANGED <<box, bound, joined, raced, taken, renewed, remade>>

\* The container of one name runs, the way the platform creates it, or labelled
\* for a route.
HostInit(n, label) ==
    /\ box = [c \in Ids |->
           IF c = CHOOSE d \in Ids : TRUE
           THEN [state |-> "running", cfg |-> [NoCfg EXCEPT !.name = n, !.nets = {Managed}, !.label = label]]
           ELSE [state |-> "none", cfg |-> NoCfg]]
    /\ job = [r \in Reqs |-> Idle]
    /\ bound = [m \in Names |-> {}] /\ joined = [m \in Names |-> {}]
    /\ cut = {} /\ raced = {} /\ taken = {} /\ renewed = {} /\ remade = {}

Recreation(r) ==
    Inspect(r) \/ Stop(r) \/ Remove(r) \/ Make(r) \/ ConnectNext(r) \/ Start(r)

-----------------------------------------------------------------------------
(* What has to hold *)

\* A request is about to create a container of this name.
BeingMade(n) == \E r \in Reqs : job[r].pc = "make" /\ job[r].cfg.name = n

\* A container does not lose a volume: what was attached with success is there
\* after every later edit, also when edits of one container overlap.  The
\* exceptions are a recreation that failed half-way, and a container somebody
\* else gave the name of one that a recreation has removed and is to make again.
BindsKept ==
    \A c \in Ids :
        LET n == box[c].cfg.name IN
        Exists(c) /\ n \notin cut /\ ~BeingMade(n) => bound[n] \subseteq box[c].cfg.binds

\* Nor a network, with the same exceptions, and except to a recreation that had
\* read the container's networks before this one was connected, or connected again.
NetsKept ==
    \A c \in Ids :
        LET n == box[c].cfg.name IN
        Exists(c) /\ n \notin cut \cup raced /\ ~Recreating(c) /\ ~BeingMade(n) => joined[n] \subseteq box[c].cfg.nets

\* Nor its name a container: only a request to remove it, a redeploy and a
\* recreation that fails between remove and create leave none.
NamesStay ==
    \A c \in Ids :
        LET n == box[c].cfg.name IN
        box[c].state = "gone" /\ n \notin cut \cup taken \cup renewed =>
            HolderOf(n) # None \/ BeingMade(n)
=============================================================================

----------------------------- MODULE ProxyRoutes -----------------------------
(***************************************************************************)
(* The Traefik page (internal/infra/traefik.go): the proxy container of    *)
(* the platform and the routes, each a row and a file the proxy watches,   *)
(* or a row and labels of the target container for a proxy of somebody     *)
(* else, put there by recreating the target.                               *)
(*                                                                         *)
(* The requests use the slots and the daemon calls of HostContainers.      *)
(***************************************************************************)
EXTENDS Naturals, FiniteSets

CONSTANTS
    Ids, Names, Volumes, Nets, Managed, Domains, Deployments, Sources, None, Reqs, Budget,
    Proxy,      \* the name of the proxy container, gestpg-traefik
    SafeName,   \* routeSafeName: the file of each domain
    Outside     \* networks of a proxy that is not the platform's

RouteAssumption ==
    /\ Proxy \in Names /\ DOMAIN SafeName = Domains /\ Outside \subseteq Nets
    /\ Domains # {} /\ IsFiniteSet(Domains) /\ IsFiniteSet(Reqs)

VARIABLES
    box, job, bound, joined, cut, raced, taken, renewed, remade, active, rest, budget,
    proxying,   \* requests about the proxy container come
    route,      \* proxy_routes by domain: id of the row, mode, target
    held,       \* requests: the id of the row they created or read
    file,       \* /traefik-dynamic: the domain each file routes
    setting,    \* platform_settings: traefik_container_id
    stray,      \* history: proxy containers nobody recorded, or whose record another call cleared
    crossed,    \* history: domains created while they were deleted, or the reverse
    displaced,  \* history: domains whose file or label another route took over
    loose       \* history: domains a request about which failed, was cut short, or looked for the
                \* target while a recreation of it was between its two containers

routeVars == <<route, held, file, setting, stray, crossed, displaced, loose>>
RouteFiles == {SafeName[d] : d \in Domains}

H == INSTANCE HostContainers WITH rest <- <<routeVars, rest, proxying>>
\* For the steps that change routes: the rest of HostContainers, less routeVars.
Elsewhere == UNCHANGED <<rest, active, proxying>>
HostKept == UNCHANGED <<bound, joined, cut, raced, taken, renewed, remade>>

RowIds == 1 .. Cardinality(Domains) + Cardinality(Reqs)
NoRoute == [id |-> 0, label |-> FALSE, target |-> None]
Listed(d) == route[d].id # 0
\* An id nobody has: ids that are forgotten may be used again.
FreshRow(r) == CHOOSE i \in RowIds : /\ \A d \in Domains : route[d].id # i
                                     /\ \A q \in Reqs \ {r} : held[q] # i
Holds(r, i) == held' = [held EXCEPT ![r] = i]

RouteTypeOK ==
    /\ route \in [Domains -> [id : RowIds \cup {0}, label : BOOLEAN, target : Names \cup {None}]]
    /\ held \in [Reqs -> RowIds \cup {0}]
    /\ file \in [RouteFiles -> Domains \cup {None}]
    /\ setting \in Ids \cup {None} /\ stray \subseteq Ids
    /\ \A ds \in {crossed, displaced, loose} : ds \subseteq Domains

-----------------------------------------------------------------------------
Charged == H!Charged
Free == UNCHANGED budget
Goes(r, pc) == H!To(r, pc)
Answers(r) == job' = [job EXCEPT ![r] = H!Idle]
About(r, ops) == job[r].op \in ops
OfRoutes == {"file", "label", "unfile", "unlabel", "enable", "disable"}
Work(r, op, pc, d, n) ==
    job' = [job EXCEPT ![r] = [H!Idle EXCEPT !.pc = pc, !.op = op, !.arg = d,
                                             !.cfg = [H!NoCfg EXCEPT !.name = n]]]

\* A statement or call of request r succeeds, or fails and r goes on at pc.
May(r, success, pc) ==
    \/ success /\ Free
    \/ Charged /\ UNCHANGED <<box, routeVars>>
       /\ IF pc = "idle" THEN Answers(r) ELSE Goes(r, pc)

\* CreateProxyRoute, past its validation; n = None is a redirect or an outside address.
CreateProxyRoute(r, d, n, label) ==
    /\ active /\ H!Ready(r) /\ Charged
    /\ IF label THEN n # None /\ Work(r, "label", "insert", d, n)
       ELSE Work(r, "file", IF n = None THEN "insert" ELSE "attach", d, n)
    /\ UNCHANGED <<box, routeVars>> /\ HostKept /\ Elsewhere

\* The managed network, for a proxy that sees only that one
Attach(r) ==
    LET c == H!HolderOf(job[r].cfg.name) IN
    /\ job[r].pc = "attach"
    /\ IF c = None THEN Answers(r) /\ Free /\ UNCHANGED box
       ELSE May(r, Goes(r, "insert") /\ box' = [box EXCEPT ![c].cfg.nets = @ \cup {Managed}], "idle")
    /\ UNCHANGED routeVars /\ HostKept /\ Elsewhere

Deleting(d) == \E r \in Reqs : job[r].arg = d /\ About(r, {"unfile", "unlabel"})
Creating(d) == \E r \in Reqs : job[r].arg = d /\ About(r, {"file", "label"})

\* domain is UNIQUE
Insert(r) ==
    LET d == job[r].arg IN
    /\ job[r].pc = "insert"
    /\ IF Listed(d) THEN Answers(r) /\ Free /\ UNCHANGED <<route, held, crossed>>
       ELSE May(r, /\ Goes(r, IF About(r, {"label"}) THEN "find" ELSE "apply")
                   /\ route' = [route EXCEPT ![d] =
                          [id |-> FreshRow(r), label |-> About(r, {"label"}), target |-> job[r].cfg.name]]
                   /\ Holds(r, FreshRow(r))
                   /\ crossed' = IF Deleting(d) THEN crossed \cup {d} ELSE crossed, "idle")
    /\ UNCHANGED <<box, file, setting, stray, displaced, loose>> /\ HostKept /\ Elsewhere

\* The domain whose config is in the file of d, if it is another one.
Other(f, d) == {file[f]} \ {d, None}

\* writeDynamicConfig, over whatever the file holds
WriteDynamicConfig(r) ==
    LET d == job[r].arg IN
    /\ job[r].pc = "apply" /\ About(r, {"file"})
    /\ May(r, /\ Answers(r) /\ file' = [file EXCEPT ![SafeName[d]] = d]
              /\ displaced' = displaced \cup Other(SafeName[d], d)
              /\ UNCHANGED <<box, route, held, setting, stray, crossed, loose>>, "undo")
    /\ HostKept /\ Elsewhere

\* The other label routes of a container, whose labels a recreation replaces
Siblings(n, d) == {e \in Domains \ {d} : Listed(e) /\ route[e].label /\ route[e].target = n}

\* applyLabelRoute and the end of DeleteProxyRoute: the target by its name, and
\* the networks of the other proxy as far as they can be connected; then the
\* recreation of that id.
FindTarget(r) ==
    LET n == job[r].cfg.name
        c == H!HolderOf(n)
        inspect == job' = [job EXCEPT ![r] = [@ EXCEPT !.pc = "inspect", !.id = c]]
    IN
    /\ job[r].pc = "find" /\ About(r, {"label", "unlabel"})
    /\ IF c = None
       THEN /\ UNCHANGED <<box, displaced>> /\ Free
            /\ IF About(r, {"label"}) THEN Goes(r, "undo") ELSE Answers(r)
            /\ loose' = IF H!BeingMade(n) THEN loose \cup {job[r].arg} ELSE loose
       ELSE May(r, /\ inspect
                   /\ IF About(r, {"label"})
                      THEN \E N \in SUBSET Outside : box' = [box EXCEPT ![c].cfg.nets = @ \cup N]
                      ELSE UNCHANGED box
                   /\ displaced' = displaced \cup Siblings(n, job[r].arg)
                   /\ loose' = IF About(r, {"unlabel"}) /\ H!BeingMade(n) THEN loose \cup {job[r].arg}
                               ELSE loose, "undo")
    /\ UNCHANGED <<route, held, file, setting, stray, crossed>> /\ HostKept /\ Elsewhere

\* Mutant: the row of a route that could not be applied is left.
Undo_Skipped(r) ==
    /\ job[r].pc = "undo" /\ About(r, OfRoutes) /\ Answers(r) /\ Free
    /\ loose' = IF About(r, {"unlabel"}) THEN loose \cup {job[r].arg} ELSE loose
    /\ stray' = IF About(r, {"enable"}) /\ H!Exists(job[r].id) THEN stray \cup {job[r].id} ELSE stray
    /\ UNCHANGED <<box, route, held, file, setting, crossed, displaced>> /\ HostKept /\ Elsewhere

\* A route that was not applied loses its row, by its id; the recreation may
\* have left the label.  The other calls only report their error.
Undo(r) ==
    LET d == job[r].arg
        own == About(r, {"file", "label"}) /\ route[d].id = held[r]
        dirty == loose' = IF About(r, {"unlabel", "label"}) THEN loose \cup {d} ELSE loose
    IN
    /\ job[r].pc = "undo" /\ About(r, OfRoutes) /\ Answers(r)
    /\ \/ route' = (IF own THEN [route EXCEPT ![d] = NoRoute] ELSE route) /\ dirty /\ Free
       \/ own /\ Charged /\ loose' = loose \cup {d} /\ UNCHANGED route
    /\ stray' = IF About(r, {"enable"}) /\ H!Exists(job[r].id) THEN stray \cup {job[r].id} ELSE stray
    /\ UNCHANGED <<box, held, file, setting, crossed, displaced>> /\ HostKept /\ Elsewhere

\* The recreation is over, or EnableTraefik has its container.
Done(r) ==
    /\ job[r].pc = "done" /\ About(r, OfRoutes) /\ Free
    /\ IF About(r, {"enable"}) THEN Goes(r, "wait") ELSE Answers(r)
    /\ UNCHANGED <<box, routeVars>> /\ HostKept /\ Elsewhere

\* DeleteProxyRoute: the row, then what it stood for
DeleteProxyRoute(r, d) ==
    /\ active /\ H!Ready(r) /\ Listed(d) /\ Charged
    /\ Work(r, IF route[d].label THEN "unlabel" ELSE "unfile", "drop", d, route[d].target)
    /\ Holds(r, route[d].id)
    /\ UNCHANGED <<box, route, file, setting, stray, crossed, displaced, loose>> /\ HostKept /\ Elsewhere

DeleteRow(r) ==
    LET d == job[r].arg IN
    /\ job[r].pc = "drop" /\ About(r, {"unfile", "unlabel"})
    /\ May(r, /\ Goes(r, IF About(r, {"unlabel"}) THEN "find" ELSE "apply")
              /\ route' = IF route[d].id = held[r] THEN [route EXCEPT ![d] = NoRoute] ELSE route
              /\ crossed' = IF Creating(d) THEN crossed \cup {d} ELSE crossed
              /\ UNCHANGED <<box, held, file, setting, stray, displaced, loose>>, "idle")
    /\ HostKept /\ Elsewhere

\* Mutant: the file stays until a route of that name is written again.
RemoveDynamicConfig_Skipped(r) ==
    /\ job[r].pc = "apply" /\ About(r, {"unfile"}) /\ Answers(r) /\ Free
    /\ UNCHANGED <<box, routeVars>> /\ HostKept /\ Elsewhere

\* removeDynamicConfig: the file of that name, whosever config it holds
RemoveDynamicConfig(r) ==
    LET f == SafeName[job[r].arg] IN
    /\ job[r].pc = "apply" /\ About(r, {"unfile"}) /\ Answers(r)
    /\ \/ /\ file' = [file EXCEPT ![f] = None] /\ Free
          /\ displaced' = displaced \cup Other(f, job[r].arg) /\ UNCHANGED loose
       \/ loose' = loose \cup {job[r].arg} /\ Charged /\ UNCHANGED <<file, displaced>>
    /\ UNCHANGED <<box, route, held, setting, stray, crossed>> /\ HostKept /\ Elsewhere

-----------------------------------------------------------------------------
(* The proxy container of the platform *)

EnableTraefik(r) ==
    /\ proxying /\ H!Ready(r) /\ Charged
    /\ job' = [job EXCEPT ![r] = [H!Idle EXCEPT !.pc = "make", !.op = "enable",
                                    !.cfg = [H!NoCfg EXCEPT !.name = Proxy, !.nets = {Managed}]]]
    /\ UNCHANGED <<box, routeVars>> /\ HostKept /\ Elsewhere

\* WaitHealthy: an inspect that fails ends the wait, and so do thirty seconds.
WaitHealthy(r) ==
    /\ job[r].pc = "wait"
    /\ IF H!Exists(job[r].id) /\ box[job[r].id].state = "running"
       THEN May(r, Goes(r, "record"), "undo") ELSE Goes(r, "undo") /\ Free
    /\ UNCHANGED <<box, routeVars>> /\ HostKept /\ Elsewhere

\* The proxy of another call that the settings named until now
Overwritten(id) == {setting} \ {None, id}

Record(r) ==
    /\ job[r].pc = "record"
    /\ May(r, /\ Answers(r) /\ setting' = job[r].id
              /\ stray' = stray \cup Overwritten(job[r].id)
              /\ UNCHANGED <<box, route, held, file, crossed, displaced, loose>>, "undo")
    /\ HostKept /\ Elsewhere

DisableTraefik(r) ==
    /\ proxying /\ H!Ready(r) /\ Charged /\ Work(r, "disable", "read", None, None)
    /\ UNCHANGED <<box, routeVars>> /\ HostKept /\ Elsewhere

ReadId(r) ==
    /\ job[r].pc = "read"
    /\ May(r, job' = [job EXCEPT ![r].id = setting,
                                 ![r].pc = IF setting = None THEN "clear" ELSE "drop"], "idle")
    /\ UNCHANGED <<box, routeVars>> /\ HostKept /\ Elsewhere

\* Mutant: a proxy container that cannot be removed is forgotten.
RemoveProxy_IgnoresError(r) ==
    /\ job[r].pc = "drop" /\ About(r, {"disable"}) /\ Goes(r, "clear")
    /\ \/ H!Exists(job[r].id) /\ box' = [box EXCEPT ![job[r].id].state = "gone"] /\ Free
       \/ UNCHANGED box /\ Charged
    /\ IF box' = box THEN UNCHANGED <<bound, joined, taken>>
       ELSE taken' = taken \cup {Proxy} /\ H!Forgotten(Proxy)
    /\ UNCHANGED <<routeVars, cut, raced, renewed, remade>> /\ Elsewhere

\* RemoveContainer fails for a container that is gone: the record stays.
RemoveProxy(r) ==
    /\ job[r].pc = "drop" /\ About(r, {"disable"})
    /\ IF H!Exists(job[r].id)
       THEN May(r, Goes(r, "clear") /\ box' = [box EXCEPT ![job[r].id].state = "gone"], "idle")
       ELSE Answers(r) /\ UNCHANGED box /\ Free
    /\ IF box' = box THEN UNCHANGED <<bound, joined, taken>>
       ELSE taken' = taken \cup {Proxy} /\ H!Forgotten(Proxy)
    /\ UNCHANGED <<routeVars, cut, raced, renewed, remade>> /\ Elsewhere

Clear(r) ==
    /\ job[r].pc = "clear"
    /\ May(r, /\ Answers(r) /\ setting' = None /\ stray' = stray \cup Overwritten(job[r].id)
              /\ UNCHANGED <<box, route, held, file, crossed, displaced, loose>>, "idle")
    /\ HostKept /\ Elsewhere

-----------------------------------------------------------------------------
\* Requests R end where they are.
Left(R) ==
    /\ loose' = loose \cup ({job[r].arg : r \in {r \in R : About(r, OfRoutes)}} \ {None})
    /\ stray' = stray \cup {job[r].id : r \in {r \in R : About(r, {"enable"}) /\ H!Exists(job[r].id)}}
    /\ UNCHANGED <<route, held, file, setting, crossed, displaced>>

\* The client goes away: what the context of the request reaches is over.
RouteAbandon(r) ==
    /\ About(r, OfRoutes) /\ Charged /\ Left({r}) /\ Answers(r) /\ H!CutShort({r})
    /\ UNCHANGED <<box, bound, joined, raced, taken, renewed, remade>> /\ Elsewhere

RoutesDropped == Left(Reqs)

\* There is no route yet, or one by labels of the container of name n.
RouteInit(n, label) ==
    /\ route = [d \in Domains |-> IF d = label THEN [id |-> 1, label |-> TRUE, target |-> n] ELSE NoRoute]
    /\ held = [r \in Reqs |-> 0]
    /\ file = [f \in RouteFiles |-> None]
    /\ setting = None /\ stray = {} /\ crossed = {} /\ displaced = {} /\ loose = {}

-----------------------------------------------------------------------------
(* What has to hold *)

Settled(d) == ~Creating(d) /\ ~Deleting(d) /\ d \notin crossed \cup displaced \cup loose

\* A route of the list routes: its file holds it, or its target has its label,
\* whatever was done to the target meanwhile.  What a failed or interrupted
\* request leaves, two routes in one file or on one container, a creation and a
\* deletion of one domain at a time and a removed or redeployed target are the exceptions.
ListedIsServed ==
    \A d \in Domains :
        Listed(d) /\ Settled(d) =>
            IF route[d].label
            THEN \A c \in Ids : H!Exists(c) /\ box[c].cfg.name = route[d].target
                                  /\ route[d].target \notin cut \cup taken \cup renewed
                                  /\ ~H!BeingMade(route[d].target) => box[c].cfg.label = d
            ELSE file[SafeName[d]] = d

\* What routes is in the list, so that it can be deleted.
ServedIsListed ==
    /\ \A f \in RouteFiles : file[f] # None /\ Settled(file[f]) => Listed(file[f]) /\ ~route[file[f]].label
    /\ \A c \in Ids :
          LET d == box[c].cfg.label IN
          H!Exists(c) /\ d # None /\ Settled(d) => Listed(d) /\ route[d].target = box[c].cfg.name

\* The settings know the proxy container, so that it can be disabled, unless its
\* record failed, two calls overlapped, or the Docker page, a recreation for a
\* route or a redeploy made the container.
ProxyKnown ==
    \A c \in Ids :
        H!Exists(c) /\ box[c].cfg.name = Proxy /\ Proxy \notin remade =>
            \/ setting = c \/ c \in stray
            \/ \E r \in Reqs : About(r, {"enable"}) /\ job[r].id = c
=============================================================================

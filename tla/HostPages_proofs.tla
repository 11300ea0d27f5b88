--------------------------- MODULE HostPages_proofs ---------------------------
(***************************************************************************)
(* Proofs about the containers of the Docker host: however the recreation  *)
(* of a container by its own page, by a route and by a redeploy interleave *)
(* with each other, fail and are cut off, the container keeps its binds,   *)
(* its networks and its name.                                              *)
(*                                                                         *)
(* A step of a page is one of a few events of the host (HostEvent): a      *)
(* container is removed, made again, made anew, ...  The invariants of the *)
(* containers are shown to survive the events, and the steps of the pages  *)
(* to be events; the invariants never see a page.                          *)
(***************************************************************************)
EXTENDS HostPages, FiniteSetTheorems, WellFoundedInduction, TLAPS

LEMMA ContainersQuiet == Containers => UNCHANGED <<routeVars, gitVars>>
BY ZenonT(40) DEF Containers, H!CreateContainerFromImage, H!RemoveContainer, H!StartStop, H!Elsewhere

LEMMA ContainerPageQuiet == ContainerPage => UNCHANGED <<routeVars, gitVars>>
<1> SUFFICES ASSUME ContainerPage PROVE H!Elsewhere
  BY DEF H!Elsewhere
<1>1. ASSUME NEW r \in Reqs, H!Recreation(r) PROVE H!Elsewhere
  <2>1. CASE H!Inspect(r)  BY <2>1 DEF H!Inspect, H!Call, H!Keep
  <2>2. CASE H!Stop(r)  BY <2>2 DEF H!Stop, H!Call, H!Keep
  <2>3. CASE H!Remove(r)  BY <2>3 DEF H!Remove, H!Call, H!Keep
  <2>4. CASE H!Make(r)  BY <2>4 DEF H!Make, H!Call, H!Keep
  <2>5. CASE H!ConnectNext(r)  BY <2>5, ZenonT(40) DEF H!ConnectNext, H!Call, H!Keep
  <2>6. CASE H!Start(r)  BY <2>6 DEF H!Start, H!Call, H!Keep
  <2> QED  BY <1>1, <2>1, <2>2, <2>3, <2>4, <2>5, <2>6 DEF H!Recreation
<1> QED
  BY <1>1, ZenonT(40) DEF ContainerPage, H!Abandon, H!Recreate, H!ConnectNetwork, H!DisconnectNetwork

LEMMA RoutesQuiet == Routes => UNCHANGED gitVars
BY ZenonT(40) DEF Routes, R!CreateProxyRoute, R!DeleteProxyRoute, R!Attach, R!Insert, R!WriteDynamicConfig,
   R!FindTarget, R!Undo, R!Done, R!DeleteRow, R!RemoveDynamicConfig, R!RouteAbandon, R!Elsewhere

LEMMA ProxyPageQuiet == ProxyPage => UNCHANGED gitVars
BY ZenonT(40) DEF ProxyPage, R!EnableTraefik, R!WaitHealthy, R!Record, R!DisableTraefik, R!ReadId,
   R!RemoveProxy, R!Clear, R!Elsewhere

LEMMA RedeploysQuiet == Redeploys => UNCHANGED routeVars
BY ZenonT(40) DEF Redeploys, G!CreateGitDeployment, G!RedeployNow, G!Webhook, G!Clean, G!Clone, G!WriteFiles,
   G!RunBuild, G!FindOld, G!RemoveOld, G!CreateNew, G!RecordDeployment, G!GitAbandon,
   G!DeleteGitDeployment, G!Elsewhere
-----------------------------------------------------------------------------
(* Containers: what the requests work on *)

RecreateOps == {"bind", "env", "label", "unlabel"}
RedeployOps == {"deploy", "push"}
Alive == {"created", "running", "exited"}
HostPcs == {"idle", "inspect", "stop", "remove", "make", "nets", "start",
            "attach", "insert", "find", "apply", "done", "undo", "read",
            "wait", "record", "drop", "clear",
            "clean", "clone", "write", "build", "create"}
HostOps == {"none", "create", "bind", "env", "label", "unlabel", "file",
            "unfile", "enable", "disable", "deploy", "push"}
HostJobs == [pc : HostPcs, op : HostOps, id : Ids \cup {None},
             arg : Volumes \cup Domains \cup Deployments \cup {None}, cfg : H!Cfgs]
HostBoxes == [state : {"none", "created", "running", "exited", "gone"}, cfg : H!Cfgs]

\* How far a request of a kind may be ...
Reaches(op, pc) ==
    CASE op = "none" -> pc = "idle"
      [] op = "create" -> pc \in {"make", "start"}
      [] op \in {"bind", "env"} -> pc \in {"inspect", "stop", "remove", "make", "nets", "start"}
      [] op = "label" -> pc \in {"insert", "find", "inspect", "stop", "remove", "make", "nets", "start", "done", "undo"}
      [] op = "unlabel" -> pc \in {"drop", "find", "inspect", "stop", "remove", "make", "nets", "start", "done", "undo"}
      [] op = "file" -> pc \in {"attach", "insert", "apply", "undo"}
      [] op = "unfile" -> pc \in {"drop", "apply"}
      [] op = "enable" -> pc \in {"make", "start", "done", "wait", "record", "undo"}
      [] op = "disable" -> pc \in {"read", "drop", "clear"}
      [] OTHER -> pc \in {"clean", "clone", "write", "build", "find", "drop", "create", "start", "done", "undo"}

\* ... what it is about ...
Concerns(x) ==
    /\ x.op \in {"none", "create", "env", "enable", "disable"} => x.arg = None
    /\ x.op = "bind" => x.arg \in Volumes
    /\ x.op \in {"label", "unlabel", "file", "unfile"} => x.arg \in Domains
    /\ x.op \in RedeployOps => x.arg \in Deployments /\ x.cfg.name = NameOf[x.arg]
    /\ x.op \in {"create", "enable", "label", "unlabel"} => x.cfg.name \in Names
    /\ x.op \in {"create", "enable"} \cup RedeployOps => x.cfg.label = None
    /\ x.op = "enable" => x.cfg.name = Proxy

\* ... and what it makes of the configuration it works with.
Shapes(x) ==
    /\ x.pc \in {"stop", "remove", "make", "nets", "start"} => x.cfg.name \in Names
    /\ x.pc \in {"make", "nets", "start"} => /\ x.op = "bind" => x.arg \in x.cfg.binds
                                             /\ x.op = "label" => x.cfg.label = x.arg
                                             /\ x.op = "unlabel" => x.cfg.label = None

\* A configuration but for the networks, which change with the container there
Core(cfg) == [name |-> cfg.name, binds |-> cfg.binds, label |-> cfg.label, image |-> cfg.image]

\* The container a request works on is, or was, what the request takes it for.
Placed(x, b) ==
    /\ x.pc \in {"inspect", "stop", "remove", "nets", "start", "wait", "record"} => x.id \in Ids
    /\ x.pc = "drop" /\ x.op \in {"disable"} \cup RedeployOps => x.id \in Ids
    /\ x.pc = "done" /\ x.op = "enable" => x.id \in Ids
    /\ x.id \in Ids => b[x.id].state # "none"
    /\ x.pc \in {"stop", "remove", "nets", "start"} => b[x.id].cfg.name = x.cfg.name
    /\ x.pc = "inspect" /\ x.op \in {"label", "unlabel"} => b[x.id].cfg.name = x.cfg.name
    /\ x.pc = "drop" /\ x.op \in RedeployOps => b[x.id].cfg.name = x.cfg.name
    /\ x.op \in {"enable", "disable"} /\ x.id \in Ids => b[x.id].cfg.name = Proxy
    /\ x.pc \in {"stop", "remove", "nets"} => Core(b[x.id].cfg) = Core(x.cfg)
    /\ x.pc = "start" /\ x.op \in RecreateOps => Core(b[x.id].cfg) = Core(x.cfg)
    /\ x.pc = "clear" /\ x.id \in Ids => b[x.id].state = "gone"

Fits(x, b) == x \in HostJobs /\ Reaches(x.op, x.pc) /\ Concerns(x) /\ Shapes(x) /\ Placed(x, b)

\* The containers there are that bear a name, and the recreations that have
\* removed one of that name and are to make it again
Bearers(n) == {c \in Ids : box[c].state \in Alive /\ box[c].cfg.name = n}
Remaking(x) == x.pc = "make" /\ x.op \in RecreateOps
Makers(n) == {r \in Reqs : Remaking(job[r]) /\ job[r].cfg.name = n}

\* No two containers bear one name.
HostShape ==
    /\ job \in [Reqs -> HostJobs] /\ box \in [Ids -> HostBoxes]
    /\ bound \in [Names -> SUBSET Volumes] /\ joined \in [Names -> SUBSET Nets]
    /\ \A r \in Reqs : Fits(job[r], box)
    /\ \A c \in Ids : box[c].state # "none" => box[c].cfg.name \in Names
    /\ \A c, d \in Ids : box[c].state \in Alive /\ box[d].state \in Alive /\ box[c].cfg.name = box[d].cfg.name => c = d

\* The settings name a proxy; a route by labels has a target.
PageShape ==
    /\ setting \in Ids => box[setting].state # "none" /\ box[setting].cfg.name = Proxy
    /\ \A d \in Domains : route[d].label => route[d].target \in Names

DockerInv ==
    /\ HostShape /\ PageShape /\ R!RouteTypeOK /\ G!GitTypeOK
    /\ cut \subseteq Names /\ raced \subseteq Names /\ taken \subseteq Names
    /\ renewed \subseteq Names /\ remade \subseteq Names

LEMMA DockerConstants ==
    /\ None \notin Ids /\ None \notin Names /\ None \notin Volumes /\ None \notin Nets
    /\ None \notin Domains /\ None \notin Deployments /\ None \notin Sources
    /\ Managed \in Nets /\ Ids # {} /\ Proxy \in Names /\ App \in Names /\ App # Proxy
    /\ DOMAIN SafeName = Domains /\ DOMAIN NameOf = Deployments /\ DOMAIN TagOf = Deployments
    /\ \A g \in Deployments : NameOf[g] \in Names
    /\ Outside \subseteq Nets /\ Sources \subseteq Nat /\ 0 \in Sources /\ Budget \in Nat
    /\ Domains # {} /\ IsFiniteSet(Domains) /\ IsFiniteSet(Reqs)
<1>1. H!HostAssumption /\ R!RouteAssumption /\ G!GitAssumption /\ App \in Names \ {Proxy}
  BY PagesAssumption, Zenon DEF PagesAssumption
<1>2. None \notin Ids \cup Names \cup Volumes \cup Nets \cup Domains \cup Deployments /\ None \notin Sources
      /\ Managed \in Nets /\ Budget \in Nat /\ Ids # {}
  BY <1>1, Zenon DEF H!HostAssumption
<1>3. /\ Proxy \in Names /\ DOMAIN SafeName = Domains /\ Outside \subseteq Nets
      /\ Domains # {} /\ IsFiniteSet(Domains) /\ IsFiniteSet(Reqs)
  BY <1>1, Zenon DEF R!RouteAssumption, R!IsFiniteSet, IsFiniteSet
<1>4. /\ DOMAIN NameOf = Deployments /\ DOMAIN TagOf = Deployments
      /\ \A g \in Deployments : NameOf[g] \in Names
      /\ Sources \subseteq Nat /\ 0 \in Sources
  BY <1>1, Zenon DEF G!GitAssumption
<1>5. App \in Names /\ App # Proxy  BY <1>1
<1> QED  BY <1>2, <1>3, <1>4, <1>5, Zenon

\* The requests of the three pages that are at none, and the empty configuration
NoJob == [pc |-> "idle", op |-> "none", id |-> None, arg |-> None, cfg |-> H!NoCfg]

LEMMA NoJobFits ==
    /\ H!Idle = NoJob /\ R!H!Idle = NoJob /\ G!H!Idle = NoJob
    /\ R!H!NoCfg = H!NoCfg /\ G!H!NoCfg = H!NoCfg /\ H!NoCfg \in H!Cfgs
    /\ \A b : Fits(NoJob, b)
<1>1. H!NoCfg \in H!Cfgs  BY DEF H!NoCfg, H!Cfgs
<1>2. H!Idle = NoJob /\ R!H!Idle = NoJob /\ G!H!Idle = NoJob /\ R!H!NoCfg = H!NoCfg /\ G!H!NoCfg = H!NoCfg
  BY DEF NoJob, H!Idle, R!H!Idle, G!H!Idle, H!NoCfg, R!H!NoCfg, G!H!NoCfg
<1>3. NoJob \in HostJobs  BY <1>1 DEF NoJob, HostJobs, HostPcs, HostOps
<1>4. ASSUME NEW b PROVE Fits(NoJob, b)
  BY <1>3, DockerConstants DEF NoJob, Fits, Reaches, Concerns, Shapes, Placed, RedeployOps, RecreateOps
<1> QED  BY <1>1, <1>2, <1>4

-----------------------------------------------------------------------------
(* Steps that leave the containers what they are *)

BoxStays ==
    /\ box' \in [Ids -> HostBoxes]
    /\ \A c \in Ids :
          /\ box'[c].state \in Alive <=> box[c].state \in Alive
          /\ box'[c].state = "none" <=> box[c].state = "none"
          /\ Core(box'[c].cfg) = Core(box[c].cfg) /\ box'[c].cfg.name = box[c].cfg.name
          /\ box[c].cfg.nets \subseteq box'[c].cfg.nets

\* Containers come and go, but change neither what they are nor come back.
BoxAges ==
    \A c \in Ids : box[c].state # "none" =>
        /\ box'[c].state # "none" /\ Core(box'[c].cfg) = Core(box[c].cfg)
        /\ box'[c].cfg.name = box[c].cfg.name /\ (box[c].state = "gone" => box'[c].state = "gone")

LEMMA StayingAges == ASSUME HostShape, BoxStays PROVE BoxAges
BY DEF BoxStays, BoxAges, HostShape, HostBoxes, Alive

LEMMA PlacedStays == ASSUME BoxAges, NEW x, Placed(x, box) PROVE Placed(x, box')
BY DEF BoxAges, Placed

\* The request leaves the recreation it is at, or does not begin one.
QuietJob(o, x) ==
    \/ x = o
    \/ /\ x.pc \in {"stop", "remove"} => o.pc \in {"stop", "remove"} /\ x.id = o.id /\ x.cfg = o.cfg
       /\ ~Remaking(x) /\ x.pc # "nets"
       /\ Remaking(o) \/ o.pc = "nets" => o.cfg.name \in cut'

QuietHistory ==
    /\ UNCHANGED <<bound, joined, taken, renewed, remade>>
    /\ cut \subseteq cut' /\ cut' \subseteq Names
    /\ raced \subseteq raced' /\ raced' \subseteq Names

QuietStep ==
    /\ BoxStays /\ QuietHistory /\ job' \in [Reqs -> HostJobs]
    /\ \A q \in Reqs : QuietJob(job[q], job'[q]) /\ Fits(job'[q], box')

LEMMA QuietlyGoes ==
    ASSUME DockerInv, NEW r \in Reqs, NEW x, job' = [job EXCEPT ![r] = x],
           BoxStays, QuietHistory, Fits(x, box'), QuietJob(job[r], x)
    PROVE  QuietStep
<1>1. x \in HostJobs  BY DEF Fits
<1>2. job' \in [Reqs -> HostJobs]  BY <1>1 DEF DockerInv, HostShape
<1>3. \A q \in Reqs : job'[q] = IF q = r THEN x ELSE job[q]  BY DEF DockerInv, HostShape
<1>4. BoxAges  BY StayingAges DEF DockerInv
<1>5. ASSUME NEW q \in Reqs PROVE QuietJob(job[q], job'[q]) /\ Fits(job'[q], box')
  <2>1. CASE q = r  BY <2>1, <1>3
  <2>2. CASE q # r
    <3>1. job'[q] = job[q]  BY <2>2, <1>3
    <3>2. Fits(job[q], box)  BY DEF DockerInv, HostShape
    <3>3. Placed(job[q], box')  BY <3>2, <1>4, PlacedStays DEF Fits
    <3> QED  BY <3>1, <3>2, <3>3 DEF Fits, QuietJob
  <2> QED  BY <2>1, <2>2
<1> QED  BY <1>2, <1>5 DEF QuietStep

LEMMA BoxSame == ASSUME DockerInv, box' = box PROVE BoxStays
BY DEF DockerInv, HostShape, BoxStays

LEMMA QuietlyAnswers ==
    ASSUME DockerInv, NEW r \in Reqs, job' = [job EXCEPT ![r] = NoJob], BoxStays, QuietHistory,
           Remaking(job[r]) \/ job[r].pc = "nets" => job[r].cfg.name \in cut'
    PROVE  QuietStep
<1>1. Fits(NoJob, box')  BY NoJobFits
<1>2. QuietJob(job[r], NoJob)  BY DEF QuietJob, NoJob, Remaking
<1> QED  BY <1>1, <1>2, QuietlyGoes

\* A request goes on to its next call, the container being where it was.
LEMMA QuietlyTo ==
    ASSUME DockerInv, NEW r \in Reqs, NEW p \in HostPcs, job' = [job EXCEPT ![r].pc = p],
           BoxStays, QuietHistory, Reaches(job[r].op, p),
           Remaking(job[r]) \/ job[r].pc = "nets" => job[r].cfg.name \in cut',
           p \notin {"inspect", "stop", "make", "nets", "start"},
           p = "remove" => job[r].pc = "stop",
           p \in {"wait", "record"} => job[r].id \in Ids,
           p = "drop" => job[r].op \notin {"disable"} \cup RedeployOps,
           p = "done" /\ job[r].op = "enable" => job[r].id \in Ids,
           p = "clear" /\ job[r].id \in Ids => box'[job[r].id].state = "gone"
    PROVE  QuietStep
<1> DEFINE x == [job[r] EXCEPT !.pc = p]
<1>1. job[r] \in HostJobs /\ Fits(job[r], box)  BY DEF DockerInv, HostShape
<1>2. job' = [job EXCEPT ![r] = x]  BY DEF DockerInv, HostShape
<1>3. x.pc = p /\ x.op = job[r].op /\ x.id = job[r].id /\ x.arg = job[r].arg /\ x.cfg = job[r].cfg
      /\ x \in HostJobs
  BY <1>1 DEF HostJobs
<1> HIDE DEF x
<1>4. Placed(job[r], box')  BY <1>1, StayingAges, PlacedStays DEF Fits, DockerInv
<1>5. Placed(x, box')  BY <1>1, <1>3, <1>4 DEF Placed
<1>6. Concerns(x)  BY <1>1, <1>3 DEF Fits, Concerns
<1>7. Shapes(x)  BY <1>1, <1>3 DEF Fits, Shapes
<1>8. QuietJob(job[r], x)  BY <1>1, <1>3 DEF QuietJob, Remaking
<1> QED  BY <1>2, <1>3, <1>5, <1>6, <1>7, <1>8, QuietlyGoes DEF Fits

LEMMA HolderIs ==
    ASSUME DockerInv, NEW n
    PROVE  /\ R!H!HolderOf(n) = H!HolderOf(n) /\ G!H!HolderOf(n) = H!HolderOf(n)
           /\ \/ H!HolderOf(n) = None /\ Bearers(n) = {}
              \/ H!HolderOf(n) \in Ids /\ H!HolderOf(n) \in Bearers(n)
<1>1. R!H!HolderOf(n) = H!HolderOf(n) /\ G!H!HolderOf(n) = H!HolderOf(n)
  BY DEF H!HolderOf, R!H!HolderOf, G!H!HolderOf, H!Exists, R!H!Exists, G!H!Exists
<1>2. CASE \E c \in Ids : H!Exists(c) /\ box[c].cfg.name = n
  <2>1. PICK c \in Ids : c = H!HolderOf(n) /\ H!Exists(c) /\ box[c].cfg.name = n
    BY <1>2 DEF H!HolderOf
  <2> QED  BY <2>1, <1>1 DEF Bearers, Alive, H!Exists
<1>3. CASE ~\E c \in Ids : H!Exists(c) /\ box[c].cfg.name = n
  <2>1. H!HolderOf(n) = None  BY <1>3 DEF H!HolderOf
  <2>2. Bearers(n) = {}  BY <1>3, DockerConstants DEF Bearers, Alive, H!Exists
  <2> QED  BY <1>1, <2>1, <2>2
<1> QED  BY <1>2, <1>3

LEMMA ExistsIs ==
    /\ \A c \in Ids : (H!Exists(c) <=> box[c].state \in Alive) /\ (R!H!Exists(c) <=> box[c].state \in Alive)
                      /\ (G!H!Exists(c) <=> box[c].state \in Alive)
    /\ ~H!Exists(None) /\ ~R!H!Exists(None) /\ ~G!H!Exists(None)
BY DockerConstants DEF H!Exists, R!H!Exists, G!H!Exists, Alive

LEMMA EndsQuietly ==
    ASSUME DockerInv, NEW r \in Reqs, NEW ok \in BOOLEAN, H!Ends(r, ok), BoxStays, QuietHistory,
           job[r].pc \in {"inspect", "stop", "remove", "make", "nets", "start"}, ok => job[r].pc = "start",
           Remaking(job[r]) \/ job[r].pc = "nets" => job[r].cfg.name \in cut'
    PROVE  QuietStep
<1>1. job[r] \in HostJobs /\ Fits(job[r], box)  BY DEF DockerInv, HostShape
<1>2. CASE job[r].op \notin {"label", "unlabel", "enable", "deploy", "push"}
  BY <1>2, NoJobFits, QuietlyAnswers DEF H!Ends
<1>3. CASE job[r].op \in {"label", "unlabel", "enable", "deploy", "push"}
  <2> DEFINE p == IF ok THEN "done" ELSE "undo"
  <2>1. job' = [job EXCEPT ![r].pc = p]  BY <1>3 DEF H!Ends, H!To
  <2>2. Reaches(job[r].op, p)  BY <1>3 DEF Reaches
  <2>3. ok => job[r].id \in Ids  BY <1>1 DEF Fits, Placed
  <2> QED  BY <2>1, <2>2, <2>3, QuietlyTo DEF HostPcs
<1> QED  BY <1>2, <1>3

LEMMA CreateContainerQuietly ==
    ASSUME DockerInv, NEW r \in Reqs, NEW n \in Names, H!CreateContainerFromImage(r, n)
    PROVE  QuietStep
<1> DEFINE cfg == [H!NoCfg EXCEPT !.name = n, !.nets = {Managed}]
           x == [NoJob EXCEPT !.pc = "make", !.op = "create", !.cfg = cfg]
<1>1. cfg \in H!Cfgs /\ cfg.name = n /\ cfg.label = None  BY DockerConstants DEF H!NoCfg, H!Cfgs
<1>2. /\ job' = [job EXCEPT ![r] = x] /\ BoxStays /\ QuietHistory
  BY NoJobFits, BoxSame DEF H!CreateContainerFromImage, H!Noted, QuietHistory, DockerInv
<1>3. job[r] \in HostJobs /\ job[r].pc = "idle"  BY DEF H!CreateContainerFromImage, H!Ready, DockerInv, HostShape
<1> HIDE DEF cfg
<1>4. /\ x.pc = "make" /\ x.op = "create" /\ x.id = None /\ x.arg = None /\ x.cfg = cfg /\ x \in HostJobs
  BY <1>1 DEF NoJob, HostJobs, HostPcs, HostOps
<1> HIDE DEF x
<1>5. Fits(x, box')
  BY <1>1, <1>4, DockerConstants DEF Fits, Reaches, Concerns, Shapes, Placed, RecreateOps, RedeployOps
<1>6. QuietJob(job[r], x)  BY <1>3, <1>4 DEF QuietJob, Remaking, RecreateOps
<1> QED  BY <1>2, <1>5, <1>6, QuietlyGoes

LEMMA RecreateQuietly ==
    ASSUME DockerInv, NEW r \in Reqs, NEW c \in Ids, H!Recreate(r, c)
    PROVE  QuietStep
<1>1. PICK op \in {"env", "bind"}, v \in Volumes \cup {None} :
        H!Asks(r, op, c, v) /\ (op = "env" => v = None) /\ (op = "bind" => v \in Volumes)
  BY DEF H!Recreate
<1> DEFINE x == [NoJob EXCEPT !.pc = "inspect", !.op = op, !.id = c, !.arg = v]
<1>2. /\ job' = [job EXCEPT ![r] = x] /\ BoxStays /\ QuietHistory
  BY <1>1, NoJobFits, BoxSame DEF H!Recreate, H!Asks, H!Noted, QuietHistory, DockerInv
<1>3. job[r] \in HostJobs /\ job[r].pc = "idle"  BY DEF H!Recreate, H!Ready, DockerInv, HostShape
<1>4. /\ x.pc = "inspect" /\ x.op = op /\ x.id = c /\ x.arg = v /\ x.cfg = H!NoCfg /\ x \in HostJobs
  BY NoJobFits DEF NoJob, HostJobs, HostPcs, HostOps
<1>5. box[c].state # "none" /\ box' = box  BY ExistsIs DEF H!Recreate, Alive
<1> HIDE DEF x
<1>6. Fits(x, box')
  BY <1>1, <1>4, <1>5 DEF Fits, Reaches, Concerns, Shapes, Placed, RecreateOps, RedeployOps
<1>7. QuietJob(job[r], x)  BY <1>3, <1>4 DEF QuietJob, Remaking, RecreateOps
<1> QED  BY <1>2, <1>6, <1>7, QuietlyGoes

\* Starting, stopping: the container stays what it is.
LEMMA StateStays ==
    ASSUME DockerInv, NEW c \in Ids, NEW s \in Alive, box[c].state \in Alive,
           box' = [box EXCEPT ![c].state = s]
    PROVE  BoxStays
<1>1. box \in [Ids -> HostBoxes] /\ box[c] \in HostBoxes  BY DEF DockerInv, HostShape
<1>2. /\ [box[c] EXCEPT !.state = s] \in HostBoxes /\ [box[c] EXCEPT !.state = s].state = s
      /\ [box[c] EXCEPT !.state = s].cfg = box[c].cfg
  BY <1>1 DEF HostBoxes, Alive
<1>3. \A d \in Ids : box'[d] = IF d = c THEN [box[c] EXCEPT !.state = s] ELSE box[d]  BY <1>1
<1>4. box' \in [Ids -> HostBoxes]  BY <1>1, <1>2
<1> QED  BY <1>2, <1>3, <1>4 DEF BoxStays, Alive

\* A container that joins networks stays what it is.
LEMMA NetsGrow ==
    ASSUME DockerInv, NEW c \in Ids, NEW N \in SUBSET Nets, box' = [box EXCEPT ![c].cfg.nets = @ \cup N]
    PROVE  BoxStays
<1>1. box \in [Ids -> HostBoxes] /\ box[c] \in HostBoxes  BY DEF DockerInv, HostShape
<1> DEFINE b == [box[c] EXCEPT !.cfg.nets = @ \cup N]
<1>2. box[c].cfg \in H!Cfgs  BY <1>1 DEF HostBoxes
<1>3. /\ b.state = box[c].state /\ b.cfg = [box[c].cfg EXCEPT !.nets = @ \cup N]  BY <1>1, <1>2 DEF HostBoxes, H!Cfgs
<1>4. /\ b.cfg \in H!Cfgs /\ Core(b.cfg) = Core(box[c].cfg) /\ b.cfg.name = box[c].cfg.name
      /\ box[c].cfg.nets \subseteq b.cfg.nets
  BY <1>2, <1>3 DEF H!Cfgs, Core
<1>5. b \in HostBoxes  BY <1>1, <1>3, <1>4 DEF HostBoxes
<1>6. \A d \in Ids : box'[d] = IF d = c THEN b ELSE box[d]  BY <1>1
<1>7. box' \in [Ids -> HostBoxes]  BY <1>1, <1>5, <1>6
<1> HIDE DEF b
<1> QED  BY <1>3, <1>4, <1>6, <1>7 DEF BoxStays

LEMMA StopQuietly == ASSUME DockerInv, NEW r \in Reqs, H!Stop(r) PROVE QuietStep
<1>1. job[r] \in HostJobs /\ Fits(job[r], box) /\ job[r].pc = "stop" /\ job[r].id \in Ids
  BY DEF DockerInv, HostShape, H!Stop, Fits, Placed
<1>2. QuietHistory  BY DEF H!Stop, H!Noted, QuietHistory, DockerInv
<1>3. CASE H!Ends(r, FALSE) /\ UNCHANGED box  BY <1>1, <1>2, <1>3, BoxSame, EndsQuietly DEF Remaking
<1>4. CASE /\ box[job[r].id].state \in Alive /\ H!To(r, "remove")
           /\ box' = [box EXCEPT ![job[r].id].state = "exited"]
  <2>1. BoxStays  BY <1>1, <1>4, StateStays DEF Alive
  <2>2. Reaches(job[r].op, "remove")  BY <1>1 DEF Fits, Reaches
  <2> QED  BY <1>1, <1>2, <1>4, <2>1, <2>2, QuietlyTo DEF H!To, HostPcs, Remaking
<1> QED  BY <1>1, <1>3, <1>4, ExistsIs DEF H!Stop, H!Call, H!Target

LEMMA StartStopQuietly == ASSUME DockerInv, NEW c \in Ids, H!StartStop(c) PROVE QuietStep
<1>1. PICK s \in Alive : box' = [box EXCEPT ![c].state = s]  BY DEF H!StartStop, Alive
<1>2. BoxStays /\ QuietHistory /\ job' = job
  BY <1>1, StateStays, ExistsIs DEF H!StartStop, H!Noted, QuietHistory, DockerInv
<1>3. ASSUME NEW q \in Reqs PROVE QuietJob(job[q], job'[q]) /\ Fits(job'[q], box')
  <2>1. Fits(job[q], box)  BY DEF DockerInv, HostShape
  <2>2. Placed(job[q], box')  BY <2>1, <1>2, StayingAges, PlacedStays DEF Fits, DockerInv
  <2> QED  BY <1>2, <2>1, <2>2 DEF QuietJob, Fits
<1> QED  BY <1>2, <1>3 DEF QuietStep, DockerInv, HostShape

LEMMA AbandonQuietly == ASSUME DockerInv, NEW r \in Reqs, H!Abandon(r) PROVE QuietStep
<1>1. job[r] \in HostJobs /\ Fits(job[r], box)  BY DEF DockerInv, HostShape
<1>2. box' = box /\ job' = [job EXCEPT ![r] = NoJob]  BY NoJobFits DEF H!Abandon
<1>3. Remaking(job[r]) \/ job[r].pc = "nets" <=> H!HalfWay(r)
  BY <1>1 DEF Remaking, H!HalfWay, Fits, Reaches, RecreateOps, HostJobs, HostOps
<1>4. H!HalfWay(r) => job[r].cfg.name \in Names  BY <1>1 DEF H!HalfWay, Fits, Shapes
<1>5. cut' = cut \cup (IF H!HalfWay(r) THEN {job[r].cfg.name} ELSE {})  BY DEF H!Abandon, H!CutShort
<1>6. QuietHistory  BY <1>4, <1>5 DEF H!Abandon, QuietHistory, DockerInv
<1> QED  BY <1>2, <1>3, <1>5, <1>6, BoxSame, QuietlyAnswers
-----------------------------------------------------------------------------
(* The routes and the proxy page leave the containers what they are, but for *)
(* the removal of the proxy.                                                 *)

LEMMA WorkQuietly ==
    ASSUME DockerInv, NEW r \in Reqs, NEW op \in {"label", "file", "unlabel", "unfile", "disable"},
           NEW pc \in {"insert", "attach", "drop", "read"}, NEW d \in Domains \cup {None}, NEW n \in Names \cup {None},
           R!Work(r, op, pc, d, n), Reaches(op, pc), box' = box, QuietHistory,
           op = "disable" <=> d = None, op = "disable" => pc = "read",
           op \in {"label", "unlabel"} => n \in Names, job[r].pc = "idle"
    PROVE  QuietStep
<1> DEFINE cfg == [H!NoCfg EXCEPT !.name = n]
           x == [NoJob EXCEPT !.pc = pc, !.op = op, !.arg = d, !.cfg = cfg]
<1>1. cfg \in H!Cfgs /\ cfg.name = n  BY DEF H!NoCfg, H!Cfgs
<1>2. job' = [job EXCEPT ![r] = x]  BY NoJobFits DEF R!Work
<1> HIDE DEF cfg
<1>3. x.pc = pc /\ x.op = op /\ x.id = None /\ x.arg = d /\ x.cfg = cfg /\ x \in HostJobs
  BY <1>1 DEF NoJob, HostJobs, HostPcs, HostOps
<1> HIDE DEF x
<1>4. Concerns(x) /\ Shapes(x)  BY <1>1, <1>3, DockerConstants DEF Concerns, Shapes, RedeployOps
<1>5. Placed(x, box')  BY <1>3, DockerConstants DEF Placed, RedeployOps
<1>6. QuietJob(job[r], x)  BY <1>3 DEF QuietJob, Remaking
<1> QED  BY <1>2, <1>3, <1>4, <1>5, <1>6, BoxSame, QuietlyGoes DEF Fits

LEMMA CreateRouteQuietly ==
    ASSUME DockerInv, NEW r \in Reqs, NEW d \in Domains, NEW n \in {App, None}, NEW label \in BOOLEAN,
           R!CreateProxyRoute(r, d, n, label)
    PROVE  QuietStep
<1>1. job[r].pc = "idle" /\ box' = box  BY DEF R!CreateProxyRoute, R!H!Ready
<1>2. QuietHistory  BY DEF R!CreateProxyRoute, R!HostKept, QuietHistory, DockerInv
<1>3. CASE label
  <2>1. R!Work(r, "label", "insert", d, n) /\ n # None  BY <1>3 DEF R!CreateProxyRoute
  <2>2. Reaches("label", "insert")  BY DEF Reaches
  <2> QED  BY <2>1, <2>2, <1>1, <1>2, WorkQuietly, DockerConstants
<1>4. CASE ~label
  <2>1. R!Work(r, "file", IF n = None THEN "insert" ELSE "attach", d, n)  BY <1>4 DEF R!CreateProxyRoute
  <2>2. Reaches("file", "insert") /\ Reaches("file", "attach")  BY DEF Reaches
  <2> QED  BY <2>1, <2>2, <1>1, <1>2, WorkQuietly, DockerConstants
<1> QED  BY <1>3, <1>4

LEMMA DeleteRouteQuietly ==
    ASSUME DockerInv, NEW r \in Reqs, NEW d \in Domains, R!DeleteProxyRoute(r, d) PROVE QuietStep
<1>1. job[r].pc = "idle" /\ box' = box  BY DEF R!DeleteProxyRoute, R!H!Ready
<1>2. QuietHistory  BY DEF R!DeleteProxyRoute, R!HostKept, QuietHistory, DockerInv
<1>3. route[d].target \in Names \cup {None} /\ (route[d].label => route[d].target \in Names)
  BY DEF DockerInv, R!RouteTypeOK, PageShape
<1>4. R!Work(r, IF route[d].label THEN "unlabel" ELSE "unfile", "drop", d, route[d].target)
  BY DEF R!DeleteProxyRoute
<1>5. Reaches("unlabel", "drop") /\ Reaches("unfile", "drop")  BY DEF Reaches
<1> QED  BY <1>1, <1>2, <1>3, <1>4, <1>5, WorkQuietly, DockerConstants

LEMMA DisableQuietly == ASSUME DockerInv, NEW r \in Reqs, R!DisableTraefik(r) PROVE QuietStep
<1>1. job[r].pc = "idle" /\ box' = box  BY DEF R!DisableTraefik, R!H!Ready, R!routeVars
<1>2. QuietHistory  BY DEF R!DisableTraefik, R!HostKept, QuietHistory, DockerInv
<1>3. R!Work(r, "disable", "read", None, None)  BY DEF R!DisableTraefik
<1>4. Reaches("disable", "read")  BY DEF Reaches
<1> QED  BY <1>1, <1>2, <1>3, <1>4, WorkQuietly

LEMMA EnableQuietly == ASSUME DockerInv, NEW r \in Reqs, R!EnableTraefik(r) PROVE QuietStep
<1> DEFINE cfg == [H!NoCfg EXCEPT !.name = Proxy, !.nets = {Managed}]
           x == [NoJob EXCEPT !.pc = "make", !.op = "enable", !.cfg = cfg]
<1>1. cfg \in H!Cfgs /\ cfg.name = Proxy /\ cfg.label = None  BY DockerConstants DEF H!NoCfg, H!Cfgs
<1>2. /\ job' = [job EXCEPT ![r] = x] /\ BoxStays /\ QuietHistory
  BY NoJobFits, BoxSame DEF R!EnableTraefik, R!HostKept, QuietHistory, DockerInv
<1>3. job[r].pc = "idle"  BY DEF R!EnableTraefik, R!H!Ready
<1> HIDE DEF cfg
<1>4. /\ x.pc = "make" /\ x.op = "enable" /\ x.id = None /\ x.arg = None /\ x.cfg = cfg /\ x \in HostJobs
  BY <1>1 DEF NoJob, HostJobs, HostPcs, HostOps
<1> HIDE DEF x
<1>5. Fits(x, box')
  BY <1>1, <1>4, DockerConstants DEF Fits, Reaches, Concerns, Shapes, Placed, RecreateOps, RedeployOps
<1>6. QuietJob(job[r], x)  BY <1>3, <1>4 DEF QuietJob, Remaking, RecreateOps
<1> QED  BY <1>2, <1>5, <1>6, QuietlyGoes

\* A request that is at none of the calls of a recreation answers, or goes on.
LEMMA RouteAnswers ==
    ASSUME DockerInv, NEW r \in Reqs, R!Answers(r), BoxStays, R!HostKept, job[r].pc \notin {"make", "nets"}
    PROVE  QuietStep
<1>1. job' = [job EXCEPT ![r] = NoJob]  BY NoJobFits DEF R!Answers
<1>2. QuietHistory  BY DEF R!HostKept, QuietHistory, DockerInv
<1> QED  BY <1>1, <1>2, QuietlyAnswers DEF Remaking

LEMMA RouteGoes ==
    ASSUME DockerInv, NEW r \in Reqs, NEW p \in {"insert", "find", "apply", "undo", "wait", "record"},
           R!Goes(r, p), BoxStays, R!HostKept,
           job[r].pc \notin {"make", "nets"}, Reaches(job[r].op, p), p \in {"wait", "record"} => job[r].id \in Ids
    PROVE  QuietStep
<1>1. job' = [job EXCEPT ![r].pc = p]  BY DEF R!Goes, R!H!To
<1>2. QuietHistory  BY DEF R!HostKept, QuietHistory, DockerInv
<1> QED  BY <1>1, <1>2, QuietlyTo DEF Remaking, HostPcs, RedeployOps

LEMMA AttachQuietly == ASSUME DockerInv, NEW r \in Reqs, R!Attach(r) PROVE QuietStep
<1> DEFINE c == R!H!HolderOf(job[r].cfg.name)
<1>1. Fits(job[r], box) /\ job[r] \in HostJobs /\ job[r].pc = "attach" /\ R!HostKept
  BY DEF DockerInv, HostShape, R!Attach
<1>2. c = None \/ c \in Ids  BY HolderIs
<1>3. job[r].op = "file" /\ Reaches(job[r].op, "insert")  BY <1>1 DEF Fits, Reaches, HostJobs, HostOps
<1>4. CASE R!Answers(r) /\ box' = box  BY <1>1, <1>4, BoxSame, RouteAnswers
<1>5. CASE c \in Ids /\ R!Goes(r, "insert") /\ box' = [box EXCEPT ![c].cfg.nets = @ \cup {Managed}]
  <2>1. {Managed} \in SUBSET Nets  BY DockerConstants
  <2> HIDE DEF c
  <2>2. BoxStays  BY <1>5, <2>1, NetsGrow
  <2> QED  BY <1>1, <1>3, <1>5, <2>2, RouteGoes
<1> QED  BY <1>2, <1>4, <1>5, DockerConstants DEF R!Attach, R!May

LEMMA InsertQuietly == ASSUME DockerInv, NEW r \in Reqs, R!Insert(r) PROVE QuietStep
<1>1. Fits(job[r], box) /\ job[r] \in HostJobs /\ job[r].pc = "insert" /\ R!HostKept /\ BoxStays
  BY BoxSame DEF DockerInv, HostShape, R!Insert
<1>2. CASE R!Answers(r)  BY <1>1, <1>2, RouteAnswers
<1>3. CASE R!Goes(r, IF R!About(r, {"label"}) THEN "find" ELSE "apply")
  <2>1. CASE job[r].op = "label"
    <3>1. R!Goes(r, "find") /\ Reaches(job[r].op, "find")  BY <2>1, <1>3 DEF R!About, Reaches
    <3> QED  BY <3>1, <1>1, RouteGoes
  <2>2. CASE job[r].op # "label"
    <3>1. R!Goes(r, "apply")  BY <2>2, <1>3 DEF R!About
    <3>2. job[r].op = "file"  BY <1>1, <2>2 DEF Fits, Reaches, HostJobs, HostOps
    <3>3. Reaches(job[r].op, "apply")  BY <3>2 DEF Reaches
    <3> QED  BY <3>1, <3>3, <1>1, RouteGoes
  <2> QED  BY <2>1, <2>2
<1> QED  BY <1>2, <1>3 DEF R!Insert, R!May

LEMMA FileQuietly ==
    ASSUME DockerInv, NEW r \in Reqs, R!WriteDynamicConfig(r) \/ R!RemoveDynamicConfig(r) PROVE QuietStep
<1>1. Fits(job[r], box) /\ job[r].pc = "apply" /\ R!HostKept /\ BoxStays
  BY BoxSame DEF DockerInv, HostShape, R!WriteDynamicConfig, R!RemoveDynamicConfig, R!May, R!routeVars
<1>2. CASE R!Answers(r)  BY <1>1, <1>2, RouteAnswers
<1>3. CASE R!Goes(r, "undo") /\ job[r].op = "file"
  <2>1. Reaches(job[r].op, "undo")  BY <1>3 DEF Reaches
  <2> QED  BY <1>1, <1>3, <2>1, RouteGoes
<1> QED  BY <1>2, <1>3 DEF R!WriteDynamicConfig, R!RemoveDynamicConfig, R!May, R!About

LEMMA FindTargetQuietly == ASSUME DockerInv, NEW r \in Reqs, R!FindTarget(r) PROVE QuietStep
<1> DEFINE n == job[r].cfg.name
           c == R!H!HolderOf(n)
<1>1. /\ Fits(job[r], box) /\ job[r] \in HostJobs /\ job[r].pc = "find" /\ R!HostKept
      /\ job[r].op \in {"label", "unlabel"}
  BY DEF DockerInv, HostShape, R!FindTarget, R!About
<1>2. c = None \/ (c \in Ids /\ c \in Bearers(n))  BY HolderIs
<1>3. Reaches(job[r].op, "undo") /\ Reaches(job[r].op, "inspect")  BY <1>1 DEF Reaches
<1>4. CASE R!Answers(r) /\ box' = box  BY <1>1, <1>4, BoxSame, RouteAnswers
<1>5. CASE R!Goes(r, "undo") /\ box' = box  BY <1>1, <1>3, <1>5, BoxSame, RouteGoes
<1>6. CASE /\ c # None /\ job' = [job EXCEPT ![r] = [@ EXCEPT !.pc = "inspect", !.id = c]]
           /\ box' = box \/ \E N \in SUBSET Outside : box' = [box EXCEPT ![c].cfg.nets = @ \cup N]
  <2> DEFINE x == [job[r] EXCEPT !.pc = "inspect", !.id = c]
  <2>1. c \in Ids /\ c \in Bearers(n)  BY <1>2, <1>6, Zenon
  <2>2. BoxStays  BY <1>6, <2>1, NetsGrow, BoxSame, DockerConstants, Zenon
  <2>3. job' = [job EXCEPT ![r] = x]  BY <1>6 DEF DockerInv, HostShape
  <2>4. /\ x.pc = "inspect" /\ x.op = job[r].op /\ x.id = c /\ x.arg = job[r].arg /\ x.cfg = job[r].cfg
        /\ x \in HostJobs
    BY <1>1, <2>1 DEF HostJobs, HostPcs
  <2> HIDE DEF x
  <2>5. box'[c].state # "none" /\ box'[c].cfg.name = n  BY <2>1, <2>2 DEF Bearers, BoxStays, Alive
  <2>6. Placed(x, box')  BY <1>1, <2>1, <2>4, <2>5 DEF Placed, RedeployOps
  <2>7. Concerns(x) /\ Shapes(x)  BY <1>1, <2>4 DEF Fits, Concerns, Shapes
  <2>8. QuietHistory  BY <1>1 DEF R!HostKept, QuietHistory, DockerInv
  <2>9. QuietJob(job[r], x)  BY <1>1, <2>4 DEF QuietJob, Remaking
  <2> HIDE DEF c, n
  <2> QED  BY <1>3, <2>2, <2>3, <2>4, <2>6, <2>7, <2>8, <2>9, QuietlyGoes DEF Fits
<1> HIDE DEF c, n
<1> QED  BY <1>4, <1>5, <1>6 DEF R!FindTarget, R!May, c, n

LEMMA UndoQuietly == ASSUME DockerInv, NEW r \in Reqs, R!Undo(r) PROVE QuietStep
<1>1. job[r].pc = "undo" /\ R!HostKept /\ BoxStays /\ R!Answers(r)  BY BoxSame DEF R!Undo
<1> QED  BY <1>1, RouteAnswers

LEMMA DoneQuietly == ASSUME DockerInv, NEW r \in Reqs, R!Done(r) PROVE QuietStep
<1>1. Fits(job[r], box) /\ job[r].pc = "done" /\ R!HostKept /\ BoxStays
  BY BoxSame DEF DockerInv, HostShape, R!Done
<1>2. CASE R!Answers(r)  BY <1>1, <1>2, RouteAnswers
<1>3. CASE R!Goes(r, "wait") /\ job[r].op = "enable"
  <2>1. Reaches(job[r].op, "wait") /\ job[r].id \in Ids  BY <1>1, <1>3 DEF Reaches, Fits, Placed
  <2> QED  BY <1>1, <1>3, <2>1, RouteGoes
<1> QED  BY <1>2, <1>3 DEF R!Done, R!About

LEMMA DeleteRowQuietly == ASSUME DockerInv, NEW r \in Reqs, R!DeleteRow(r) PROVE QuietStep
<1>1. /\ Fits(job[r], box) /\ job[r].pc = "drop" /\ R!HostKept /\ BoxStays
      /\ job[r].op \in {"unfile", "unlabel"}
  BY BoxSame DEF DockerInv, HostShape, R!DeleteRow, R!May, R!About
<1>2. CASE R!Answers(r)  BY <1>1, <1>2, RouteAnswers
<1>3. CASE R!Goes(r, IF R!About(r, {"unlabel"}) THEN "find" ELSE "apply")
  <2>1. CASE job[r].op = "unlabel"
    <3>1. R!Goes(r, "find") /\ Reaches(job[r].op, "find")  BY <2>1, <1>3 DEF R!About, Reaches
    <3> QED  BY <3>1, <1>1, RouteGoes
  <2>2. CASE job[r].op = "unfile"
    <3>1. R!Goes(r, "apply") /\ Reaches(job[r].op, "apply")  BY <2>2, <1>3 DEF R!About, Reaches
    <3> QED  BY <3>1, <1>1, RouteGoes
  <2> QED  BY <1>1, <2>1, <2>2
<1> QED  BY <1>2, <1>3 DEF R!DeleteRow, R!May

LEMMA RouteAbandonQuietly == ASSUME DockerInv, NEW r \in Reqs, R!RouteAbandon(r) PROVE QuietStep
<1>1. job[r] \in HostJobs /\ Fits(job[r], box)  BY DEF DockerInv, HostShape
<1>2. box' = box /\ job' = [job EXCEPT ![r] = NoJob]  BY NoJobFits DEF R!RouteAbandon, R!Answers
<1>3. Remaking(job[r]) \/ job[r].pc = "nets" <=> R!H!HalfWay(r)
  BY <1>1 DEF Remaking, R!H!HalfWay, Fits, Reaches, RecreateOps, HostJobs, HostOps
<1>4. R!H!HalfWay(r) => job[r].cfg.name \in Names  BY <1>1 DEF R!H!HalfWay, Fits, Shapes
<1>5. cut' = cut \cup (IF R!H!HalfWay(r) THEN {job[r].cfg.name} ELSE {})  BY DEF R!RouteAbandon, R!H!CutShort
<1>6. QuietHistory  BY <1>4, <1>5 DEF R!RouteAbandon, QuietHistory, DockerInv
<1> QED  BY <1>2, <1>3, <1>5, <1>6, BoxSame, QuietlyAnswers

LEMMA WaitQuietly == ASSUME DockerInv, NEW r \in Reqs, R!WaitHealthy(r) PROVE QuietStep
<1>1. /\ Fits(job[r], box) /\ job[r] \in HostJobs /\ job[r].pc = "wait" /\ R!HostKept /\ BoxStays
  BY BoxSame DEF DockerInv, HostShape, R!WaitHealthy, R!routeVars
<1>2. job[r].id \in Ids /\ job[r].op = "enable"  BY <1>1 DEF Fits, Placed, Reaches, HostJobs, HostOps
<1>3. Reaches(job[r].op, "undo") /\ Reaches(job[r].op, "record")  BY <1>2 DEF Reaches
<1> QED  BY <1>1, <1>2, <1>3, RouteGoes DEF R!WaitHealthy, R!May

LEMMA RecordQuietly == ASSUME DockerInv, NEW r \in Reqs, R!Record(r) PROVE QuietStep
<1>1. /\ Fits(job[r], box) /\ job[r] \in HostJobs /\ job[r].pc = "record" /\ R!HostKept /\ BoxStays
  BY BoxSame DEF DockerInv, HostShape, R!Record, R!May
<1>2. job[r].op = "enable"  BY <1>1 DEF Fits, Reaches, HostJobs, HostOps
<1>3. Reaches(job[r].op, "undo")  BY <1>2 DEF Reaches
<1> QED  BY <1>1, <1>3, RouteGoes, RouteAnswers DEF R!Record, R!May

LEMMA ReadIdQuietly == ASSUME DockerInv, NEW r \in Reqs, R!ReadId(r) PROVE QuietStep
<1>1. /\ Fits(job[r], box) /\ job[r] \in HostJobs /\ job[r].pc = "read" /\ R!HostKept /\ BoxStays
  BY BoxSame DEF DockerInv, HostShape, R!ReadId, R!routeVars
<1>2. CASE R!Answers(r)  BY <1>1, <1>2, RouteAnswers
<1>3. CASE job' = [job EXCEPT ![r].id = setting, ![r].pc = IF setting = None THEN "clear" ELSE "drop"]
  <2> DEFINE x == [job[r] EXCEPT !.id = setting, !.pc = IF setting = None THEN "clear" ELSE "drop"]
  <2>1. job' = [job EXCEPT ![r] = x]  BY <1>3 DEF DockerInv, HostShape
  <2>2. job[r].op = "disable"  BY <1>1 DEF Fits, Reaches, HostJobs, HostOps
  <2>3. setting \in Ids \cup {None}  BY DEF DockerInv, R!RouteTypeOK
  <2>4. /\ x.pc = (IF setting = None THEN "clear" ELSE "drop") /\ x.op = "disable" /\ x.id = setting
        /\ x.arg = job[r].arg /\ x.cfg = job[r].cfg /\ x \in HostJobs
    BY <1>1, <2>2, <2>3 DEF HostJobs, HostPcs
  <2> HIDE DEF x
  <2>5. setting \in Ids => box'[setting].state # "none" /\ box'[setting].cfg.name = Proxy
    BY <1>1 DEF DockerInv, PageShape, BoxStays
  <2>6. Placed(x, box')  BY <2>3, <2>4, <2>5, DockerConstants DEF Placed, RedeployOps
  <2>7. Concerns(x) /\ Shapes(x) /\ Reaches(x.op, x.pc)  BY <1>1, <2>2, <2>4 DEF Fits, Concerns, Shapes, Reaches, RedeployOps
  <2>8. QuietHistory  BY <1>1 DEF R!HostKept, QuietHistory, DockerInv
  <2>9. QuietJob(job[r], x)  BY <1>1, <2>4 DEF QuietJob, Remaking
  <2> QED  BY <1>1, <2>1, <2>4, <2>6, <2>7, <2>8, <2>9, QuietlyGoes DEF Fits
<1> QED  BY <1>2, <1>3 DEF R!ReadId, R!May

LEMMA ClearQuietly == ASSUME DockerInv, NEW r \in Reqs, R!Clear(r) PROVE QuietStep
<1>1. job[r].pc = "clear" /\ R!HostKept /\ BoxStays /\ R!Answers(r)  BY BoxSame DEF R!Clear, R!May
<1> QED  BY <1>1, RouteAnswers
-----------------------------------------------------------------------------
(* The redeploys leave the containers what they are, but for the old one they *)
(* remove and the new one they make.                                          *)

LEMMA DeployAnswers ==
    ASSUME DockerInv, NEW r \in Reqs, job' = [job EXCEPT ![r] = G!H!Idle], BoxStays, G!HostKept,
           job[r].pc \notin {"make", "nets"}
    PROVE  QuietStep
<1>1. job' = [job EXCEPT ![r] = NoJob]  BY NoJobFits
<1>2. QuietHistory  BY DEF G!HostKept, QuietHistory, DockerInv
<1> QED  BY <1>1, <1>2, QuietlyAnswers DEF Remaking

LEMMA DeployGoes ==
    ASSUME DockerInv, NEW r \in Reqs, NEW p \in {"clone", "write", "build", "find", "create", "undo"},
           G!H!To(r, p), BoxStays, G!HostKept, G!Redeploys(r), job[r].pc \notin {"make", "nets"}
    PROVE  QuietStep
<1>1. job' = [job EXCEPT ![r].pc = p]  BY DEF G!H!To
<1>2. QuietHistory  BY DEF G!HostKept, QuietHistory, DockerInv
<1>3. Reaches(job[r].op, p)  BY DEF G!Redeploys, Reaches
<1> QED  BY <1>1, <1>2, <1>3, QuietlyTo DEF Remaking, HostPcs, RedeployOps

LEMMA BeginsQuietly ==
    ASSUME DockerInv, NEW r \in Reqs, NEW g \in Deployments, NEW op \in RedeployOps, G!Begins(r, g, op),
           job[r].pc = "idle", box' = box, G!HostKept
    PROVE  QuietStep
<1> DEFINE cfg == [H!NoCfg EXCEPT !.name = NameOf[g], !.nets = {Managed}]
           x == [NoJob EXCEPT !.pc = "clean", !.op = op, !.arg = g, !.cfg = cfg]
<1>1. cfg \in H!Cfgs /\ cfg.name = NameOf[g] /\ cfg.label = None  BY DockerConstants DEF H!NoCfg, H!Cfgs
<1>2. job' = [job EXCEPT ![r] = x] /\ BoxStays /\ QuietHistory
  BY NoJobFits, BoxSame DEF G!Begins, G!HostKept, QuietHistory, DockerInv
<1> HIDE DEF cfg
<1>3. x.pc = "clean" /\ x.op = op /\ x.id = None /\ x.arg = g /\ x.cfg = cfg /\ x \in HostJobs
  BY <1>1 DEF NoJob, HostJobs, HostPcs, HostOps, RedeployOps
<1> HIDE DEF x
<1>4. Concerns(x) /\ Shapes(x) /\ Reaches(x.op, x.pc)  BY <1>1, <1>3 DEF Concerns, Shapes, Reaches, RedeployOps
<1>5. Placed(x, box')  BY <1>3, DockerConstants DEF Placed
<1>6. QuietJob(job[r], x)  BY <1>3 DEF QuietJob, Remaking
<1> QED  BY <1>2, <1>3, <1>4, <1>5, <1>6, QuietlyGoes DEF Fits

LEMMA AskDeployQuietly ==
    ASSUME DockerInv, NEW r \in Reqs, NEW g \in Deployments,
           G!CreateGitDeployment(r, g) \/ G!RedeployNow(r, g) \/ G!Webhook(r, g)
    PROVE  QuietStep
<1>1. job[r].pc = "idle" /\ box' = box /\ G!HostKept
  BY DEF G!CreateGitDeployment, G!RedeployNow, G!Webhook, G!H!Ready
<1>2. G!Begins(r, g, "deploy") \/ G!Begins(r, g, "push")
  BY DEF G!CreateGitDeployment, G!RedeployNow, G!Webhook
<1> QED  BY <1>1, <1>2, BeginsQuietly DEF RedeployOps

LEMMA BuildQuietly ==
    ASSUME DockerInv, NEW r \in Reqs, G!Clean(r) \/ G!Clone(r) \/ G!WriteFiles(r) \/ G!RunBuild(r)
    PROVE  QuietStep
<1>1. /\ G!Redeploys(r) /\ job[r].pc \notin {"make", "nets"} /\ G!HostKept /\ box' = box
  BY DEF G!Clean, G!Clone, G!WriteFiles, G!RunBuild, G!At
<1>2. PICK p \in {"clone", "write", "build", "find", "undo"} : G!H!To(r, p)
  BY DEF G!Clean, G!Clone, G!WriteFiles, G!RunBuild, G!Step
<1> QED  BY <1>1, <1>2, BoxSame, DeployGoes

LEMMA FindOldQuietly == ASSUME DockerInv, NEW r \in Reqs, G!FindOld(r) PROVE QuietStep
<1> DEFINE n == job[r].cfg.name
           c == G!H!HolderOf(n)
<1>1. /\ Fits(job[r], box) /\ job[r] \in HostJobs /\ job[r].pc = "find" /\ G!Redeploys(r)
      /\ job[r].op \in RedeployOps /\ G!HostKept /\ BoxStays
  BY BoxSame DEF DockerInv, HostShape, G!FindOld, G!At, G!Redeploys, RedeployOps
<1>2. c = None \/ (c \in Ids /\ c \in Bearers(n))  BY HolderIs
<1>3. CASE G!H!To(r, "create")  BY <1>1, <1>3, DeployGoes
<1>4. CASE job' = [job EXCEPT ![r].id = c, ![r].pc = IF c = None THEN "create" ELSE "drop"]
  <2> DEFINE x == [job[r] EXCEPT !.id = c, !.pc = IF c = None THEN "create" ELSE "drop"]
  <2>1. job' = [job EXCEPT ![r] = x]  BY <1>4 DEF DockerInv, HostShape
  <2>2. c = None \/ (c \in Ids /\ c # None)  BY <1>2, DockerConstants
  <2> HIDE DEF c
  <2>3. /\ x.pc = (IF c = None THEN "create" ELSE "drop") /\ x.op = job[r].op /\ x.id = c
        /\ x.arg = job[r].arg /\ x.cfg = job[r].cfg /\ x \in HostJobs
    BY <1>1, <2>2 DEF HostJobs, HostPcs
  <2> HIDE DEF x
  <2>4. c \in Ids => box'[c].state # "none" /\ box'[c].cfg.name = n
    BY <1>1, <1>2, DockerConstants DEF Bearers, BoxStays, Alive
  <2>5. Placed(x, box')  BY <1>1, <2>2, <2>3, <2>4, DockerConstants DEF Placed, RedeployOps
  <2>6. Concerns(x) /\ Shapes(x) /\ Reaches(x.op, x.pc)  BY <1>1, <2>3 DEF Fits, Concerns, Shapes, Reaches, RedeployOps
  <2>7. QuietHistory  BY <1>1 DEF G!HostKept, QuietHistory, DockerInv
  <2>8. QuietJob(job[r], x)  BY <1>1, <2>3 DEF QuietJob, Remaking
  <2> QED  BY <1>1, <2>1, <2>3, <2>5, <2>6, <2>7, <2>8, QuietlyGoes DEF Fits
<1> QED  BY <1>3, <1>4 DEF G!FindOld

LEMMA RecordDeploymentQuietly ==
    ASSUME DockerInv, NEW r \in Reqs, G!RecordDeployment(r) \/ G!GitAbandon(r) PROVE QuietStep
<1>1. /\ job' = [job EXCEPT ![r] = G!H!Idle] /\ box' = box /\ G!HostKept
  BY DEF G!RecordDeployment, G!GitAbandon
<1>2. job[r].pc \notin {"make", "nets"}
  <2>1. Fits(job[r], box) /\ job[r] \in HostJobs  BY DEF DockerInv, HostShape
  <2>2. job[r].op \in RedeployOps  BY DEF G!RecordDeployment, G!GitAbandon, G!Redeploys, RedeployOps
  <2> QED  BY <2>1, <2>2 DEF Fits, Reaches, RedeployOps
<1> QED  BY <1>1, <1>2, BoxSame, DeployAnswers

LEMMA NothingQuietly ==
    ASSUME DockerInv, UNCHANGED hostVars PROVE QuietStep
<1>1. BoxStays /\ QuietHistory  BY BoxSame DEF hostVars, QuietHistory, DockerInv
<1> QED  BY <1>1 DEF hostVars, QuietStep, QuietJob, DockerInv, HostShape

LEMMA CrashQuietly == ASSUME DockerInv, H!HostDropped PROVE QuietStep
<1>1. job' = [r \in Reqs |-> NoJob] /\ box' = box  BY NoJobFits DEF H!HostDropped
<1>2. cut' = cut \cup {job[r].cfg.name : r \in {q \in Reqs : H!HalfWay(q)}}  BY DEF H!HostDropped, H!CutShort
<1>3. ASSUME NEW q \in Reqs
      PROVE  /\ H!HalfWay(q) => job[q].cfg.name \in Names
             /\ Remaking(job[q]) \/ job[q].pc = "nets" => H!HalfWay(q)
  BY DEF Remaking, H!HalfWay, Fits, Reaches, RecreateOps, HostJobs, HostOps, Shapes, DockerInv, HostShape
<1>4. QuietHistory  BY <1>2, <1>3 DEF H!HostDropped, QuietHistory, DockerInv
<1>5. ASSUME NEW q \in Reqs PROVE QuietJob(job[q], NoJob) /\ Fits(NoJob, box')
  <2>1. QuietJob(job[q], NoJob)  BY <1>2, <1>3 DEF QuietJob, NoJob, Remaking
  <2> QED  BY <2>1, NoJobFits
<1>6. NoJob \in HostJobs  BY NoJobFits DEF Fits
<1> QED  BY <1>1, <1>4, <1>5, <1>6, BoxSame DEF QuietStep
-----------------------------------------------------------------------------
(* The calls that make, change and end containers *)

LEMMA JobsFit ==
    ASSUME HostShape, BoxAges, NEW r \in Reqs, NEW x, job' = [job EXCEPT ![r] = x], Fits(x, box')
    PROVE  /\ job' \in [Reqs -> HostJobs] /\ \A q \in Reqs : Fits(job'[q], box')
           /\ job'[r] = x /\ \A q \in Reqs \ {r} : job'[q] = job[q]
<1>1. x \in HostJobs  BY DEF Fits
<1>2. job' \in [Reqs -> HostJobs] /\ \A q \in Reqs : job'[q] = IF q = r THEN x ELSE job[q]
  BY <1>1 DEF HostShape
<1>3. ASSUME NEW q \in Reqs PROVE Fits(job'[q], box')
  <2>1. CASE q = r  BY <2>1, <1>2
  <2>2. CASE q # r
    <3>1. Fits(job[q], box) /\ job'[q] = job[q]  BY <2>2, <1>2 DEF HostShape
    <3>2. Placed(job[q], box')  BY <3>1, PlacedStays DEF Fits
    <3> QED  BY <3>1, <3>2 DEF Fits
  <2> QED  BY <2>1, <2>2
<1> QED  BY <1>2, <1>3

\* Histories that were given to names only
Given ==
    /\ bound' \in [Names -> SUBSET Volumes] /\ joined' \in [Names -> SUBSET Nets]
    /\ cut \subseteq cut' /\ raced \subseteq raced' /\ taken \subseteq taken'
    /\ renewed \subseteq renewed' /\ remade \subseteq remade'
    /\ cut' \subseteq Names /\ raced' \subseteq Names /\ taken' \subseteq Names
    /\ renewed' \subseteq Names /\ remade' \subseteq Names

\* Inspect: the request takes the configuration of the container.
Snapshot(r) ==
    /\ job[r].pc = "inspect" /\ job[r].id \in Ids /\ box[job[r].id].state \in Alive
    /\ job' = [job EXCEPT ![r] = [@ EXCEPT !.pc = "stop", !.cfg = box[job[r].id].cfg]]
    /\ box' = box /\ UNCHANGED <<bound, joined, cut, taken, renewed, remade>>
    /\ raced' = raced \cup {job[q].cfg.name : q \in {q \in Reqs : job[q].pc = "nets" /\ job[q].id = job[r].id}}

\* Remove: it takes the container away.
Removal(r) ==
    /\ job[r].pc = "remove" /\ job[r].id \in Ids /\ box[job[r].id].state \in Alive
    /\ job' = [job EXCEPT ![r] = [@ EXCEPT !.pc = "make", !.cfg = H!Edited(r)]]
    /\ box' = [box EXCEPT ![job[r].id].state = "gone"]
    /\ UNCHANGED <<bound, joined, cut, raced, taken, renewed, remade>>

\* Make: it makes it again.
Remake(r, c) ==
    /\ Remaking(job[r]) /\ box[c].state = "none" /\ Bearers(job[r].cfg.name) = {}
    /\ job' = [job EXCEPT ![r] = [@ EXCEPT !.pc = "nets", !.id = c]]
    /\ box' = [box EXCEPT ![c] = [state |-> "created", cfg |-> [job[r].cfg EXCEPT !.nets = {}]]]
    /\ UNCHANGED <<bound, joined, cut, raced, taken, renewed>> /\ remade' = remade \cup {job[r].cfg.name}

\* A container of its own: of the Docker page, of the proxy page or of a redeploy
Creation(r, c, cfg) ==
    /\ job[r].pc \in {"make", "create"} /\ job[r].op \in {"create", "enable"} \cup RedeployOps
    /\ box[c].state = "none" /\ Bearers(cfg.name) = {}
    /\ cfg \in H!Cfgs /\ cfg.name = job[r].cfg.name /\ cfg.label = None /\ cfg.name \in Names
    /\ job' = [job EXCEPT ![r] = [@ EXCEPT !.pc = "start", !.id = c]]
    /\ box' = [box EXCEPT ![c] = [state |-> "created", cfg |-> cfg]]
    /\ bound' = [bound EXCEPT ![cfg.name] = {}] /\ joined' = [joined EXCEPT ![cfg.name] = {}]
    /\ UNCHANGED <<cut, raced, taken, renewed>>
    /\ remade' = IF job[r].op = "enable" THEN remade ELSE remade \cup {cfg.name}

\* ConnectNext, every network being there again
Reconnected(r) ==
    /\ job[r].pc = "nets" /\ job[r].cfg.nets \subseteq box[job[r].id].cfg.nets
    /\ job' = [job EXCEPT ![r] = [@ EXCEPT !.pc = "start"]]
    /\ box' = box /\ UNCHANGED <<bound, joined, cut, raced, taken, renewed, remade>>

\* Start, of a container that was given a volume
VolumeGiven(r) ==
    /\ job[r].pc = "start" /\ job[r].op = "bind" /\ job[r].id \in Ids /\ box[job[r].id].state \in Alive
    /\ job' = [job EXCEPT ![r] = NoJob] /\ box' = [box EXCEPT ![job[r].id].state = "running"]
    /\ bound' = [bound EXCEPT ![job[r].cfg.name] = @ \cup {job[r].arg}]
    /\ UNCHANGED <<joined, cut, raced, taken, renewed, remade>>

\* A container somebody removes: the page, the proxy page or a redeploy
Loss(c) ==
    /\ c \in Ids /\ box[c].state \in Alive /\ box' = [box EXCEPT ![c].state = "gone"]
    /\ bound' = [bound EXCEPT ![box[c].cfg.name] = {}] /\ joined' = [joined EXCEPT ![box[c].cfg.name] = {}]
    /\ UNCHANGED <<cut, raced, remade>> /\ taken \subseteq taken' /\ renewed \subseteq renewed'
    /\ taken' \subseteq Names /\ renewed' \subseteq Names /\ box[c].cfg.name \in taken' \cup renewed'
    /\ \A q \in Reqs : job'[q] = job[q] \/ (job'[q].pc \in {"create", "clear"} /\ job[q].pc = "drop")

\* ConnectNetwork and DisconnectNetwork of the page
Networks(c) ==
    /\ c \in Ids /\ box[c].state \in Alive /\ job' = job
    /\ \E n \in Nets :
          \/ /\ box' = [box EXCEPT ![c].cfg.nets = @ \cup {n}]
             /\ joined' = [joined EXCEPT ![box[c].cfg.name] = @ \cup {n}]
          \/ /\ box' = [box EXCEPT ![c].cfg.nets = @ \ {n}]
             /\ joined' = [joined EXCEPT ![box[c].cfg.name] = @ \ {n}]
    /\ raced' = raced \cup (IF H!Recreating(c) THEN {box[c].cfg.name} ELSE {})
    /\ UNCHANGED <<bound, cut, taken, renewed, remade>>

HostEvent ==
    \/ QuietStep
    \/ \E r \in Reqs : \/ Snapshot(r) \/ Removal(r) \/ Reconnected(r) \/ VolumeGiven(r)
                       \/ \E c \in Ids : Remake(r, c) \/ \E cfg \in H!Cfgs : Creation(r, c, cfg)
    \/ \E c \in Ids : Loss(c) \/ Networks(c)

-----------------------------------------------------------------------------
(* Every such step keeps the requests and containers in shape. *)

HostStep == HostEvent /\ HostShape' /\ BoxAges /\ Given

\* No container comes.
LEMMA NoneComes ==
    ASSUME DockerInv, BoxAges, box' \in [Ids -> HostBoxes], job' \in [Reqs -> HostJobs],
           \A q \in Reqs : Fits(job'[q], box'), Given,
           \A c \in Ids : box'[c].state # "none" => box[c].state # "none",
           \A c \in Ids : box'[c].state \in Alive => box[c].state \in Alive
    PROVE  HostShape'
<1>1. \A c \in Ids : box'[c].state # "none" => box'[c].cfg.name \in Names
  BY DEF BoxAges, DockerInv, HostShape
<1>2. \A c, d \in Ids : box'[c].state \in Alive /\ box'[d].state \in Alive /\ box'[c].cfg.name = box'[d].cfg.name => c = d
  BY DEF BoxAges, DockerInv, HostShape, Alive
<1> QED  BY <1>1, <1>2 DEF HostShape, Given

\* One container comes, of a name no other bears.
LEMMA OneComes ==
    ASSUME DockerInv, NEW c \in Ids, NEW cfg \in H!Cfgs, box[c].state = "none", cfg.name \in Names,
           Bearers(cfg.name) = {}, box' = [box EXCEPT ![c] = [state |-> "created", cfg |-> cfg]]
    PROVE  /\ BoxAges /\ box' \in [Ids -> HostBoxes]
           /\ job' \in [Reqs -> HostJobs] /\ (\A q \in Reqs : Fits(job'[q], box')) /\ Given => HostShape'
<1>1. box \in [Ids -> HostBoxes] /\ [state |-> "created", cfg |-> cfg] \in HostBoxes
  BY DEF DockerInv, HostShape, HostBoxes
<1>2. /\ box'[c].state = "created" /\ box'[c].cfg = cfg /\ \A d \in Ids \ {c} : box'[d] = box[d]  BY <1>1
<1>3. box' \in [Ids -> HostBoxes]  BY <1>1
<1>4. BoxAges  BY <1>2 DEF BoxAges
<1>5. \A d \in Ids : box'[d].state # "none" => box'[d].cfg.name \in Names
  BY <1>2 DEF DockerInv, HostShape
<1>6. \A d \in Ids \ {c} : box'[d].state \in Alive => box'[d].cfg.name # cfg.name
  BY <1>2 DEF Bearers
<1>7. \A d, e \in Ids : box'[d].state \in Alive /\ box'[e].state \in Alive /\ box'[d].cfg.name = box'[e].cfg.name => d = e
  BY <1>2, <1>6 DEF DockerInv, HostShape
<1> QED  BY <1>3, <1>4, <1>5, <1>7 DEF HostShape, Given

LEMMA QuietShape == ASSUME DockerInv, QuietStep PROVE HostStep
<1>1. BoxAges  BY StayingAges DEF QuietStep, DockerInv
<1>2. Given  BY DEF QuietStep, QuietHistory, Given, DockerInv, HostShape
<1>3. HostShape'  BY <1>1, <1>2, NoneComes DEF QuietStep, BoxStays, Alive
<1> QED  BY <1>1, <1>2, <1>3 DEF HostStep, HostEvent

LEMMA SnapshotShape == ASSUME DockerInv, NEW r \in Reqs, Snapshot(r) PROVE HostStep
<1> DEFINE c == job[r].id
           x == [job[r] EXCEPT !.pc = "stop", !.cfg = box[c].cfg]
<1>1. /\ Fits(job[r], box) /\ job[r] \in HostJobs /\ job[r].pc = "inspect" /\ c \in Ids /\ box[c] \in HostBoxes
      /\ box[c].state \in Alive /\ box[c].cfg.name \in Names /\ box' = box
  BY DEF DockerInv, HostShape, Snapshot, Alive
<1>2. job' = [job EXCEPT ![r] = x]  BY DEF DockerInv, HostShape, Snapshot
<1>3. /\ x.pc = "stop" /\ x.op = job[r].op /\ x.id = c /\ x.arg = job[r].arg /\ x.cfg = box[c].cfg /\ x \in HostJobs
  BY <1>1 DEF HostJobs, HostPcs, HostBoxes
<1> HIDE DEF x
<1>4. job[r].op \in RecreateOps /\ job[r].op \notin RedeployOps /\ Reaches(x.op, "stop")
  BY <1>1, <1>3 DEF Fits, Reaches, HostJobs, HostOps, RecreateOps, RedeployOps
<1>5. Placed(x, box')  BY <1>1, <1>3, <1>4 DEF Placed, Alive, RecreateOps
<1>6. job[r].op \in {"label", "unlabel"} => box[c].cfg.name = job[r].cfg.name  BY <1>1 DEF Fits, Placed
<1>7. Concerns(x)  BY <1>1, <1>3, <1>4, <1>6 DEF Fits, Concerns, RecreateOps
<1>8. Shapes(x)  BY <1>1, <1>3 DEF Shapes
<1>9. Fits(x, box')  BY <1>3, <1>4, <1>5, <1>7, <1>8 DEF Fits
<1>10. BoxAges  BY <1>1 DEF BoxAges
<1>11. job' \in [Reqs -> HostJobs] /\ \A q \in Reqs : Fits(job'[q], box')
  BY <1>2, <1>9, <1>10, JobsFit DEF DockerInv
<1>12. Given
  <2>1. \A q \in Reqs : job[q].pc = "nets" => job[q].cfg.name \in Names  BY DEF DockerInv, HostShape, Fits, Shapes
  <2> QED  BY <2>1 DEF Snapshot, Given, DockerInv, HostShape
<1>13. HostShape'  BY <1>1, <1>10, <1>11, <1>12, NoneComes DEF DockerInv, HostShape
<1> QED  BY <1>10, <1>12, <1>13 DEF HostStep, HostEvent

LEMMA EditedIs ==
    ASSUME DockerInv, NEW r \in Reqs, job[r].cfg \in H!Cfgs, job[r].op = "bind" => job[r].arg \in Volumes,
           job[r].op = "label" => job[r].arg \in Domains
    PROVE  LET e == H!Edited(r) IN
           /\ e \in H!Cfgs /\ e.name = job[r].cfg.name /\ e.nets = job[r].cfg.nets /\ e.image = job[r].cfg.image
           /\ e.binds = IF job[r].op = "bind" THEN job[r].cfg.binds \cup {job[r].arg} ELSE job[r].cfg.binds
           /\ e.label = IF job[r].op = "label" THEN job[r].arg
                        ELSE IF job[r].op = "unlabel" THEN None ELSE job[r].cfg.label
<1>1. CASE job[r].op = "bind"  BY <1>1 DEF H!Edited, H!Cfgs
<1>2. CASE job[r].op = "label"  BY <1>2 DEF H!Edited, H!Cfgs
<1>3. CASE job[r].op = "unlabel"  BY <1>3 DEF H!Edited, H!Cfgs
<1>4. CASE job[r].op \notin {"bind", "label", "unlabel"}  BY <1>4 DEF H!Edited, H!Cfgs
<1> QED  BY <1>1, <1>2, <1>3, <1>4

\* The container of one id ends.
LEMMA OneEnds ==
    ASSUME DockerInv, NEW c \in Ids, box[c].state \in Alive, box' = [box EXCEPT ![c].state = "gone"]
    PROVE  /\ BoxAges /\ box' \in [Ids -> HostBoxes]
           /\ box'[c].state = "gone" /\ box'[c].cfg = box[c].cfg /\ \A d \in Ids \ {c} : box'[d] = box[d]
<1>1. box \in [Ids -> HostBoxes] /\ box[c] \in HostBoxes  BY DEF DockerInv, HostShape
<1>2. /\ [box[c] EXCEPT !.state = "gone"] \in HostBoxes /\ [box[c] EXCEPT !.state = "gone"].state = "gone"
      /\ [box[c] EXCEPT !.state = "gone"].cfg = box[c].cfg
  BY <1>1 DEF HostBoxes
<1>3. \A d \in Ids : box'[d] = IF d = c THEN [box[c] EXCEPT !.state = "gone"] ELSE box[d]  BY <1>1
<1>4. box' \in [Ids -> HostBoxes]  BY <1>1, <1>2
<1> QED  BY <1>2, <1>3, <1>4 DEF BoxAges, Alive

LEMMA RemovalShape == ASSUME DockerInv, NEW r \in Reqs, Removal(r) PROVE HostStep
<1> DEFINE c == job[r].id
           x == [job[r] EXCEPT !.pc = "make", !.cfg = H!Edited(r)]
<1>1. /\ Fits(job[r], box) /\ job[r] \in HostJobs /\ job[r].cfg \in H!Cfgs /\ job[r].pc = "remove" /\ c \in Ids
      /\ box[c].state \in Alive
  BY DEF DockerInv, HostShape, Removal, HostJobs
<1>2. job' = [job EXCEPT ![r] = x]  BY DEF DockerInv, HostShape, Removal
<1>3. BoxAges /\ box' \in [Ids -> HostBoxes] /\ box'[c].state = "gone" /\ \A d \in Ids \ {c} : box'[d] = box[d]
  BY <1>1, OneEnds DEF Removal
<1>4. job[r].op \in RecreateOps /\ job[r].op \notin RedeployOps /\ Reaches(job[r].op, "make")
  BY <1>1 DEF Fits, Reaches, HostJobs, HostOps, RecreateOps, RedeployOps
<1>5. /\ job[r].op = "bind" => job[r].arg \in Volumes
      /\ job[r].op = "label" => job[r].arg \in Domains
  BY <1>1 DEF Fits, Concerns
<1> DEFINE e == H!Edited(r)
<1>6. /\ e \in H!Cfgs /\ e.name = job[r].cfg.name
      /\ e.binds = (IF job[r].op = "bind" THEN job[r].cfg.binds \cup {job[r].arg} ELSE job[r].cfg.binds)
      /\ e.label = (IF job[r].op = "label" THEN job[r].arg
                    ELSE IF job[r].op = "unlabel" THEN None ELSE job[r].cfg.label)
  BY <1>1, <1>5, EditedIs
<1> HIDE DEF e
<1>7. x.pc = "make" /\ x.op = job[r].op /\ x.id = c /\ x.arg = job[r].arg /\ x.cfg = e /\ x \in HostJobs
  BY <1>1, <1>6 DEF HostJobs, HostPcs, e
<1> HIDE DEF x
<1>8. Concerns(x)  BY <1>1, <1>4, <1>6, <1>7 DEF Fits, Concerns, RecreateOps
<1>9. Shapes(x)  BY <1>1, <1>6, <1>7 DEF Fits, Shapes
<1>10. Placed(x, box')  BY <1>1, <1>3, <1>4, <1>7 DEF Placed, RecreateOps
<1>11. Fits(x, box')  BY <1>4, <1>7, <1>8, <1>9, <1>10 DEF Fits
<1>12. job' \in [Reqs -> HostJobs] /\ \A q \in Reqs : Fits(job'[q], box')
  BY <1>2, <1>3, <1>11, JobsFit DEF DockerInv
<1>13. Given  BY DEF Removal, Given, DockerInv, HostShape
<1>14. HostShape'  BY <1>1, <1>3, <1>12, <1>13, NoneComes DEF Alive
<1> QED  BY <1>3, <1>13, <1>14 DEF HostStep, HostEvent

LEMMA RemakeShape == ASSUME DockerInv, NEW r \in Reqs, NEW c \in Ids, Remake(r, c) PROVE HostStep
<1> DEFINE cfg == [job[r].cfg EXCEPT !.nets = {}]
           x == [job[r] EXCEPT !.pc = "nets", !.id = c]
<1>1. /\ Fits(job[r], box) /\ job[r] \in HostJobs /\ job[r].cfg \in H!Cfgs /\ job[r].pc = "make"
      /\ job[r].op \in RecreateOps /\ job[r].op \notin RedeployOps
  BY DEF DockerInv, HostShape, Remake, Remaking, HostJobs, RecreateOps, RedeployOps
<1>2. job' = [job EXCEPT ![r] = x]  BY DEF DockerInv, HostShape, Remake
<1>3. cfg \in H!Cfgs /\ cfg.name = job[r].cfg.name /\ Core(cfg) = Core(job[r].cfg)
  BY <1>1 DEF H!Cfgs, Core
<1>4. cfg.name \in Names  BY <1>1, <1>3 DEF Fits, Shapes
<1>5. box' = [box EXCEPT ![c] = [state |-> "created", cfg |-> cfg]] /\ box[c].state = "none" /\ Bearers(cfg.name) = {}
  BY <1>3 DEF Remake
<1> HIDE DEF cfg
<1>6. box'[c].state = "created" /\ box'[c].cfg = cfg  BY <1>5 DEF DockerInv, HostShape
<1>7. x.pc = "nets" /\ x.op = job[r].op /\ x.id = c /\ x.arg = job[r].arg /\ x.cfg = job[r].cfg /\ x \in HostJobs
  BY <1>1 DEF HostJobs, HostPcs
<1> HIDE DEF x
<1>8. Placed(x, box')  BY <1>1, <1>3, <1>6, <1>7 DEF Placed, RecreateOps
<1>9. Concerns(x) /\ Shapes(x) /\ Reaches(x.op, x.pc)  BY <1>1, <1>7 DEF Fits, Concerns, Shapes, Reaches, RecreateOps
<1>10. BoxAges /\ box' \in [Ids -> HostBoxes]  BY <1>3, <1>4, <1>5, OneComes
<1>11. job' \in [Reqs -> HostJobs] /\ \A q \in Reqs : Fits(job'[q], box')
  BY <1>2, <1>7, <1>8, <1>9, <1>10, JobsFit DEF DockerInv, Fits
<1>12. Given  BY <1>3, <1>4 DEF Remake, Given, DockerInv, HostShape
<1>13. HostShape'  BY <1>3, <1>4, <1>5, <1>11, <1>12, OneComes
<1> QED  BY <1>10, <1>12, <1>13 DEF HostStep, HostEvent

LEMMA FreshShape ==
    ASSUME DockerInv, NEW r \in Reqs, NEW c \in Ids, NEW cfg \in H!Cfgs, Creation(r, c, cfg) PROVE HostStep
<1> DEFINE x == [job[r] EXCEPT !.pc = "start", !.id = c]
<1>1. /\ Fits(job[r], box) /\ job[r] \in HostJobs /\ job[r].cfg \in H!Cfgs
      /\ job[r].op \in {"create", "enable"} \cup RedeployOps /\ cfg.name = job[r].cfg.name /\ cfg.name \in Names
  BY DEF DockerInv, HostShape, Creation, HostJobs
<1>2. job' = [job EXCEPT ![r] = x]  BY DEF DockerInv, HostShape, Creation
<1>3. box' = [box EXCEPT ![c] = [state |-> "created", cfg |-> cfg]] /\ box[c].state = "none" /\ Bearers(cfg.name) = {}
  BY DEF Creation
<1>4. box'[c].state = "created" /\ box'[c].cfg = cfg  BY <1>3 DEF DockerInv, HostShape
<1>5. x.pc = "start" /\ x.op = job[r].op /\ x.id = c /\ x.arg = job[r].arg /\ x.cfg = job[r].cfg /\ x \in HostJobs
  BY <1>1 DEF HostJobs, HostPcs
<1> HIDE DEF x
<1>6. job[r].op = "enable" => job[r].cfg.name = Proxy  BY <1>1 DEF Fits, Concerns
<1>7. Placed(x, box')  BY <1>1, <1>4, <1>5, <1>6 DEF Placed, RecreateOps, RedeployOps
<1>8. Concerns(x) /\ Shapes(x) /\ Reaches(x.op, x.pc)
  BY <1>1, <1>5 DEF Fits, Concerns, Shapes, Reaches, RecreateOps, RedeployOps
<1>9. BoxAges /\ box' \in [Ids -> HostBoxes]  BY <1>1, <1>3, OneComes
<1>10. job' \in [Reqs -> HostJobs] /\ \A q \in Reqs : Fits(job'[q], box')
  BY <1>2, <1>5, <1>7, <1>8, <1>9, JobsFit DEF DockerInv, Fits
<1>11. Given  BY <1>1 DEF Creation, Given, DockerInv, HostShape
<1>12. HostShape'  BY <1>1, <1>3, <1>10, <1>11, OneComes
<1> QED  BY <1>9, <1>11, <1>12 DEF HostStep, HostEvent

LEMMA ReconnectedShape == ASSUME DockerInv, NEW r \in Reqs, Reconnected(r) PROVE HostStep
<1> DEFINE x == [job[r] EXCEPT !.pc = "start"]
<1>1. /\ Fits(job[r], box) /\ job[r] \in HostJobs /\ job[r].pc = "nets" /\ box' = box
  BY DEF DockerInv, HostShape, Reconnected
<1>2. job' = [job EXCEPT ![r] = x]  BY DEF DockerInv, HostShape, Reconnected
<1>3. x.pc = "start" /\ x.op = job[r].op /\ x.id = job[r].id /\ x.arg = job[r].arg /\ x.cfg = job[r].cfg /\ x \in HostJobs
  BY <1>1 DEF HostJobs, HostPcs
<1> HIDE DEF x
<1>4. job[r].op \in RecreateOps  BY <1>1 DEF Fits, Reaches, HostJobs, HostOps, RecreateOps
<1>5. Placed(x, box')  BY <1>1, <1>3, <1>4 DEF Fits, Placed, RecreateOps
<1>6. Concerns(x) /\ Shapes(x) /\ Reaches(x.op, x.pc)
  BY <1>1, <1>3, <1>4 DEF Fits, Concerns, Shapes, Reaches, RecreateOps, RedeployOps
<1>7. BoxAges  BY <1>1 DEF BoxAges
<1>8. job' \in [Reqs -> HostJobs] /\ \A q \in Reqs : Fits(job'[q], box')
  BY <1>2, <1>3, <1>5, <1>6, <1>7, JobsFit DEF DockerInv, Fits
<1>9. Given  BY DEF Reconnected, Given, DockerInv, HostShape
<1>10. HostShape'  BY <1>1, <1>7, <1>8, <1>9, NoneComes DEF DockerInv, HostShape
<1> QED  BY <1>7, <1>9, <1>10 DEF HostStep, HostEvent

LEMMA VolumeGivenShape == ASSUME DockerInv, NEW r \in Reqs, VolumeGiven(r) PROVE HostStep
<1>1. Fits(job[r], box) /\ job[r].pc = "start" /\ job[r].op = "bind" /\ job[r].id \in Ids
  BY DEF DockerInv, HostShape, VolumeGiven
<1>2. BoxStays  BY <1>1, StateStays DEF VolumeGiven, Alive
<1>3. BoxAges  BY <1>2, StayingAges DEF DockerInv
<1>4. job' \in [Reqs -> HostJobs] /\ \A q \in Reqs : Fits(job'[q], box')
  BY <1>3, NoJobFits, JobsFit DEF DockerInv, VolumeGiven
<1>5. job[r].cfg.name \in Names /\ job[r].arg \in Volumes  BY <1>1 DEF Fits, Shapes, Concerns
<1>6. Given  BY <1>5 DEF VolumeGiven, Given, DockerInv, HostShape
<1>7. HostShape'  BY <1>2, <1>3, <1>4, <1>6, NoneComes DEF BoxStays
<1> QED  BY <1>3, <1>6, <1>7 DEF HostStep, HostEvent

LEMMA LossShape ==
    ASSUME DockerInv, NEW c \in Ids, Loss(c), job' \in [Reqs -> HostJobs], \A q \in Reqs : Fits(job'[q], box')
    PROVE  HostStep
<1>1. /\ BoxAges /\ box' \in [Ids -> HostBoxes] /\ box'[c].state = "gone" /\ box[c].state \in Alive
      /\ \A d \in Ids \ {c} : box'[d] = box[d]
  BY OneEnds DEF Loss
<1>2. Given  BY DEF Loss, Given, DockerInv, HostShape
<1>3. HostShape'  BY <1>1, <1>2, NoneComes DEF Alive
<1> QED  BY <1>1, <1>2, <1>3 DEF HostStep, HostEvent

LEMMA NetworksShape == ASSUME DockerInv, NEW c \in Ids, Networks(c) PROVE HostStep
<1>1. PICK N \in SUBSET Nets : box' = [box EXCEPT ![c].cfg.nets = N]
  <2>1. box[c] \in HostBoxes  BY DEF DockerInv, HostShape
  <2>2. box[c].cfg.nets \in SUBSET Nets  BY <2>1 DEF HostBoxes, H!Cfgs
  <2> QED  BY <2>2 DEF Networks
<1> DEFINE b == [box[c] EXCEPT !.cfg.nets = N]
<1>2. box \in [Ids -> HostBoxes] /\ box[c] \in HostBoxes /\ box[c].cfg \in H!Cfgs  BY DEF DockerInv, HostShape, HostBoxes
<1>3. /\ b.state = box[c].state /\ b.cfg = [box[c].cfg EXCEPT !.nets = N]  BY <1>2 DEF HostBoxes, H!Cfgs
<1>4. b.cfg \in H!Cfgs /\ Core(b.cfg) = Core(box[c].cfg) /\ b.cfg.name = box[c].cfg.name
  BY <1>2, <1>3 DEF H!Cfgs, Core
<1>5. b \in HostBoxes  BY <1>2, <1>3, <1>4 DEF HostBoxes
<1>6. \A d \in Ids : box'[d] = IF d = c THEN b ELSE box[d]  BY <1>1, <1>2
<1>7. box' \in [Ids -> HostBoxes]  BY <1>1, <1>2, <1>5, <1>6
<1> HIDE DEF b
<1>8. BoxAges  BY <1>3, <1>4, <1>6 DEF BoxAges
<1>9. job' = job  BY DEF Networks
<1>10. \A q \in Reqs : Fits(job'[q], box')
  <2> TAKE q \in Reqs
  <2>1. Fits(job[q], box)  BY DEF DockerInv, HostShape
  <2>2. Placed(job[q], box')  BY <2>1, <1>8, PlacedStays DEF Fits
  <2> QED  BY <2>1, <2>2, <1>9 DEF Fits
<1>11. box[c].cfg.name \in Names  BY DEF Networks, DockerInv, HostShape, Alive
<1>12. Given  BY <1>11 DEF Networks, Given, DockerInv, HostShape
<1>13. HostShape'  BY <1>3, <1>6, <1>7, <1>8, <1>9, <1>10, <1>12, NoneComes DEF DockerInv, HostShape
<1> QED  BY <1>8, <1>12, <1>13 DEF HostStep, HostEvent
-----------------------------------------------------------------------------
(* Every step of the one process is one of these, for the containers. *)

LEMMA InspectEvent == ASSUME DockerInv, NEW r \in Reqs, H!Inspect(r) PROVE QuietStep \/ Snapshot(r)
<1>1. Fits(job[r], box) /\ job[r].pc = "inspect" /\ job[r].id \in Ids
  BY DEF DockerInv, HostShape, H!Inspect, Fits, Placed
<1>2. CASE H!Ends(r, FALSE) /\ UNCHANGED box
  <2>1. \A q \in Reqs : job[q].pc = "nets" => job[q].cfg.name \in Names  BY DEF DockerInv, HostShape, Fits, Shapes
  <2>2. QuietHistory  BY <2>1 DEF H!Inspect, QuietHistory, DockerInv
  <2> QED  BY <1>1, <1>2, <2>2, BoxSame, EndsQuietly DEF Remaking
<1>3. CASE /\ box[job[r].id].state \in Alive /\ UNCHANGED box
           /\ job' = [job EXCEPT ![r].pc = "stop", ![r].cfg = box[job[r].id].cfg]
  <2>1. job' = [job EXCEPT ![r] = [@ EXCEPT !.pc = "stop", !.cfg = box[job[r].id].cfg]]
    BY <1>3 DEF DockerInv, HostShape
  <2> QED  BY <1>1, <1>3, <2>1 DEF H!Inspect, Snapshot
<1> QED  BY <1>1, <1>2, <1>3, ExistsIs DEF H!Inspect, H!Call

LEMMA RemoveEvent == ASSUME DockerInv, NEW r \in Reqs, H!Remove(r) PROVE QuietStep \/ Removal(r)
<1>1. Fits(job[r], box) /\ job[r].pc = "remove" /\ job[r].id \in Ids
  BY DEF DockerInv, HostShape, H!Remove, Fits, Placed
<1>2. CASE H!Ends(r, FALSE) /\ UNCHANGED box
  <2>1. QuietHistory  BY DEF H!Remove, H!Noted, QuietHistory, DockerInv
  <2> QED  BY <1>1, <1>2, <2>1, BoxSame, EndsQuietly DEF Remaking
<1>3. CASE /\ box[job[r].id].state \in Alive /\ box' = [box EXCEPT ![job[r].id].state = "gone"]
           /\ job' = [job EXCEPT ![r].pc = "make", ![r].cfg = H!Edited(r)]
  <2>1. job' = [job EXCEPT ![r] = [@ EXCEPT !.pc = "make", !.cfg = H!Edited(r)]]
    BY <1>3 DEF DockerInv, HostShape
  <2> QED  BY <1>1, <1>3, <2>1 DEF H!Remove, H!Noted, Removal
<1> QED  BY <1>1, <1>2, <1>3, ExistsIs DEF H!Remove, H!Call, H!Target

\* A container is made with an id that is not in use, and changes what there is.
LEMMA NewIdIs ==
    ASSUME DockerInv, H!Unused # {}
    PROVE  /\ H!NewId \in Ids /\ box[H!NewId].state = "none"
           /\ \A cfg : H!NewBox(cfg) => /\ box' = [box EXCEPT ![H!NewId] = [state |-> "created", cfg |-> cfg]]
                                        /\ box' # box
<1>1. H!NewId \in H!Unused  BY DEF H!NewId
<1>2. H!NewId \in Ids /\ box[H!NewId].state = "none"  BY <1>1 DEF H!Unused
<1>3. ASSUME NEW cfg, H!NewBox(cfg) PROVE box' = [box EXCEPT ![H!NewId] = [state |-> "created", cfg |-> cfg]]
  BY <1>3 DEF H!NewBox, H!NewId
<1> HIDE DEF H!NewId
<1>4. ASSUME NEW cfg, box' = [box EXCEPT ![H!NewId] = [state |-> "created", cfg |-> cfg]] PROVE box' # box
  BY <1>2, <1>4 DEF DockerInv, HostShape
<1> QED  BY <1>2, <1>3, <1>4

LEMMA MakeEvent ==
    ASSUME DockerInv, NEW r \in Reqs, H!Make(r)
    PROVE  \/ QuietStep
           \/ \E c \in Ids : Remake(r, c) \/ \E cfg \in H!Cfgs : Creation(r, c, cfg)
<1> DEFINE cfg == job[r].cfg
           n == cfg.name
           again == job[r].op \notin {"create", "enable"}
<1>1. Fits(job[r], box) /\ job[r] \in HostJobs /\ job[r].pc = "make" /\ cfg \in H!Cfgs
  BY DEF DockerInv, HostShape, H!Make, HostJobs
<1>2. again <=> Remaking(job[r])
  BY <1>1 DEF Fits, Reaches, HostJobs, HostOps, Remaking, RecreateOps
<1>3. n \in Names  BY <1>1 DEF Fits, Shapes
<1>4. CASE H!Ends(r, FALSE) /\ UNCHANGED box
  <2>1. QuietHistory  BY <1>3, <1>4 DEF H!Make, QuietHistory, DockerInv
  <2>2. Remaking(job[r]) \/ job[r].pc = "nets" => job[r].cfg.name \in cut'
    BY <1>1, <1>2, <1>4 DEF H!Make
  <2> QED  BY <1>1, <1>4, <2>1, <2>2, BoxSame, EndsQuietly
<1>5. CASE /\ H!HolderOf(n) = None /\ H!NewBox(IF again THEN [cfg EXCEPT !.nets = {}] ELSE cfg)
           /\ job' = [job EXCEPT ![r].id = H!NewId, ![r].pc = IF again THEN "nets" ELSE "start"]
  <2> DEFINE c == H!NewId
  <2>1. H!Unused # {}  BY <1>5 DEF H!Make
  <2>2. /\ c \in Ids /\ box[c].state = "none" /\ box' # box
        /\ box' = [box EXCEPT ![c] = [state |-> "created", cfg |-> IF again THEN [cfg EXCEPT !.nets = {}] ELSE cfg]]
    BY <1>5, <2>1, NewIdIs
  <2>3. Bearers(n) = {}  BY <1>5, HolderIs, DockerConstants
  <2>4. CASE again
    <3>1. job' = [job EXCEPT ![r] = [@ EXCEPT !.pc = "nets", !.id = c]]  BY <1>5, <2>4 DEF DockerInv, HostShape
    <3>2. UNCHANGED <<bound, joined, cut, raced, taken, renewed>> /\ remade' = remade \cup {n}
      BY <2>2, <2>4 DEF H!Make
    <3> HIDE DEF c
    <3> QED  BY <1>2, <2>2, <2>3, <2>4, <3>1, <3>2 DEF Remake
  <2>5. CASE ~again
    <3>1. job' = [job EXCEPT ![r] = [@ EXCEPT !.pc = "start", !.id = c]]  BY <1>5, <2>5 DEF DockerInv, HostShape
    <3>2. /\ UNCHANGED <<cut, raced, taken, renewed>>
          /\ bound' = [bound EXCEPT ![n] = {}] /\ joined' = [joined EXCEPT ![n] = {}]
          /\ remade' = IF job[r].op = "enable" THEN remade ELSE remade \cup {n}
      BY <2>2, <2>5 DEF H!Make, H!Forgotten
    <3>3. cfg.label = None  BY <1>1, <2>5 DEF Fits, Concerns
    <3> HIDE DEF c
    <3>4. Creation(r, c, cfg)  BY <1>1, <1>3, <2>2, <2>3, <2>5, <3>1, <3>2, <3>3 DEF Creation
    <3> QED  BY <1>1, <2>2, <3>4
  <2> QED  BY <2>4, <2>5
<1> QED  BY <1>1, <1>4, <1>5 DEF H!Make, H!Call

LEMMA ConnectEvent == ASSUME DockerInv, NEW r \in Reqs, H!ConnectNext(r) PROVE QuietStep \/ Reconnected(r)
<1> DEFINE c == job[r].id
           todo == job[r].cfg.nets \ box[c].cfg.nets
<1>1. Fits(job[r], box) /\ job[r] \in HostJobs /\ job[r].pc = "nets" /\ c \in Ids /\ job[r].cfg \in H!Cfgs
  BY DEF DockerInv, HostShape, H!ConnectNext, Fits, Placed, HostJobs
<1>2. job[r].cfg.name \in Names /\ job[r].cfg.nets \subseteq Nets  BY <1>1 DEF Fits, Shapes, H!Cfgs
<1>3. CASE todo = {}
  <2>1. job' = [job EXCEPT ![r].pc = "start"] /\ box' = box /\ UNCHANGED <<bound, joined, cut, raced, taken, renewed, remade>>
    BY <1>3 DEF H!ConnectNext, H!To
  <2>2. job' = [job EXCEPT ![r] = [@ EXCEPT !.pc = "start"]]  BY <2>1 DEF DockerInv, HostShape
  <2> QED  BY <1>1, <1>3, <2>1, <2>2 DEF Reconnected
<1>4. CASE todo # {}
  <2>1. PICK n \in todo :
          /\ H!Call(r, H!Exists(c), box' = [box EXCEPT ![c].cfg.nets = @ \cup {n}] /\ UNCHANGED job)
          /\ cut' = IF box' = box THEN cut \cup {job[r].cfg.name} ELSE cut
    BY <1>4 DEF H!ConnectNext
  <2>2. UNCHANGED <<bound, joined, raced, taken, renewed, remade>>  BY DEF H!ConnectNext
  <2>3. QuietHistory  BY <1>2, <2>1, <2>2 DEF QuietHistory, DockerInv
  <2>4. CASE H!Ends(r, FALSE) /\ UNCHANGED box
    <3>1. job[r].cfg.name \in cut'  BY <2>1, <2>4
    <3> QED  BY <1>1, <2>3, <2>4, <3>1, BoxSame, EndsQuietly
  <2>5. CASE box' = [box EXCEPT ![c].cfg.nets = @ \cup {n}] /\ UNCHANGED job
    <3>1. {n} \in SUBSET Nets  BY <1>2
    <3> HIDE DEF c
    <3>2. BoxStays  BY <1>1, <2>5, <3>1, NetsGrow
    <3>3. \A q \in Reqs : Fits(job[q], box) /\ Placed(job[q], box')
      BY <3>2, StayingAges, PlacedStays DEF DockerInv, HostShape, Fits
    <3> QED  BY <2>3, <2>5, <3>2, <3>3 DEF QuietStep, QuietJob, Fits, DockerInv, HostShape
  <2> QED  BY <2>1, <2>4, <2>5 DEF H!Call
<1> QED  BY <1>3, <1>4

LEMMA StartEvent == ASSUME DockerInv, NEW r \in Reqs, H!Start(r) PROVE QuietStep \/ VolumeGiven(r)
<1>1. Fits(job[r], box) /\ job[r] \in HostJobs /\ job[r].pc = "start" /\ job[r].id \in Ids
  BY DEF DockerInv, HostShape, H!Start, Fits, Placed
<1>2. UNCHANGED <<joined, cut, raced, taken, renewed, remade>>  BY DEF H!Start
<1>3. CASE H!Ends(r, FALSE) /\ UNCHANGED box
  <2>1. QuietHistory  BY <1>2, <1>3 DEF H!Start, QuietHistory, DockerInv
  <2> QED  BY <1>1, <1>3, <2>1, BoxSame, EndsQuietly DEF Remaking
<1>4. CASE /\ box[job[r].id].state \in Alive /\ H!Ends(r, TRUE)
           /\ box' = [box EXCEPT ![job[r].id].state = "running"]
  <2>1. BoxStays  BY <1>1, <1>4, StateStays DEF Alive
  <2>2. CASE job[r].op = "bind" /\ box' # box
    <3>1. job' = [job EXCEPT ![r] = NoJob]  BY <1>4, <2>2, NoJobFits DEF H!Ends
    <3>2. bound' = [bound EXCEPT ![job[r].cfg.name] = @ \cup {job[r].arg}]  BY <2>2 DEF H!Start
    <3> QED  BY <1>1, <1>2, <1>4, <2>2, <3>1, <3>2 DEF VolumeGiven
  <2>3. CASE ~(job[r].op = "bind" /\ box' # box)
    <3>1. QuietHistory  BY <1>2, <2>3 DEF H!Start, QuietHistory, DockerInv
    <3> QED  BY <1>1, <1>4, <2>1, <3>1, EndsQuietly DEF Remaking
  <2> QED  BY <2>2, <2>3
<1> QED  BY <1>1, <1>3, <1>4, ExistsIs DEF H!Start, H!Call

LEMMA RemoveContainerEvent ==
    ASSUME DockerInv, NEW c \in Ids, H!RemoveContainer(c)
    PROVE  Loss(c) /\ job' = job /\ taken' = taken \cup {box[c].cfg.name}
<1>1. box[c].state \in Alive /\ box[c].cfg.name \in Names
  BY ExistsIs DEF H!RemoveContainer, DockerInv, HostShape, Alive
<1> QED  BY <1>1 DEF H!RemoveContainer, H!Forgotten, Loss, DockerInv

LEMMA NetworkEvent ==
    ASSUME DockerInv, NEW c \in Ids, NEW n \in Nets, H!ConnectNetwork(c, n) \/ H!DisconnectNetwork(c, n)
    PROVE  Networks(c)
BY ExistsIs DEF H!ConnectNetwork, H!DisconnectNetwork, Networks

LEMMA RemoveProxyEvent ==
    ASSUME DockerInv, NEW r \in Reqs, R!RemoveProxy(r)
    PROVE  \/ QuietStep
           \/ /\ Loss(job[r].id) /\ job' = [job EXCEPT ![r].pc = "clear"]
              /\ job[r].op = "disable" /\ job[r].pc = "drop" /\ taken' = taken \cup {box[job[r].id].cfg.name}
              /\ job' \in [Reqs -> HostJobs] /\ \A q \in Reqs : Fits(job'[q], box')
<1> DEFINE c == job[r].id
<1>1. /\ Fits(job[r], box) /\ job[r] \in HostJobs /\ job[r].pc = "drop" /\ job[r].op = "disable"
      /\ UNCHANGED <<cut, raced, renewed, remade>>
  BY DEF DockerInv, HostShape, R!RemoveProxy, R!About
<1>2. c \in Ids /\ box[c].cfg.name = Proxy /\ Proxy \in Names  BY <1>1, DockerConstants DEF Fits, Placed
<1>3. CASE R!Answers(r) /\ UNCHANGED box
  <2>1. R!HostKept  BY <1>1, <1>3 DEF R!HostKept, R!RemoveProxy
  <2> QED  BY <1>1, <1>3, <2>1, BoxSame, RouteAnswers
<1>4. CASE box[c].state \in Alive /\ R!Goes(r, "clear") /\ box' = [box EXCEPT ![c].state = "gone"]
  <2> DEFINE x == [job[r] EXCEPT !.pc = "clear"]
  <2>1. BoxAges /\ box'[c].state = "gone"  BY <1>2, <1>4, OneEnds
  <2>2. job' = [job EXCEPT ![r].pc = "clear"]  BY <1>4 DEF R!Goes, R!H!To
  <2>3. job' = [job EXCEPT ![r] = x]  BY <2>2 DEF DockerInv, HostShape
  <2>4. x.pc = "clear" /\ x.op = job[r].op /\ x.id = c /\ x.arg = job[r].arg /\ x.cfg = job[r].cfg /\ x \in HostJobs
    BY <1>1 DEF HostJobs, HostPcs
  <2> HIDE DEF x
  <2>5. Placed(job[r], box')  BY <1>1, <2>1, PlacedStays DEF Fits
  <2>6. Placed(x, box')  BY <1>1, <2>1, <2>4, <2>5 DEF Placed
  <2>7. Concerns(x) /\ Shapes(x) /\ Reaches(x.op, x.pc)  BY <1>1, <2>4 DEF Fits, Concerns, Shapes, Reaches, RedeployOps
  <2>8. /\ job' \in [Reqs -> HostJobs] /\ \A q \in Reqs : Fits(job'[q], box')
        /\ job'[r] = x /\ \A q \in Reqs \ {r} : job'[q] = job[q]
    BY <2>1, <2>3, <2>4, <2>6, <2>7, JobsFit DEF DockerInv, Fits
  <2>9. box' # box  BY <1>4, <2>1 DEF Alive
  <2>10. /\ taken' = taken \cup {Proxy} /\ bound' = [bound EXCEPT ![Proxy] = {}]
         /\ joined' = [joined EXCEPT ![Proxy] = {}]
    BY <2>9 DEF R!RemoveProxy, R!H!Forgotten
  <2>11. Loss(c)  BY <1>1, <1>2, <1>4, <2>4, <2>8, <2>10 DEF Loss, DockerInv
  <2> QED  BY <1>1, <1>2, <2>2, <2>8, <2>10, <2>11
<1> QED  BY <1>2, <1>3, <1>4, ExistsIs DEF R!RemoveProxy, R!May

LEMMA RemoveOldEvent ==
    ASSUME DockerInv, NEW r \in Reqs, G!RemoveOld(r)
    PROVE  \/ QuietStep
           \/ /\ Loss(job[r].id) /\ job' = [job EXCEPT ![r].pc = "create"]
              /\ job[r].op \in RedeployOps /\ job[r].pc = "drop"
              /\ UNCHANGED taken /\ renewed' = renewed \cup {job[r].cfg.name}
              /\ box[job[r].id].cfg.name = job[r].cfg.name
              /\ job' \in [Reqs -> HostJobs] /\ \A q \in Reqs : Fits(job'[q], box')
<1> DEFINE c == job[r].id
           n == job[r].cfg.name
<1>1. /\ Fits(job[r], box) /\ job[r] \in HostJobs /\ job[r].pc = "drop" /\ job[r].op \in RedeployOps
      /\ UNCHANGED <<cut, raced, taken, remade>> /\ G!H!To(r, "create") /\ G!Redeploys(r)
  BY DEF DockerInv, HostShape, G!RemoveOld, G!At, G!Redeploys, RedeployOps
<1>2. c \in Ids /\ box[c].cfg.name = n  BY <1>1 DEF Fits, Placed
<1>3. n \in Names  BY <1>1, DockerConstants DEF Fits, Concerns
<1>4. CASE UNCHANGED <<box, bound, joined, renewed>>
  <2>1. G!HostKept  BY <1>1, <1>4 DEF G!HostKept
  <2> QED  BY <1>1, <1>4, <2>1, BoxSame, DeployGoes
<1>5. CASE /\ box[c].state \in Alive /\ box' = [box EXCEPT ![c].state = "gone"]
           /\ renewed' = renewed \cup {n} /\ G!H!Forgotten(n)
  <2> DEFINE x == [job[r] EXCEPT !.pc = "create"]
  <2>1. BoxAges /\ box'[c].state = "gone"  BY <1>2, <1>5, OneEnds
  <2>2. job' = [job EXCEPT ![r].pc = "create"]  BY <1>1 DEF G!H!To
  <2>3. job' = [job EXCEPT ![r] = x]  BY <2>2 DEF DockerInv, HostShape
  <2>4. x.pc = "create" /\ x.op = job[r].op /\ x.id = c /\ x.arg = job[r].arg /\ x.cfg = job[r].cfg /\ x \in HostJobs
    BY <1>1 DEF HostJobs, HostPcs
  <2> HIDE DEF x
  <2>5. Placed(job[r], box')  BY <1>1, <2>1, PlacedStays DEF Fits
  <2>6. Placed(x, box')  BY <1>1, <2>1, <2>4, <2>5 DEF Placed, RedeployOps
  <2>7. Concerns(x) /\ Shapes(x) /\ Reaches(x.op, x.pc)  BY <1>1, <2>4 DEF Fits, Concerns, Shapes, Reaches, RedeployOps
  <2>8. /\ job' \in [Reqs -> HostJobs] /\ \A q \in Reqs : Fits(job'[q], box')
        /\ job'[r] = x /\ \A q \in Reqs \ {r} : job'[q] = job[q]
    BY <2>1, <2>3, <2>4, <2>6, <2>7, JobsFit DEF DockerInv, Fits
  <2>9. /\ bound' = [bound EXCEPT ![n] = {}] /\ joined' = [joined EXCEPT ![n] = {}]
    BY <1>5 DEF G!H!Forgotten
  <2>10. Loss(c)  BY <1>1, <1>2, <1>3, <1>5, <2>4, <2>8, <2>9 DEF Loss, DockerInv
  <2> QED  BY <1>1, <1>2, <1>5, <2>2, <2>8, <2>10
<1> QED  BY <1>2, <1>4, <1>5, ExistsIs DEF G!RemoveOld

LEMMA CreateNewEvent ==
    ASSUME DockerInv, NEW r \in Reqs, G!CreateNew(r)
    PROVE  QuietStep \/ \E c \in Ids, cfg \in H!Cfgs : Creation(r, c, cfg) /\ cfg.image = image[TagOf[job[r].arg]]
<1> DEFINE n == job[r].cfg.name
           v == image[TagOf[job[r].arg]]
           cfg == [job[r].cfg EXCEPT !.image = v]
<1>1. /\ Fits(job[r], box) /\ job[r] \in HostJobs /\ job[r].pc = "create" /\ job[r].op \in RedeployOps
      /\ job[r].cfg \in H!Cfgs /\ UNCHANGED <<cut, raced, taken, renewed>> /\ G!Redeploys(r)
  BY DEF DockerInv, HostShape, G!CreateNew, G!At, G!Redeploys, RedeployOps, HostJobs
<1>2. n \in Names /\ job[r].arg \in Deployments /\ job[r].cfg.label = None  BY <1>1, DockerConstants DEF Fits, Concerns
<1>3. CASE G!H!To(r, "undo") /\ UNCHANGED <<box, bound, joined, remade>>
  <2>1. G!HostKept  BY <1>1, <1>3 DEF G!HostKept
  <2> QED  BY <1>1, <1>3, <2>1, BoxSame, DeployGoes
<1>4. CASE /\ G!H!HolderOf(n) = None /\ G!H!NewBox([job[r].cfg EXCEPT !.image = image[G!Tag(r)]])
           /\ job' = [job EXCEPT ![r].id = G!H!NewId, ![r].pc = "start"]
           /\ G!H!Forgotten(n) /\ remade' = remade \cup {n}
  <2> DEFINE c == H!NewId
  <2>1. H!Unused # {}  BY <1>4 DEF G!CreateNew, G!H!Unused, H!Unused
  <2>2. G!H!NewId = H!NewId /\ \A k : G!H!NewBox(k) <=> H!NewBox(k)
    BY DEF G!H!NewId, H!NewId, G!H!NewBox, H!NewBox, G!H!Unused, H!Unused
  <2>3. v \in Sources \cup {None}
    BY <1>2 DEF DockerInv, G!GitTypeOK, G!Tags
  <2>4. /\ cfg \in H!Cfgs /\ cfg.name = n /\ cfg.label = None /\ cfg.image = v  BY <1>1, <1>2, <2>3 DEF H!Cfgs
  <2>5. H!NewBox(cfg)  BY <1>4, <2>2 DEF G!Tag, G!Of
  <2> HIDE DEF cfg
  <2>6. /\ c \in Ids /\ box[c].state = "none" /\ box' = [box EXCEPT ![c] = [state |-> "created", cfg |-> cfg]]
    BY <2>1, <2>5, NewIdIs
  <2>7. Bearers(n) = {}  BY <1>4, HolderIs, DockerConstants
  <2>8. job' = [job EXCEPT ![r] = [@ EXCEPT !.pc = "start", !.id = c]]
    BY <1>4, <2>2 DEF DockerInv, HostShape
  <2>9. /\ bound' = [bound EXCEPT ![n] = {}] /\ joined' = [joined EXCEPT ![n] = {}]  BY <1>4 DEF G!H!Forgotten
  <2>10. job[r].op # "enable"  BY <1>1 DEF RedeployOps
  <2> HIDE DEF c
  <2>11. Creation(r, c, cfg)  BY <1>1, <1>2, <1>4, <2>4, <2>6, <2>7, <2>8, <2>9, <2>10 DEF Creation
  <2> QED  BY <2>4, <2>6, <2>11
<1> QED  BY <1>3, <1>4 DEF G!CreateNew
-----------------------------------------------------------------------------
(* The containers, the routes and the deployments change together or not. *)

DockerMoves ==
    \/ Containers \/ ContainerPage \/ Routes \/ ProxyPage \/ Redeploys \/ PagesDropped
    \/ UNCHANGED pagesVars

LEMMA DockerMovesOnly == [PagesNext \/ PagesDropped]_pagesVars => DockerMoves
BY DEF PagesNext, pagesVars, DockerMoves

LEMMA ContainersHost == DockerInv /\ Containers => HostStep
<1> SUFFICES ASSUME DockerInv, Containers PROVE HostStep  OBVIOUS
<1>1. ASSUME NEW r \in Reqs, NEW n \in Names, H!CreateContainerFromImage(r, n) PROVE HostStep
  BY <1>1, CreateContainerQuietly, QuietShape
<1>2. ASSUME NEW c \in Ids, H!StartStop(c) PROVE HostStep  BY <1>2, StartStopQuietly, QuietShape
<1>3. ASSUME NEW c \in Ids, H!RemoveContainer(c) PROVE HostStep
  <2>1. Loss(c) /\ job' = job /\ box[c].state \in Alive  BY <1>3, RemoveContainerEvent DEF Loss
  <2>2. BoxAges  BY <2>1, OneEnds DEF Loss
  <2>3. \A q \in Reqs : Fits(job'[q], box')
    <3> TAKE q \in Reqs
    <3>1. Fits(job[q], box)  BY DEF DockerInv, HostShape
    <3>2. Placed(job[q], box')  BY <3>1, <2>2, PlacedStays DEF Fits
    <3> QED  BY <3>1, <3>2, <2>1 DEF Fits
  <2> QED  BY <2>1, <2>3, LossShape DEF DockerInv, HostShape
<1> QED  BY <1>1, <1>2, <1>3 DEF Containers

LEMMA ContainerPageHost == DockerInv /\ ContainerPage => HostStep
<1> SUFFICES ASSUME DockerInv, ContainerPage PROVE HostStep  OBVIOUS
<1>1. ASSUME NEW r \in Reqs, H!Recreation(r) PROVE HostStep
  <2>1. CASE H!Inspect(r)  BY <2>1, InspectEvent, QuietShape, SnapshotShape
  <2>2. CASE H!Stop(r)  BY <2>2, StopQuietly, QuietShape
  <2>3. CASE H!Remove(r)  BY <2>3, RemoveEvent, QuietShape, RemovalShape
  <2>4. CASE H!Make(r)  BY <2>4, MakeEvent, QuietShape, RemakeShape, FreshShape
  <2>5. CASE H!ConnectNext(r)  BY <2>5, ConnectEvent, QuietShape, ReconnectedShape
  <2>6. CASE H!Start(r)  BY <2>6, StartEvent, QuietShape, VolumeGivenShape
  <2> QED  BY <1>1, <2>1, <2>2, <2>3, <2>4, <2>5, <2>6 DEF H!Recreation
<1>2. ASSUME NEW r \in Reqs, H!Abandon(r) PROVE HostStep  BY <1>2, AbandonQuietly, QuietShape
<1>3. ASSUME NEW r \in Reqs, NEW c \in Ids, H!Recreate(r, c) PROVE HostStep
  BY <1>3, RecreateQuietly, QuietShape
<1>4. ASSUME NEW c \in Ids, NEW n \in Nets, H!ConnectNetwork(c, n) \/ H!DisconnectNetwork(c, n) PROVE HostStep
  BY <1>4, NetworkEvent, NetworksShape
<1> QED  BY <1>1, <1>2, <1>3, <1>4 DEF ContainerPage

LEMMA RoutesQuietly == DockerInv /\ Routes => QuietStep
<1> SUFFICES ASSUME DockerInv, NEW r \in Reqs,
                    \/ \E d \in Domains, n \in {App, None}, label \in BOOLEAN : R!CreateProxyRoute(r, d, n, label)
                    \/ \E d \in Domains : R!DeleteProxyRoute(r, d)
                    \/ R!Attach(r) \/ R!Insert(r) \/ R!WriteDynamicConfig(r) \/ R!FindTarget(r) \/ R!Undo(r)
                    \/ R!Done(r) \/ R!DeleteRow(r) \/ R!RemoveDynamicConfig(r) \/ R!RouteAbandon(r)
             PROVE QuietStep
  BY Zenon DEF Routes
<1>1. CASE \E d \in Domains, n \in {App, None}, label \in BOOLEAN : R!CreateProxyRoute(r, d, n, label)
  BY <1>1, CreateRouteQuietly, Zenon
<1>2. CASE \E d \in Domains : R!DeleteProxyRoute(r, d)  BY <1>2, DeleteRouteQuietly, Zenon
<1>3. CASE R!Attach(r) \/ R!Insert(r) \/ R!WriteDynamicConfig(r) \/ R!RemoveDynamicConfig(r)
  BY <1>3, AttachQuietly, InsertQuietly, FileQuietly, Zenon
<1>4. CASE R!FindTarget(r) \/ R!Undo(r) \/ R!Done(r) \/ R!DeleteRow(r) \/ R!RouteAbandon(r)
  BY <1>4, FindTargetQuietly, UndoQuietly, DoneQuietly, DeleteRowQuietly, RouteAbandonQuietly, Zenon
<1> QED  BY <1>1, <1>2, <1>3, <1>4, Zenon

LEMMA ProxyPageHost == DockerInv /\ ProxyPage => HostStep
<1> SUFFICES ASSUME DockerInv, NEW r \in Reqs,
                    \/ R!EnableTraefik(r) \/ R!WaitHealthy(r) \/ R!Record(r)
                    \/ R!DisableTraefik(r) \/ R!ReadId(r) \/ R!RemoveProxy(r) \/ R!Clear(r)
             PROVE HostStep
  BY Zenon DEF ProxyPage
<1>1. CASE R!RemoveProxy(r)
  <2>1. \/ QuietStep
        \/ Loss(job[r].id) /\ job' \in [Reqs -> HostJobs] /\ \A q \in Reqs : Fits(job'[q], box')
    BY <1>1, RemoveProxyEvent, Zenon
  <2>2. Loss(job[r].id) => job[r].id \in Ids  BY DEF Loss
  <2> QED  BY <2>1, <2>2, QuietShape, LossShape
<1>2. CASE R!EnableTraefik(r) \/ R!WaitHealthy(r) \/ R!Record(r)
  BY <1>2, EnableQuietly, WaitQuietly, RecordQuietly, QuietShape, Zenon
<1>3. CASE R!DisableTraefik(r) \/ R!ReadId(r) \/ R!Clear(r)
  BY <1>3, DisableQuietly, ReadIdQuietly, ClearQuietly, QuietShape, Zenon
<1> QED  BY <1>1, <1>2, <1>3, Zenon

LEMMA RedeploysHost == DockerInv /\ Redeploys => HostStep
<1> SUFFICES ASSUME DockerInv, Redeploys PROVE HostStep  OBVIOUS
<1>1. ASSUME NEW r \in Reqs, NEW g \in Deployments,
             G!CreateGitDeployment(r, g) \/ G!RedeployNow(r, g) \/ G!Webhook(r, g)
      PROVE  HostStep
  BY <1>1, AskDeployQuietly, QuietShape, Zenon
<1>2. ASSUME NEW r \in Reqs, G!Clean(r) \/ G!Clone(r) \/ G!WriteFiles(r) \/ G!RunBuild(r) \/ G!FindOld(r)
      PROVE HostStep
  BY <1>2, BuildQuietly, FindOldQuietly, QuietShape, Zenon
<1>3. ASSUME NEW r \in Reqs, G!RecordDeployment(r) \/ G!GitAbandon(r) PROVE HostStep
  BY <1>3, RecordDeploymentQuietly, QuietShape, Zenon
<1>4. ASSUME NEW r \in Reqs, G!RemoveOld(r) PROVE HostStep
  <2>1. \/ QuietStep
        \/ Loss(job[r].id) /\ job' \in [Reqs -> HostJobs] /\ \A q \in Reqs : Fits(job'[q], box')
    BY <1>4, RemoveOldEvent, Zenon
  <2>2. Loss(job[r].id) => job[r].id \in Ids  BY DEF Loss
  <2> QED  BY <2>1, <2>2, QuietShape, LossShape
<1>5. ASSUME NEW r \in Reqs, G!CreateNew(r) PROVE HostStep
  <2>1. QuietStep \/ \E c \in Ids, cfg \in H!Cfgs : Creation(r, c, cfg)  BY <1>5, CreateNewEvent, Zenon
  <2> QED  BY <2>1, QuietShape, FreshShape, Zenon
<1>6. ASSUME NEW g \in Deployments, G!DeleteGitDeployment(g) PROVE HostStep
  BY <1>6, NothingQuietly, QuietShape DEF G!DeleteGitDeployment, G!HostKept, hostVars
<1> QED  BY <1>1, <1>2, <1>3, <1>4, <1>5, <1>6, Zenon DEF Redeploys

LEMMA HostSteps == DockerInv /\ DockerMoves => HostStep
<1>1. DockerInv /\ Routes => HostStep  BY RoutesQuietly, QuietShape, Zenon
<1>2. DockerInv /\ PagesDropped => HostStep  BY CrashQuietly, QuietShape, Zenon DEF PagesDropped
<1>3. DockerInv /\ UNCHANGED pagesVars => HostStep  BY NothingQuietly, QuietShape DEF pagesVars
<1> QED  BY <1>1, <1>2, <1>3, ContainersHost, ContainerPageHost, ProxyPageHost, RedeploysHost, Zenon DEF DockerMoves
-----------------------------------------------------------------------------
(* The rows of the routes and the builds keep their types. *)

\* Of the ids of rows, one is free.
LEMMA RowIsFree ==
    ASSUME DockerInv, NEW r \in Reqs
    PROVE  /\ R!FreshRow(r) \in R!RowIds /\ R!FreshRow(r) # 0
           /\ \A d \in Domains : route[d].id # R!FreshRow(r)
           /\ \A q \in Reqs \ {r} : held[q] # R!FreshRow(r)
<1> DEFINE N == Cardinality(Domains) + Cardinality(Reqs)
           others == Reqs \ {r}
           rows == {route[d].id : d \in Domains}
           ids == {held[q] : q \in others}
<1>1. /\ R!RowIds = 1 .. N /\ Cardinality(Domains) \in Nat /\ Cardinality(Reqs) \in Nat
      /\ IsFiniteSet(others) /\ Cardinality(others) = Cardinality(Reqs) - 1
  <2>1. R!Cardinality(Domains) = Cardinality(Domains) /\ R!Cardinality(Reqs) = Cardinality(Reqs)
    BY Zenon DEF R!Cardinality, Cardinality
  <2>2. R!RowIds = 1 .. N  BY <2>1 DEF R!RowIds
  <2> QED  BY <2>2, DockerConstants, FS_CardinalityType, FS_RemoveElement
<1>2. IsFiniteSet(rows) /\ Cardinality(rows) <= Cardinality(Domains)
  <2> DEFINE f == [d \in Domains |-> route[d].id]
  <2>1. f \in Surjection(Domains, rows)  BY Zenon DEF Surjection
  <2> QED  BY <2>1, FS_Surjection, DockerConstants
<1>3. IsFiniteSet(ids) /\ Cardinality(ids) <= Cardinality(others)
  <2> DEFINE f == [q \in others |-> held[q]]
  <2>1. f \in Surjection(others, ids)  BY Zenon DEF Surjection
  <2> QED  BY <2>1, FS_Surjection, <1>1
<1>4. IsFiniteSet(rows \cup ids) /\ Cardinality(rows \cup ids) <= N - 1
  <2> HIDE DEF rows, ids, others
  <2>1. Cardinality(rows) \in Nat /\ Cardinality(ids) \in Nat /\ Cardinality(rows \cap ids) \in Nat
    <3>1. IsFiniteSet(rows \cap ids)  BY <1>2, FS_Subset
    <3> QED  BY <1>2, <1>3, <3>1, FS_CardinalityType
  <2>2. /\ IsFiniteSet(rows \cup ids)
        /\ Cardinality(rows \cup ids) = Cardinality(rows) + Cardinality(ids) - Cardinality(rows \cap ids)
    BY <1>2, <1>3, FS_Union
  <2> QED  BY <1>1, <1>2, <1>3, <2>1, <2>2
<1>5. Cardinality(1 .. N) = N  BY <1>1, FS_Interval
<1>6. PICK i \in R!RowIds : i \notin rows \cup ids
  <2> HIDE DEF rows, ids, others
  <2> SUFFICES ASSUME R!RowIds \subseteq rows \cup ids PROVE FALSE  OBVIOUS
  <2>1. Cardinality(1 .. N) <= Cardinality(rows \cup ids)  BY <1>1, <1>4, FS_Subset
  <2>2. Cardinality(rows \cup ids) \in Nat  BY <1>4, FS_CardinalityType
  <2> QED  BY <1>1, <1>4, <1>5, <2>1, <2>2
<1>7. (\A d \in Domains : route[d].id # i) /\ \A q \in others : held[q] # i  BY <1>6
<1>8. /\ R!FreshRow(r) \in R!RowIds /\ \A d \in Domains : route[d].id # R!FreshRow(r)
      /\ \A q \in Reqs \ {r} : held[q] # R!FreshRow(r)
  BY <1>6, <1>7, Zenon DEF R!FreshRow
<1>9. 0 \notin R!RowIds  BY <1>1
<1> QED  BY <1>8, <1>9

RoutesShape == R!RouteTypeOK /\ PageShape

LEMMA RoutesStay == ASSUME DockerInv, BoxAges, UNCHANGED routeVars PROVE RoutesShape'
BY DEF DockerInv, BoxAges, routeVars, RoutesShape, R!RouteTypeOK, PageShape

\* What a step does to the rows, the files and the settings
LEMMA RoutesShaped ==
    ASSUME DockerInv, BoxAges,
           route' \in [Domains -> [id : R!RowIds \cup {0}, label : BOOLEAN, target : Names \cup {None}]],
           held' \in [Reqs -> R!RowIds \cup {0}], file' \in [R!RouteFiles -> Domains \cup {None}],
           setting' \in Ids \cup {None}, stray' \subseteq Ids,
           crossed' \subseteq Domains, displaced' \subseteq Domains, loose' \subseteq Domains,
           \A d \in Domains : route'[d].label => route'[d].target \in Names,
           setting' \in Ids => box[setting'].state # "none" /\ box[setting'].cfg.name = Proxy
    PROVE  RoutesShape'
<1>1. R!RouteTypeOK'  BY DEF R!RouteTypeOK
<1>2. PageShape'  BY DEF PageShape, BoxAges
<1> QED  BY <1>1, <1>2 DEF RoutesShape

LEMMA NoRouteIsOne ==
    /\ R!NoRoute \in [id : R!RowIds \cup {0}, label : BOOLEAN, target : Names \cup {None}]
    /\ ~R!NoRoute.label /\ R!NoRoute.id = 0
BY DEF R!NoRoute

LEMMA InsertShapes == ASSUME DockerInv, BoxAges, NEW r \in Reqs, R!Insert(r) PROVE RoutesShape'
<1> DEFINE d == job[r].arg
           labelled == R!About(r, {"label"})
           made == [id |-> R!FreshRow(r), label |-> labelled, target |-> job[r].cfg.name]
<1>1. /\ UNCHANGED <<file, setting, stray, displaced, loose>> /\ job[r] \in HostJobs /\ Fits(job[r], box)
      /\ job[r].pc = "insert"
  BY DEF R!Insert, DockerInv, HostShape
<1>2. CASE UNCHANGED <<route, held, crossed>>  BY <1>1, <1>2, RoutesStay DEF routeVars
<1>3. CASE /\ route' = [route EXCEPT ![d] = made]
           /\ R!Holds(r, R!FreshRow(r)) /\ crossed' = IF R!Deleting(d) THEN crossed \cup {d} ELSE crossed
  <2>1. d \in Domains /\ (job[r].op = "label" => job[r].cfg.name \in Names) /\ job[r].cfg.name \in Names \cup {None}
    BY <1>1 DEF Fits, Concerns, Reaches, HostJobs, HostOps, H!Cfgs
  <2>2. R!FreshRow(r) \in R!RowIds  BY RowIsFree
  <2>4. labelled \in BOOLEAN /\ (labelled <=> job[r].op = "label")  BY DEF R!About
  <2> HIDE DEF labelled
  <2>3. /\ made \in [id : R!RowIds \cup {0}, label : BOOLEAN, target : Names \cup {None}]
        /\ made.label => made.target \in Names
    BY <2>1, <2>2, <2>4
  <2> HIDE DEF made
  <2> QED  BY <1>1, <1>3, <2>1, <2>2, <2>3, RoutesShaped DEF DockerInv, PageShape, R!RouteTypeOK, R!Holds
<1> QED  BY <1>2, <1>3 DEF R!Insert, R!May, R!routeVars

LEMMA UndoShapes == ASSUME DockerInv, BoxAges, NEW r \in Reqs, R!Undo(r) PROVE RoutesShape'
<1> DEFINE d == job[r].arg
<1>1. UNCHANGED <<held, file, setting, crossed, displaced>> /\ job[r] \in HostJobs /\ Fits(job[r], box)
  BY DEF R!Undo, DockerInv, HostShape
<1>2. job[r].op \in {"file", "label", "unlabel", "unfile"} => d \in Domains  BY <1>1 DEF Fits, Concerns
<1>3. route' = [route EXCEPT ![d] = R!NoRoute] \/ route' = route  BY DEF R!Undo
<1>4. loose' = loose \/ (loose' = loose \cup {d} /\ job[r].op \in {"file", "label", "unlabel", "unfile"})
  BY Zenon DEF R!Undo, R!About
<1>5. stray' \subseteq Ids
  <2>1. R!H!Exists(job[r].id) => job[r].id \in Ids  BY <1>1, ExistsIs DEF HostJobs
  <2> QED  BY <2>1 DEF R!Undo, DockerInv, R!RouteTypeOK
<1>6. /\ route' \in [Domains -> [id : R!RowIds \cup {0}, label : BOOLEAN, target : Names \cup {None}]]
      /\ \A e \in Domains : route'[e].label => route'[e].target \in Names
  BY <1>3, NoRouteIsOne DEF DockerInv, R!RouteTypeOK, PageShape
<1> QED  BY <1>1, <1>2, <1>4, <1>5, <1>6, RoutesShaped DEF DockerInv, PageShape, R!RouteTypeOK

LEMMA DeleteRowShapes == ASSUME DockerInv, BoxAges, NEW r \in Reqs, R!DeleteRow(r) PROVE RoutesShape'
<1> DEFINE d == job[r].arg
<1>1. d \in Domains
  BY DEF R!DeleteRow, R!About, DockerInv, HostShape, Fits, Concerns
<1>2. CASE UNCHANGED routeVars  BY <1>2, RoutesStay
<1>3. CASE /\ route' = IF route[d].id = held[r] THEN [route EXCEPT ![d] = R!NoRoute] ELSE route
           /\ crossed' = IF R!Creating(d) THEN crossed \cup {d} ELSE crossed
           /\ UNCHANGED <<held, file, setting, stray, displaced, loose>>
  <2>1. /\ route' \in [Domains -> [id : R!RowIds \cup {0}, label : BOOLEAN, target : Names \cup {None}]]
        /\ \A e \in Domains : route'[e].label => route'[e].target \in Names
    BY <1>1, <1>3, NoRouteIsOne DEF DockerInv, R!RouteTypeOK, PageShape
  <2> QED  BY <1>1, <1>3, <2>1, RoutesShaped DEF DockerInv, PageShape, R!RouteTypeOK
<1> QED  BY <1>2, <1>3 DEF R!DeleteRow, R!May, R!routeVars, routeVars

LEMMA FileShapes ==
    ASSUME DockerInv, BoxAges, NEW r \in Reqs, R!WriteDynamicConfig(r) \/ R!RemoveDynamicConfig(r)
    PROVE  RoutesShape'
<1> DEFINE d == job[r].arg
<1>1. d \in Domains /\ SafeName[d] \in R!RouteFiles
  BY DEF R!WriteDynamicConfig, R!RemoveDynamicConfig, R!About, R!RouteFiles, DockerInv, HostShape, Fits, Concerns
<1>2. R!Other(SafeName[d], d) \subseteq Domains  BY <1>1 DEF R!Other, DockerInv, R!RouteTypeOK
<1>3. CASE UNCHANGED routeVars  BY <1>3, RoutesStay
<1>4. CASE /\ UNCHANGED <<route, held, setting, stray, crossed>>
           /\ file' \in {file, [file EXCEPT ![SafeName[d]] = d], [file EXCEPT ![SafeName[d]] = None]}
           /\ loose' \in {loose, loose \cup {d}} /\ displaced' \in {displaced, displaced \cup R!Other(SafeName[d], d)}
  <2>1. file' \in [R!RouteFiles -> Domains \cup {None}]  BY <1>1, <1>4 DEF DockerInv, R!RouteTypeOK
  <2> QED  BY <1>1, <1>2, <1>4, <2>1, RoutesShaped DEF DockerInv, PageShape, R!RouteTypeOK
<1> QED  BY <1>3, <1>4, Zenon DEF R!WriteDynamicConfig, R!RemoveDynamicConfig, R!May, R!routeVars, routeVars

LEMMA FindTargetShapes == ASSUME DockerInv, BoxAges, NEW r \in Reqs, R!FindTarget(r) PROVE RoutesShape'
<1> DEFINE d == job[r].arg
           sib == R!Siblings(job[r].cfg.name, d)
<1>1. d \in Domains /\ UNCHANGED <<route, held, file, setting, stray, crossed>>
  BY DEF R!FindTarget, R!About, DockerInv, HostShape, Fits, Concerns
<1>2. sib \subseteq Domains  BY DEF R!Siblings
<1> HIDE DEF sib
<1>3. displaced' \in {displaced, displaced \cup sib} /\ loose' \in {loose, loose \cup {d}}
  BY Zenon DEF R!FindTarget, R!May, R!routeVars, sib
<1> QED  BY <1>1, <1>2, <1>3, RoutesShaped DEF DockerInv, PageShape, R!RouteTypeOK

LEMMA DeleteRouteShapes ==
    ASSUME DockerInv, BoxAges, NEW r \in Reqs, NEW d \in Domains, R!DeleteProxyRoute(r, d) PROVE RoutesShape'
<1>1. UNCHANGED <<route, file, setting, stray, crossed, displaced, loose>>  BY DEF R!DeleteProxyRoute
<1>2. held' \in [Reqs -> R!RowIds \cup {0}]  BY DEF R!DeleteProxyRoute, R!Holds, DockerInv, R!RouteTypeOK
<1> QED  BY <1>1, <1>2, RoutesShaped DEF DockerInv, PageShape, R!RouteTypeOK

LEMMA SettingShapes ==
    ASSUME DockerInv, BoxAges, NEW r \in Reqs, R!Record(r) \/ R!Clear(r) PROVE RoutesShape'
<1>1. CASE UNCHANGED routeVars  BY <1>1, RoutesStay
<1>2. CASE /\ UNCHANGED <<route, held, file, crossed, displaced, loose>>
           /\ stray' = stray \cup R!Overwritten(job[r].id) /\ (setting' = None \/ (job[r].pc = "record" /\ setting' = job[r].id))
  <2>1. Fits(job[r], box) /\ job[r] \in HostJobs  BY DEF DockerInv, HostShape
  <2>2. job[r].pc = "record" => job[r].id \in Ids /\ job[r].op = "enable"
    BY <2>1 DEF Fits, Placed, Reaches, HostJobs, HostOps
  <2>3. setting' \in Ids => box[setting'].state # "none" /\ box[setting'].cfg.name = Proxy
    BY <1>2, <2>1, <2>2, DockerConstants DEF Fits, Placed
  <2>4. setting' \in Ids \cup {None} /\ stray' \subseteq Ids
    BY <1>2, <2>2 DEF R!Overwritten, DockerInv, R!RouteTypeOK
  <2> QED  BY <1>2, <2>3, <2>4, RoutesShaped DEF DockerInv, PageShape, R!RouteTypeOK
<1> QED  BY <1>1, <1>2, Zenon DEF R!Record, R!Clear, R!May, R!routeVars, routeVars

LEMMA LeftShapes == ASSUME DockerInv, BoxAges, NEW X \in SUBSET Reqs, R!Left(X) PROVE RoutesShape'
<1>1. UNCHANGED <<route, held, file, setting, crossed, displaced>>  BY DEF R!Left
<1>2. \A r \in Reqs : /\ job[r].op \in {"file", "label", "unlabel", "unfile"} => job[r].arg \in Domains
                      /\ job[r].op \in {"enable", "disable"} => job[r].arg = None
                      /\ R!H!Exists(job[r].id) => job[r].id \in Ids
  BY ExistsIs DEF DockerInv, HostShape, HostJobs, Fits, Concerns
<1>3. loose' \subseteq Domains  BY <1>2 DEF R!Left, R!About, R!OfRoutes, DockerInv, R!RouteTypeOK
<1>4. stray' \subseteq Ids  BY <1>2 DEF R!Left, DockerInv, R!RouteTypeOK
<1> QED  BY <1>1, <1>3, <1>4, RoutesShaped DEF DockerInv, PageShape, R!RouteTypeOK

LEMMA RouteSteps == ASSUME DockerInv, BoxAges, Routes PROVE RoutesShape'
<1> SUFFICES ASSUME NEW r \in Reqs,
                    \/ \E d \in Domains, n \in {App, None}, label \in BOOLEAN : R!CreateProxyRoute(r, d, n, label)
                    \/ \E d \in Domains : R!DeleteProxyRoute(r, d)
                    \/ R!Attach(r) \/ R!Insert(r) \/ R!WriteDynamicConfig(r) \/ R!FindTarget(r) \/ R!Undo(r)
                    \/ R!Done(r) \/ R!DeleteRow(r) \/ R!RemoveDynamicConfig(r) \/ R!RouteAbandon(r)
             PROVE RoutesShape'
  BY Zenon DEF Routes
<1>1. CASE \/ \E d \in Domains, n \in {App, None}, label \in BOOLEAN : R!CreateProxyRoute(r, d, n, label)
           \/ R!Attach(r) \/ R!Done(r)
  <2>1. UNCHANGED routeVars  BY <1>1, Zenon DEF R!CreateProxyRoute, R!Attach, R!Done, R!routeVars, routeVars
  <2> QED  BY <2>1, RoutesStay
<1>2. CASE \E d \in Domains : R!DeleteProxyRoute(r, d)  BY <1>2, DeleteRouteShapes
<1>3. CASE R!Insert(r) \/ R!DeleteRow(r) \/ R!WriteDynamicConfig(r) \/ R!RemoveDynamicConfig(r)
  BY <1>3, InsertShapes, DeleteRowShapes, FileShapes
<1>4. CASE R!FindTarget(r) \/ R!Undo(r)  BY <1>4, FindTargetShapes, UndoShapes
<1>5. CASE R!RouteAbandon(r)
  <2>1. R!Left({r}) /\ {r} \in SUBSET Reqs  BY <1>5 DEF R!RouteAbandon
  <2> QED  BY <2>1, LeftShapes
<1> QED  BY <1>1, <1>2, <1>3, <1>4, <1>5, Zenon

LEMMA ProxySteps == ASSUME DockerInv, BoxAges, ProxyPage PROVE RoutesShape'
<1> SUFFICES ASSUME NEW r \in Reqs,
                    \/ R!EnableTraefik(r) \/ R!WaitHealthy(r) \/ R!Record(r)
                    \/ R!DisableTraefik(r) \/ R!ReadId(r) \/ R!RemoveProxy(r) \/ R!Clear(r)
             PROVE RoutesShape'
  BY Zenon DEF ProxyPage
<1>1. CASE R!Record(r) \/ R!Clear(r)  BY <1>1, SettingShapes
<1>2. CASE ~(R!Record(r) \/ R!Clear(r))
  <2>1. UNCHANGED routeVars
    BY <1>2, Zenon DEF R!EnableTraefik, R!WaitHealthy, R!DisableTraefik, R!ReadId, R!RemoveProxy, R!routeVars, routeVars
  <2> QED  BY <2>1, RoutesStay
<1> QED  BY <1>1, <1>2

LEMMA RoutesKeepShape == DockerInv /\ DockerMoves => RoutesShape'
<1> SUFFICES ASSUME DockerInv, DockerMoves PROVE RoutesShape'  OBVIOUS
<1>1. BoxAges  BY HostSteps DEF HostStep
<1>2. CASE PagesDropped  BY <1>1, <1>2, LeftShapes, Zenon DEF PagesDropped, R!RoutesDropped
<1>3. CASE UNCHANGED routeVars  BY <1>1, <1>3, RoutesStay
<1> QED
  BY <1>1, <1>2, <1>3, RouteSteps, ProxySteps, ContainersQuiet, ContainerPageQuiet, RedeploysQuiet, Zenon
  DEF DockerMoves, pagesVars

LEMMA TagIs == ASSUME DockerInv, NEW r \in Reqs, G!Redeploys(r)
               PROVE job[r].arg \in Deployments /\ G!Of(r) = job[r].arg /\ G!Tag(r) = TagOf[job[r].arg] /\ G!Tag(r) \in G!Tags
<1>1. job[r].arg \in Deployments  BY DEF G!Redeploys, DockerInv, HostShape, Fits, Concerns, RedeployOps
<1> QED  BY <1>1 DEF G!Of, G!Tag, G!Tags

\* The rows of the deployments
DepRows == [listed : BOOLEAN, status : {"", "success", "failed"}]

LEMMA RowsTyped ==
    ASSUME DockerInv, NEW g \in Deployments, NEW x \in DepRows, ~x.listed => x.status = "",
           dep' = dep \/ dep' = [dep EXCEPT ![g] = x]
    PROVE  dep' \in [Deployments -> DepRows] /\ \A h \in Deployments : ~dep'[h].listed => dep'[h].status = ""
<1>1. dep \in [Deployments -> DepRows] /\ \A h \in Deployments : ~dep[h].listed => dep[h].status = ""
  BY DEF DockerInv, G!GitTypeOK, DepRows
<1>2. CASE dep' = dep  BY <1>1, <1>2
<1>3. CASE dep' = [dep EXCEPT ![g] = x]
  <2>1. dep' \in [Deployments -> DepRows]  BY <1>1, <1>3
  <2>2. \A h \in Deployments : dep'[h] = IF h = g THEN x ELSE dep[h]  BY <1>1, <1>3
  <2> QED  BY <1>1, <2>1, <2>2
<1> QED  BY <1>2, <1>3

LEMMA BeginTypes ==
    ASSUME DockerInv, NEW r \in Reqs, NEW g \in Deployments,
           G!CreateGitDeployment(r, g) \/ G!RedeployNow(r, g) \/ G!Webhook(r, g)
    PROVE  G!GitTypeOK'
<1>1. UNCHANGED <<fetched, dir, image, shipped, broken>>
  BY DEF G!CreateGitDeployment, G!RedeployNow, G!Webhook
<1>2. overlapped' \subseteq Deployments
  <2>1. \E op \in RedeployOps : G!Begins(r, g, op)
    BY Zenon DEF G!CreateGitDeployment, G!RedeployNow, G!Webhook, RedeployOps
  <2> QED  BY <2>1 DEF G!Begins, G!Rivals, DockerInv, G!GitTypeOK
<1>3. /\ dep' = dep \/ dep' = [dep EXCEPT ![g] = [listed |-> TRUE, status |-> ""]]
      /\ head' = head \/ (head[g] + 1 \in Sources /\ head' = [head EXCEPT ![g] = @ + 1])
  BY Zenon DEF G!CreateGitDeployment, G!RedeployNow, G!Webhook
<1>4. head' \in [Deployments -> Sources]  BY <1>3 DEF DockerInv, G!GitTypeOK
<1>5. /\ dep' \in [Deployments -> [listed : BOOLEAN, status : {"", "success", "failed"}]]
      /\ \A h \in Deployments : ~dep'[h].listed => dep'[h].status = ""
  <2> DEFINE x == [listed |-> TRUE, status |-> ""]
  <2>1. x \in DepRows /\ x.listed  BY DEF DepRows
  <2>2. dep' = dep \/ dep' = [dep EXCEPT ![g] = x]  BY <1>3
  <2> HIDE DEF x
  <2> QED  BY <2>1, <2>2, RowsTyped DEF DepRows
<1> QED  BY <1>1, <1>2, <1>4, <1>5 DEF DockerInv, G!GitTypeOK, DepRows

LEMMA BuildTypes ==
    ASSUME DockerInv, NEW r \in Reqs, G!Clean(r) \/ G!Clone(r) \/ G!WriteFiles(r) \/ G!RunBuild(r)
    PROVE  G!GitTypeOK'
<1>1. UNCHANGED <<head, dep, shipped, overlapped, broken>> /\ G!Redeploys(r)
  BY DEF G!Clean, G!Clone, G!WriteFiles, G!RunBuild, G!At
<1> DEFINE t == G!Tag(r)
           g == G!Of(r)
<1>2. t \in G!Tags /\ g \in Deployments  BY <1>1, TagIs
<1>3. /\ dir' \in {dir, [dir EXCEPT ![t] = None], [dir EXCEPT ![t] = fetched[r]]}
      /\ image' = image \/ image' = [image EXCEPT ![t] = dir[t]]
      /\ fetched' = fetched \/ fetched' = [fetched EXCEPT ![r] = head[g]]
  BY Zenon DEF G!Clean, G!Clone, G!WriteFiles, G!RunBuild, G!Step
<1> HIDE DEF t, g
<1>4. /\ fetched \in [Reqs -> Sources] /\ head \in [Deployments -> Sources]
      /\ dir \in [G!Tags -> Sources \cup {None}] /\ image \in [G!Tags -> Sources \cup {None}]
  BY DEF DockerInv, G!GitTypeOK
<1>5. dir' \in [G!Tags -> Sources \cup {None}] /\ image' \in [G!Tags -> Sources \cup {None}]
  BY <1>2, <1>3, <1>4
<1>6. fetched' \in [Reqs -> Sources]  BY <1>2, <1>3, <1>4
<1> QED  BY <1>1, <1>5, <1>6 DEF DockerInv, G!GitTypeOK

LEMMA RecordTypes ==
    ASSUME DockerInv, NEW r \in Reqs, G!RecordDeployment(r) \/ G!GitAbandon(r) PROVE G!GitTypeOK'
<1> DEFINE g == G!Of(r)
<1>1. UNCHANGED <<head, fetched, dir, image, overlapped>> /\ G!Redeploys(r)
  BY DEF G!RecordDeployment, G!GitAbandon, G!Redeploys
<1>2. g \in Deployments  BY <1>1, TagIs
<1> HIDE DEF g
<1>3. /\ shipped' = shipped \/ shipped' = [shipped EXCEPT ![g] = fetched[r]]
      /\ broken' = broken \/ broken' = broken \cup {g}
      /\ dep' = dep \/ \E s \in {"success", "failed"} : dep[g].listed /\ dep' = [dep EXCEPT ![g].status = s]
  BY DEF G!RecordDeployment, G!GitAbandon, g
<1>4. shipped' \in [Deployments -> Sources] /\ broken' \subseteq Deployments
  BY <1>2, <1>3, ZenonT(40) DEF DockerInv, G!GitTypeOK
<1>5. /\ dep' \in [Deployments -> [listed : BOOLEAN, status : {"", "success", "failed"}]]
      /\ \A h \in Deployments : ~dep'[h].listed => dep'[h].status = ""
  <2>1. CASE dep' = dep  BY <2>1 DEF DockerInv, G!GitTypeOK
  <2>2. ASSUME NEW s \in {"success", "failed"}, dep[g].listed, dep' = [dep EXCEPT ![g].status = s]
        PROVE  /\ dep' \in [Deployments -> DepRows]
               /\ \A h \in Deployments : ~dep'[h].listed => dep'[h].status = ""
    <3> DEFINE x == [dep[g] EXCEPT !.status = s]
    <3>1. dep[g] \in DepRows /\ dep' = [dep EXCEPT ![g] = x]
      BY <1>2, <2>2 DEF DockerInv, G!GitTypeOK, DepRows
    <3>2. x \in DepRows /\ x.listed  BY <2>2, <3>1 DEF DepRows
    <3> HIDE DEF x
    <3> QED  BY <1>2, <3>1, <3>2, RowsTyped
  <2> QED  BY <1>3, <2>1, <2>2 DEF DepRows
<1> QED  BY <1>1, <1>4, <1>5 DEF DockerInv, G!GitTypeOK

LEMMA DeploymentTypes ==
    ASSUME DockerInv, UNCHANGED gitVars \/ \E g \in Deployments : G!DeleteGitDeployment(g) PROVE G!GitTypeOK'
<1>1. CASE UNCHANGED gitVars  BY <1>1 DEF gitVars, DockerInv, G!GitTypeOK
<1>2. ASSUME NEW g \in Deployments, G!DeleteGitDeployment(g) PROVE G!GitTypeOK'
  <2>1. /\ UNCHANGED <<head, fetched, dir, image, shipped, overlapped, broken>>
        /\ dep' = [dep EXCEPT ![g] = [listed |-> FALSE, status |-> ""]]
    BY <1>2 DEF G!DeleteGitDeployment
  <2> QED  BY <2>1 DEF DockerInv, G!GitTypeOK
<1> QED  BY <1>1, <1>2

LEMMA DeploymentsDroppedTypes == ASSUME DockerInv, G!GitDropped PROVE G!GitTypeOK'
<1>1. \A r \in Reqs : G!Redeploys(r) => G!Of(r) \in Deployments  BY TagIs
<1>2. UNCHANGED <<head, dep, fetched, dir, image, shipped, overlapped>>  BY DEF G!GitDropped
<1>3. broken' \subseteq Deployments
  <2>1. broken \subseteq Deployments  BY DEF DockerInv, G!GitTypeOK
  <2> QED  BY <1>1, <2>1, Zenon DEF G!GitDropped
<1> QED  BY <1>2, <1>3 DEF DockerInv, G!GitTypeOK

LEMMA BuildsKeepTypes == DockerInv /\ DockerMoves => G!GitTypeOK'
<1> SUFFICES ASSUME DockerInv, DockerMoves PROVE G!GitTypeOK'  OBVIOUS
<1>1. CASE PagesDropped  BY <1>1, DeploymentsDroppedTypes DEF PagesDropped
<1>2. CASE UNCHANGED gitVars  BY <1>2, DeploymentTypes
<1>3. CASE Redeploys
  <2>1. ASSUME NEW r \in Reqs, G!FindOld(r) \/ G!RemoveOld(r) \/ G!CreateNew(r) PROVE UNCHANGED gitVars
    BY <2>1 DEF G!FindOld, G!RemoveOld, G!CreateNew, G!gitVars, gitVars
  <2> QED  BY <1>3, <2>1, BeginTypes, BuildTypes, RecordTypes, DeploymentTypes, Zenon DEF Redeploys
<1> QED
  BY <1>1, <1>2, <1>3, RoutesQuiet, ProxyPageQuiet, ContainersQuiet, ContainerPageQuiet, Zenon
  DEF DockerMoves, pagesVars

LEMMA DockerSteps == DockerInv /\ DockerMoves => DockerInv'
<1> SUFFICES ASSUME DockerInv, DockerMoves PROVE DockerInv'  OBVIOUS
<1>1. HostShape' /\ Given  BY HostSteps DEF HostStep
<1>2. R!RouteTypeOK' /\ PageShape'  BY RoutesKeepShape DEF RoutesShape
<1> QED  BY <1>1, <1>2, BuildsKeepTypes DEF Given, DockerInv

LEMMA DockerInitially == PagesInit => DockerInv
<1> SUFFICES ASSUME PagesInit PROVE DockerInv  OBVIOUS
<1>1. PICK d \in Domains \cup {None} : H!HostInit(App, d) /\ R!RouteInit(App, d)
  <2>1. (CHOOSE e \in Domains : TRUE) \in Domains  BY DockerConstants
  <2> QED  BY <2>1, Zenon DEF PagesInit
<1> DEFINE one == CHOOSE c \in Ids : TRUE
           cfg == [H!NoCfg EXCEPT !.name = App, !.nets = {Managed}, !.label = d]
<1>2. one \in Ids  BY DockerConstants
<1>3. cfg \in H!Cfgs /\ cfg.name = App  BY DockerConstants DEF H!NoCfg, H!Cfgs
<1>4. box = [c \in Ids |-> IF c = one THEN [state |-> "running", cfg |-> cfg] ELSE [state |-> "none", cfg |-> H!NoCfg]]
  BY <1>1 DEF H!HostInit
<1> HIDE DEF cfg, one
<1>5. box \in [Ids -> HostBoxes]  BY <1>3, <1>4, NoJobFits DEF HostBoxes
<1>6. /\ \A r \in Reqs : job[r] = NoJob
      /\ job = [r \in Reqs |-> NoJob]
  BY <1>1, NoJobFits DEF H!HostInit
<1>7. \A r \in Reqs : Fits(job[r], box)  BY <1>6, NoJobFits
<1>8. job \in [Reqs -> HostJobs]
  <2>1. \A r \in Reqs : NoJob \in HostJobs  BY <1>6, <1>7 DEF Fits
  <2> QED  BY <2>1, <1>6
<1>9. /\ \A c \in Ids : box[c].state # "none" => c = one /\ box[c].cfg.name = App
  BY <1>3, <1>4
<1>10. HostShape
  <2>1. bound \in [Names -> SUBSET Volumes] /\ joined \in [Names -> SUBSET Nets]  BY <1>1 DEF H!HostInit
  <2> QED  BY <2>1, <1>5, <1>7, <1>8, <1>9, DockerConstants DEF HostShape, Alive
<1>11. cut = {} /\ raced = {} /\ taken = {} /\ renewed = {} /\ remade = {}  BY <1>1 DEF H!HostInit
<1>12. R!RouteTypeOK /\ PageShape
  <2>1. 1 \in R!RowIds
    <3>1. R!Cardinality(Domains) = Cardinality(Domains) /\ R!Cardinality(Reqs) = Cardinality(Reqs)
      BY Zenon DEF R!Cardinality, Cardinality
    <3>2. Cardinality(Domains) \in Nat /\ Cardinality(Reqs) \in Nat  BY DockerConstants, FS_CardinalityType
    <3>3. Cardinality(Domains) # 0  BY DockerConstants, FS_EmptySet
    <3> QED  BY <3>1, <3>2, <3>3 DEF R!RowIds
  <2> DEFINE first == [id |-> 1, label |-> TRUE, target |-> App]
             AnyRoute == [id : R!RowIds \cup {0}, label : BOOLEAN, target : Names \cup {None}]
  <2>2. first \in AnyRoute /\ R!NoRoute \in AnyRoute /\ first.target = App /\ ~R!NoRoute.label
    BY <2>1, DockerConstants, NoRouteIsOne
  <2>3. route = [e \in Domains |-> IF e = d THEN first ELSE R!NoRoute]  BY <1>1 DEF R!RouteInit
  <2>4. route \in [Domains -> AnyRoute] /\ \A e \in Domains : route[e].label => route[e].target = App
    <3> HIDE DEF first, AnyRoute
    <3> QED  BY <2>2, <2>3
  <2>5. setting = None /\ stray = {} /\ crossed = {} /\ displaced = {} /\ loose = {}
        /\ held = [r \in Reqs |-> 0] /\ file = [f \in R!RouteFiles |-> None]
    BY <1>1 DEF R!RouteInit
  <2> QED  BY <2>4, <2>5, DockerConstants DEF R!RouteTypeOK, PageShape
<1>13. G!GitTypeOK
  <2>1. G!GitInit  BY DEF PagesInit
  <2> QED  BY <2>1, DockerConstants DEF G!GitInit, G!GitTypeOK
<1> QED  BY <1>10, <1>11, <1>12, <1>13 DEF DockerInv
-----------------------------------------------------------------------------
(* What becomes of the container of a name *)

Present(n) == Bearers(n) # {} \/ Makers(n) # {}
\* Of two containers that are to have one name, a recreation loses one.
Two(n) == (Bearers(n) # {} /\ Makers(n) # {}) \/ \E r, q \in Makers(n) : r # q
\* What the containers of a name are, and are to be
Cores(n) == {Core(box[c].cfg) : c \in Bearers(n)} \cup {Core(job[r].cfg) : r \in Makers(n)}

\* A step that gives a name no other container and no other configuration
Stays(n) == (Two(n) => Two(n)') /\ (Present(n) => Present(n)') /\ Cores(n)' \subseteq Cores(n)

LEMMA SameStays ==
    ASSUME NEW n, Bearers(n) \subseteq Bearers(n)', Makers(n) \subseteq Makers(n)',
           \A c \in Bearers(n)' : Core(box'[c].cfg) \in Cores(n),
           \A r \in Makers(n)' : Core(job'[r].cfg) \in Cores(n)
    PROVE  Stays(n)
<1>1. Two(n) => Two(n)'  BY DEF Two
<1>2. Present(n) => Present(n)'  BY DEF Present
<1>3. Cores(n)' \subseteq Cores(n)  BY DEF Cores
<1> QED  BY <1>1, <1>2, <1>3 DEF Stays

LEMMA CoreIn == /\ \A n : \A c \in Bearers(n) : Core(box[c].cfg) \in Cores(n)
                /\ \A n : \A r \in Makers(n) : Core(job[r].cfg) \in Cores(n)
BY DEF Cores

\* As far as the requests are concerned
LEMMA JobMakers ==
    ASSUME DockerInv, NEW r \in Reqs, NEW x, job' = [job EXCEPT ![r] = x], ~Remaking(job[r]), ~Remaking(x), NEW n
    PROVE  Makers(n)' = Makers(n) /\ \A q \in Makers(n) : job'[q] = job[q]
<1>1. \A q \in Reqs : job'[q] = IF q = r THEN x ELSE job[q]  BY DEF DockerInv, HostShape
<1>2. Makers(n)' = {q \in Reqs : Remaking(job'[q]) /\ job'[q].cfg.name = n}  BY DEF Makers, Remaking
<1> QED  BY <1>1, <1>2 DEF Makers

LEMMA MakersAfter == \A n : Makers(n)' = {q \in Reqs : Remaking(job'[q]) /\ job'[q].cfg.name = n}
BY DEF Makers, Remaking

LEMMA QuietNames == ASSUME DockerInv, QuietStep, NEW n \in Names PROVE n \in cut' \/ Stays(n)
<1> SUFFICES ASSUME n \notin cut' PROVE Stays(n)  OBVIOUS
<1>1. ASSUME NEW q \in Reqs
      PROVE  /\ Remaking(job[q]) /\ job[q].cfg.name = n => job'[q] = job[q]
             /\ Remaking(job'[q]) => job'[q] = job[q]
  BY DEF QuietStep, QuietJob
<1>2. Makers(n)' = Makers(n) /\ \A q \in Makers(n) : job'[q] = job[q]
  BY <1>1, MakersAfter DEF Makers
<1>3. Bearers(n)' = Bearers(n) /\ \A c \in Bearers(n) : Core(box'[c].cfg) = Core(box[c].cfg)
  BY DEF QuietStep, BoxStays, Bearers
<1> QED  BY <1>2, <1>3, CoreIn, SameStays

LEMMA SnapshotNames == ASSUME DockerInv, NEW r \in Reqs, Snapshot(r), NEW n \in Names PROVE Stays(n)
<1>1. job[r] \in HostJobs  BY DEF DockerInv, HostShape
<1>2. ~Remaking(job[r]) /\ ~Remaking([job[r] EXCEPT !.pc = "stop", !.cfg = box[job[r].id].cfg])
  BY <1>1 DEF Snapshot, Remaking, HostJobs
<1>3. job' = [job EXCEPT ![r] = [job[r] EXCEPT !.pc = "stop", !.cfg = box[job[r].id].cfg]]
  BY DEF Snapshot, DockerInv, HostShape
<1>4. Makers(n)' = Makers(n) /\ \A q \in Makers(n) : job'[q] = job[q]  BY <1>2, <1>3, JobMakers
<1>5. Bearers(n)' = Bearers(n)  BY DEF Snapshot, Bearers
<1> QED  BY <1>4, <1>5, CoreIn, SameStays DEF Snapshot

LEMMA ReconnectedNames == ASSUME DockerInv, NEW r \in Reqs, Reconnected(r), NEW n \in Names PROVE Stays(n)
<1>1. job[r] \in HostJobs  BY DEF DockerInv, HostShape
<1>2. ~Remaking(job[r]) /\ ~Remaking([job[r] EXCEPT !.pc = "start"])
  BY <1>1 DEF Reconnected, Remaking, HostJobs
<1>3. job' = [job EXCEPT ![r] = [job[r] EXCEPT !.pc = "start"]]
  BY DEF Reconnected, DockerInv, HostShape
<1>4. Makers(n)' = Makers(n) /\ \A q \in Makers(n) : job'[q] = job[q]  BY <1>2, <1>3, JobMakers
<1>5. Bearers(n)' = Bearers(n)  BY DEF Reconnected, Bearers
<1> QED  BY <1>4, <1>5, CoreIn, SameStays DEF Reconnected

LEMMA VolumeGivenNames == ASSUME DockerInv, NEW r \in Reqs, VolumeGiven(r), NEW n \in Names PROVE Stays(n)
<1>1. ~Remaking(job[r]) /\ ~Remaking(NoJob)  BY DEF VolumeGiven, Remaking, NoJob
<1>2. Makers(n)' = Makers(n) /\ \A q \in Makers(n) : job'[q] = job[q]  BY <1>1, JobMakers DEF VolumeGiven
<1>3. BoxStays  BY StateStays DEF VolumeGiven, Alive
<1>4. Bearers(n)' = Bearers(n) /\ \A c \in Bearers(n) : Core(box'[c].cfg) = Core(box[c].cfg)
  BY <1>3 DEF BoxStays, Bearers
<1> QED  BY <1>2, <1>4, CoreIn, SameStays

LEMMA NetworksIs ==
    ASSUME DockerInv, NEW c \in Ids, Networks(c)
    PROVE  /\ job' = job /\ BoxAges
           /\ \A d \in Ids : /\ box'[d].state = box[d].state /\ box'[d].cfg.name = box[d].cfg.name
                             /\ Core(box'[d].cfg) = Core(box[d].cfg)
                             /\ d # c => box'[d] = box[d]
           /\ \E n \in Nets : \/ /\ joined' = [joined EXCEPT ![box[c].cfg.name] = @ \cup {n}]
                                 /\ box'[c].cfg.nets = box[c].cfg.nets \cup {n}
                              \/ /\ joined' = [joined EXCEPT ![box[c].cfg.name] = @ \ {n}]
                                 /\ box'[c].cfg.nets = box[c].cfg.nets \ {n}
<1>1. PICK n \in Nets, N \in SUBSET Nets :
        /\ box' = [box EXCEPT ![c].cfg.nets = N]
        /\ \/ N = box[c].cfg.nets \cup {n} /\ joined' = [joined EXCEPT ![box[c].cfg.name] = @ \cup {n}]
           \/ N = box[c].cfg.nets \ {n} /\ joined' = [joined EXCEPT ![box[c].cfg.name] = @ \ {n}]
  <2>1. box[c] \in HostBoxes  BY DEF DockerInv, HostShape
  <2>2. box[c].cfg.nets \in SUBSET Nets  BY <2>1 DEF HostBoxes, H!Cfgs
  <2> QED  BY <2>2 DEF Networks
<1> DEFINE b == [box[c] EXCEPT !.cfg.nets = N]
<1>2. box \in [Ids -> HostBoxes] /\ box[c] \in HostBoxes /\ box[c].cfg \in H!Cfgs  BY DEF DockerInv, HostShape, HostBoxes
<1>3. /\ b.state = box[c].state /\ b.cfg = [box[c].cfg EXCEPT !.nets = N]  BY <1>2 DEF HostBoxes, H!Cfgs
<1>4. b.cfg.nets = N /\ Core(b.cfg) = Core(box[c].cfg) /\ b.cfg.name = box[c].cfg.name
  BY <1>2, <1>3 DEF H!Cfgs, Core
<1>5. \A d \in Ids : box'[d] = IF d = c THEN b ELSE box[d]  BY <1>1, <1>2
<1> HIDE DEF b
<1>6. \A d \in Ids : /\ box'[d].state = box[d].state /\ box'[d].cfg.name = box[d].cfg.name
                     /\ Core(box'[d].cfg) = Core(box[d].cfg)
                     /\ d # c => box'[d] = box[d]
  BY <1>3, <1>4, <1>5
<1>7. BoxAges  BY <1>6 DEF BoxAges
<1>8. box'[c].cfg.nets = N  BY <1>4, <1>5
<1>9. job' = job  BY DEF Networks
<1> QED  BY <1>1, <1>6, <1>7, <1>8, <1>9

LEMMA NetworksNames == ASSUME DockerInv, NEW c \in Ids, Networks(c), NEW n \in Names PROVE Stays(n)
<1>1. Makers(n)' = Makers(n) /\ job' = job  BY NetworksIs DEF Makers, Remaking
<1>2. Bearers(n)' = Bearers(n) /\ \A d \in Bearers(n) : Core(box'[d].cfg) = Core(box[d].cfg)
  BY NetworksIs DEF Bearers
<1> QED  BY <1>1, <1>2, CoreIn, SameStays

LEMMA RemakeNames ==
    ASSUME DockerInv, NEW r \in Reqs, NEW c \in Ids, Remake(r, c), NEW n \in Names PROVE Stays(n)
<1> DEFINE cfg == [job[r].cfg EXCEPT !.nets = {}]
           x == [job[r] EXCEPT !.pc = "nets", !.id = c]
<1>1. job[r] \in HostJobs /\ job[r].cfg \in H!Cfgs /\ Remaking(job[r])
  BY DEF DockerInv, HostShape, Remake, HostJobs
<1>2. \A q \in Reqs : job'[q] = IF q = r THEN x ELSE job[q]  BY DEF DockerInv, HostShape, Remake
<1>3. ~Remaking(x)  BY <1>1 DEF Remaking, HostJobs
<1>4. cfg.name = job[r].cfg.name /\ Core(cfg) = Core(job[r].cfg)  BY <1>1 DEF H!Cfgs, Core
<1>5. \A d \in Ids : box'[d] = IF d = c THEN [state |-> "created", cfg |-> cfg] ELSE box[d]
  BY DEF DockerInv, HostShape, Remake
<1> HIDE DEF cfg, x
<1>6. box'[c].state = "created" /\ box'[c].cfg = cfg /\ box[c].state = "none" /\ Bearers(job[r].cfg.name) = {}
  BY <1>5 DEF Remake
<1>7. Makers(n)' = Makers(n) \ {r} /\ \A q \in Makers(n)' : job'[q] = job[q]
  BY <1>2, <1>3, MakersAfter DEF Makers
<1>8. CASE n = job[r].cfg.name
  <2>1. Bearers(n)' = {c} /\ Bearers(n) = {}  BY <1>4, <1>5, <1>6, <1>8 DEF Bearers, Alive
  <2>2. r \in Makers(n)  BY <1>1, <1>8 DEF Makers
  <2>3. Cores(n)' \subseteq Cores(n)
    <3>1. Core(box'[c].cfg) \in Cores(n)  BY <1>4, <1>6, <2>2, CoreIn
    <3>2. \A q \in Makers(n)' : Core(job'[q].cfg) \in Cores(n)  BY <1>7, CoreIn
    <3> QED  BY <2>1, <3>1, <3>2 DEF Cores
  <2>4. Two(n) => Two(n)'
    <3> SUFFICES ASSUME Two(n) PROVE Two(n)'  OBVIOUS
    <3>1. PICK q \in Makers(n) : q # r  BY <2>1 DEF Two
    <3>2. q \in Makers(n)'  BY <3>1, <1>7
    <3> QED  BY <2>1, <3>2 DEF Two
  <2>5. Present(n)'  BY <2>1 DEF Present
  <2> QED  BY <2>3, <2>4, <2>5 DEF Stays
<1>9. CASE n # job[r].cfg.name
  <2>1. Makers(n)' = Makers(n)  BY <1>7, <1>9 DEF Makers
  <2>2. Bearers(n)' = Bearers(n) /\ \A d \in Bearers(n) : box'[d] = box[d]
    BY <1>4, <1>5, <1>6, <1>9 DEF Bearers, Alive
  <2> QED  BY <1>7, <2>1, <2>2, CoreIn, SameStays
<1> QED  BY <1>8, <1>9

LEMMA LossNames ==
    ASSUME DockerInv, NEW c \in Ids, Loss(c), NEW n \in Names, n # box[c].cfg.name PROVE Stays(n)
<1>1. \A d \in Ids : d # c => box'[d] = box[d]  BY OneEnds DEF Loss
<1>2. box'[c].state = "gone"  BY OneEnds DEF Loss
<1>3. Bearers(n)' = Bearers(n) /\ \A d \in Bearers(n) : box'[d] = box[d]
  BY <1>1, <1>2 DEF Bearers, Alive
<1>4. Makers(n)' = Makers(n) /\ \A q \in Makers(n) : job'[q] = job[q]
  BY MakersAfter DEF Loss, Makers, Remaking
<1> QED  BY <1>3, <1>4, CoreIn, SameStays

\* What a recreation makes of what it removes
Reworked(r, k, l) ==
    /\ l.name = k.name /\ l.image = k.image /\ k.binds \subseteq l.binds
    /\ l.label = IF job[r].op = "label" THEN job[r].arg ELSE IF job[r].op = "unlabel" THEN None ELSE k.label

LEMMA RemovalNames ==
    ASSUME DockerInv, NEW r \in Reqs, Removal(r), NEW n \in Names
    PROVE  /\ n # job[r].cfg.name => Stays(n)
           /\ n = job[r].cfg.name =>
                /\ Two(n) => Two(n)'
                /\ Present(n)' /\ n = box[job[r].id].cfg.name
                /\ \A l \in Cores(n)' : l \in Cores(n) \/ \E k \in Cores(n) : Reworked(r, k, l)
                /\ Bearers(n) = {job[r].id} /\ Bearers(n)' = {} /\ Makers(n)' = Makers(n) \cup {r}
                /\ \A q \in Makers(n) : job'[q] = job[q]
                /\ job'[r].cfg.nets = job[r].cfg.nets /\ Reworked(r, Core(job[r].cfg), Core(job'[r].cfg))
<1> DEFINE c == job[r].id
           e == H!Edited(r)
           x == [job[r] EXCEPT !.pc = "make", !.cfg = e]
<1>1. /\ Fits(job[r], box) /\ job[r] \in HostJobs /\ job[r].cfg \in H!Cfgs /\ job[r].pc = "remove" /\ c \in Ids
      /\ box[c].state \in Alive
  BY DEF DockerInv, HostShape, Removal, HostJobs
<1>2. box'[c].state = "gone" /\ \A d \in Ids \ {c} : box'[d] = box[d]  BY <1>1, OneEnds DEF Removal
<1>3. job[r].op \in RecreateOps
  BY <1>1 DEF Fits, Reaches, HostJobs, HostOps, RecreateOps
<1>4. /\ job[r].op = "bind" => job[r].arg \in Volumes
      /\ job[r].op = "label" => job[r].arg \in Domains
  BY <1>1 DEF Fits, Concerns
<1>5. /\ e.name = job[r].cfg.name /\ e.nets = job[r].cfg.nets /\ e.image = job[r].cfg.image
      /\ job[r].cfg.binds \subseteq e.binds
      /\ e.label = (IF job[r].op = "label" THEN job[r].arg
                    ELSE IF job[r].op = "unlabel" THEN None ELSE job[r].cfg.label)
  BY <1>1, <1>4, EditedIs
<1>6. \A q \in Reqs : job'[q] = IF q = r THEN x ELSE job[q]  BY DEF DockerInv, HostShape, Removal
<1> HIDE DEF e
<1>7. x.pc = "make" /\ x.op = job[r].op /\ x.cfg = e  BY <1>1 DEF HostJobs
<1> HIDE DEF x
<1>8. Reworked(r, Core(job[r].cfg), Core(e))  BY <1>5 DEF Reworked, Core
<1>9. ~Remaking(job[r]) /\ Remaking(x)  BY <1>1, <1>3, <1>7 DEF Remaking
<1>10. Makers(n)' = (IF n = job[r].cfg.name THEN Makers(n) \cup {r} ELSE Makers(n)) /\ r \notin Makers(n)
       /\ \A q \in Makers(n) : job'[q] = job[q]
  BY <1>5, <1>6, <1>7, <1>9, MakersAfter DEF Makers
<1>11. box[c].cfg.name = job[r].cfg.name /\ Core(box[c].cfg) = Core(job[r].cfg)  BY <1>1 DEF Fits, Placed
<1>12. CASE n # job[r].cfg.name
  <2>1. Bearers(n)' = Bearers(n) /\ \A d \in Bearers(n) : box'[d] = box[d]
    BY <1>1, <1>2, <1>11, <1>12 DEF Bearers, Alive
  <2> QED  BY <1>10, <1>12, <2>1, CoreIn, SameStays
<1>13. CASE n = job[r].cfg.name
  <2>1. Bearers(n) = {c}  BY <1>1, <1>11, <1>13 DEF Bearers, DockerInv, HostShape
  <2>2. Bearers(n)' = {}  BY <1>2, <2>1 DEF Bearers, Alive
  <2>3. Two(n) => Two(n)'  BY <1>10, <1>13, <2>1 DEF Two
  <2>4. Present(n)'  BY <1>10, <1>13 DEF Present
  <2>5. Core(job[r].cfg) \in Cores(n)  BY <2>1, <1>11, CoreIn
  <2>6. \A q \in Makers(n) : Core(job'[q].cfg) \in Cores(n)  BY <1>10, CoreIn
  <2>7. \A l \in Cores(n)' : l \in Cores(n) \/ l = Core(job'[r].cfg)
    BY <1>10, <1>13, <2>2, <2>6 DEF Cores
  <2>8. job'[r].cfg = e  BY <1>6, <1>7
  <2> QED  BY <1>5, <1>8, <1>10, <1>11, <1>13, <2>1, <2>2, <2>3, <2>4, <2>5, <2>7, <2>8
<1> QED  BY <1>12, <1>13

LEMMA FreshNames ==
    ASSUME DockerInv, NEW r \in Reqs, NEW c \in Ids, NEW cfg \in H!Cfgs, Creation(r, c, cfg), NEW n \in Names
    PROVE  /\ n # cfg.name => Stays(n)
           /\ n = cfg.name =>
                /\ Two(n) => Two(n)'
                /\ Present(n)' /\ Bearers(n) = {} /\ Bearers(n)' = {c}
                /\ Makers(n)' = Makers(n) /\ \A q \in Makers(n) : job'[q] = job[q]
                /\ Two(n)' \/ (Cores(n)' = {Core(cfg)} /\ Makers(n) = {})
<1> DEFINE x == [job[r] EXCEPT !.pc = "start", !.id = c]
<1>1. job[r] \in HostJobs /\ job[r].op \in {"create", "enable"} \cup RedeployOps /\ Bearers(cfg.name) = {}
      /\ box[c].state = "none"
  BY DEF DockerInv, HostShape, Creation
<1>2. job' = [job EXCEPT ![r] = x]  BY DEF DockerInv, HostShape, Creation
<1>3. ~Remaking(job[r]) /\ ~Remaking(x)  BY <1>1 DEF Remaking, RecreateOps, RedeployOps, HostJobs
<1> HIDE DEF x
<1>4. Makers(n)' = Makers(n) /\ \A q \in Makers(n) : job'[q] = job[q]  BY <1>2, <1>3, JobMakers
<1>5. \A d \in Ids : box'[d] = IF d = c THEN [state |-> "created", cfg |-> cfg] ELSE box[d]
  BY DEF DockerInv, HostShape, Creation
<1>6. CASE n # cfg.name
  <2>1. Bearers(n)' = Bearers(n) /\ \A d \in Bearers(n) : box'[d] = box[d]
    BY <1>1, <1>5, <1>6 DEF Bearers, Alive
  <2> QED  BY <1>4, <1>6, <2>1, CoreIn, SameStays
<1>7. CASE n = cfg.name
  <2>1. Bearers(n) = {} /\ Bearers(n)' = {c}  BY <1>1, <1>5, <1>7 DEF Bearers, Alive
  <2>2. Two(n) => Two(n)'  BY <1>4, <2>1 DEF Two
  <2>3. Makers(n) # {} => Two(n)'  BY <1>4, <2>1 DEF Two
  <2>4. Makers(n) = {} => Cores(n)' = {Core(cfg)}  BY <1>4, <1>5, <2>1 DEF Cores
  <2> QED  BY <1>4, <1>7, <2>1, <2>2, <2>3, <2>4 DEF Present
<1> QED  BY <1>6, <1>7
-----------------------------------------------------------------------------
(* The volumes, the networks and the name of a container *)

\* Who else may change what the containers of a name are
Renamed(n) ==
    \/ \E r \in Reqs : Removal(r) /\ n = job[r].cfg.name
    \/ \E r \in Reqs, c \in Ids, cfg \in H!Cfgs : Creation(r, c, cfg) /\ n = cfg.name
    \/ \E c \in Ids : Loss(c) /\ n = box[c].cfg.name

LEMMA NamesGo == ASSUME DockerInv, HostEvent, NEW n \in Names PROVE n \in cut' \/ Stays(n) \/ Renamed(n)
<1>1. CASE QuietStep  BY <1>1, QuietNames
<1>2. ASSUME NEW r \in Reqs, Snapshot(r) \/ Reconnected(r) \/ VolumeGiven(r) PROVE Stays(n)
  BY <1>2, SnapshotNames, ReconnectedNames, VolumeGivenNames
<1>3. ASSUME NEW r \in Reqs, Removal(r) PROVE Stays(n) \/ Renamed(n)  BY <1>3, RemovalNames DEF Renamed
<1>4. ASSUME NEW r \in Reqs, NEW c \in Ids, Remake(r, c) PROVE Stays(n)  BY <1>4, RemakeNames
<1>5. ASSUME NEW r \in Reqs, NEW c \in Ids, NEW cfg \in H!Cfgs, Creation(r, c, cfg) PROVE Stays(n) \/ Renamed(n)
  BY <1>5, FreshNames, Zenon DEF Renamed
<1>6. ASSUME NEW c \in Ids, Loss(c) PROVE Stays(n) \/ Renamed(n)  BY <1>6, LossNames DEF Renamed
<1>7. ASSUME NEW c \in Ids, Networks(c) PROVE Stays(n)  BY <1>7, NetworksNames
<1> QED  BY <1>1, <1>2, <1>3, <1>4, <1>5, <1>6, <1>7, Zenon DEF HostEvent

LEMMA GoneAfter ==
    ASSUME DockerInv, HostEvent, NEW c \in Ids, box'[c].state = "gone"
    PROVE  box[c].state = "gone" \/ Loss(c) \/ \E r \in Reqs : Removal(r) /\ c = job[r].id
<1>0. ASSUME BoxStays PROVE box[c].state = "gone"
  BY <1>0 DEF DockerInv, HostShape, BoxStays, HostBoxes, Alive
<1>1. CASE QuietStep  BY <1>0, <1>1 DEF QuietStep
<1>2. ASSUME NEW r \in Reqs, Snapshot(r) \/ Reconnected(r) \/ VolumeGiven(r) PROVE box[c].state = "gone"
  BY <1>0, <1>2, StateStays DEF Snapshot, Reconnected, VolumeGiven, Alive
<1> USE DEF DockerInv, HostShape
<1>3. ASSUME NEW r \in Reqs, Removal(r) PROVE box[c].state = "gone" \/ c = job[r].id  BY <1>3 DEF Removal
<1>4. ASSUME NEW r \in Reqs, NEW d \in Ids,
             \/ Remake(r, d) \/ \E cfg \in H!Cfgs : Creation(r, d, cfg)
      PROVE  box[c].state = "gone"
  BY <1>4 DEF Remake, Creation
<1>5. ASSUME NEW d \in Ids, Loss(d) PROVE box[c].state = "gone" \/ Loss(c)  BY <1>5 DEF Loss
<1>6. ASSUME NEW d \in Ids, Networks(d) PROVE box[c].state = "gone"  BY <1>6, NetworksIs
<1> HIDE DEF DockerInv, HostShape
<1> QED  BY <1>1, <1>2, <1>3, <1>4, <1>5, <1>6, Zenon DEF HostEvent

NamesInv ==
    \A c \in Ids, n \in Names :
        box[c].state = "gone" /\ box[c].cfg.name = n /\ n \notin cut \cup taken \cup renewed => Present(n)

LEMMA PresentAfter ==
    ASSUME DockerInv, HostEvent, NEW n \in Names, n \notin cut', n \notin taken' \cup renewed',
           Present(n) \/ \E r \in Reqs : Removal(r) /\ n = job[r].cfg.name
    PROVE  Present(n)'
<1>1. CASE Stays(n) /\ Present(n)  BY <1>1 DEF Stays
<1>2. ASSUME NEW r \in Reqs, Removal(r), n = job[r].cfg.name PROVE Present(n)'  BY <1>2, RemovalNames
<1>3. ASSUME NEW r \in Reqs, NEW c \in Ids, NEW cfg \in H!Cfgs, Creation(r, c, cfg), n = cfg.name PROVE Present(n)'
  BY <1>3, FreshNames
<1>4. ASSUME NEW c \in Ids, Loss(c), n = box[c].cfg.name PROVE FALSE  BY <1>4 DEF Loss
<1> QED  BY <1>1, <1>2, <1>3, <1>4, NamesGo, Zenon DEF Renamed

LEMMA NamesSteps == DockerInv /\ NamesInv /\ HostStep => NamesInv'
<1> SUFFICES ASSUME DockerInv, NamesInv, HostStep, NEW c \in Ids, NEW n \in Names,
                    box'[c].state = "gone", box'[c].cfg.name = n, n \notin cut' \cup taken' \cup renewed'
             PROVE  Present(n)'
  BY DEF NamesInv
<1>2. HostEvent /\ BoxAges /\ Given  BY DEF HostStep
<1>3. CASE box[c].state = "gone"
  <2>1. box[c].cfg.name = n  BY <1>2, <1>3 DEF BoxAges, DockerInv, HostShape
  <2>2. Present(n)  BY <1>2, <1>3, <2>1 DEF NamesInv, Given
  <2> QED  BY <1>2, <2>1, <2>2, PresentAfter
<1>4. ASSUME NEW r \in Reqs, Removal(r), c = job[r].id PROVE Present(n)'
  <2>1. box[c].cfg.name = job[r].cfg.name /\ box[c].state \in Alive
    BY <1>4 DEF Removal, DockerInv, HostShape, Fits, Placed
  <2>2. n = job[r].cfg.name  BY <1>2, <2>1 DEF BoxAges, DockerInv, HostShape, Alive
  <2> QED  BY <1>4, <2>2, RemovalNames
<1>5. CASE Loss(c)
  <2>1. box[c].cfg.name = n  BY <1>2, <1>5 DEF Loss, BoxAges, Alive
  <2> QED  BY <1>5, <2>1 DEF Loss
<1> QED  BY <1>2, <1>3, <1>4, <1>5, GoneAfter

\* What was attached is in every container there is or is to be.
BindsInv == \A n \in Names \ cut : Two(n) \/ \A k \in Cores(n) : bound[n] \subseteq k.binds

LEMMA BoundIs ==
    ASSUME DockerInv, HostEvent, NEW n \in Names
    PROVE  \/ bound'[n] = bound[n]
           \/ bound'[n] = {}
           \/ \E r \in Reqs : VolumeGiven(r) /\ n = job[r].cfg.name /\ bound'[n] = bound[n] \cup {job[r].arg}
<1> USE DEF DockerInv, HostShape
<1>1. CASE QuietStep  BY <1>1 DEF QuietStep, QuietHistory
<1>2. ASSUME NEW r \in Reqs, Snapshot(r) \/ Reconnected(r) \/ Removal(r) PROVE bound'[n] = bound[n]
  BY <1>2 DEF Snapshot, Reconnected, Removal
<1>3. ASSUME NEW r \in Reqs, VolumeGiven(r)
      PROVE bound'[n] = bound[n] \/ (n = job[r].cfg.name /\ bound'[n] = bound[n] \cup {job[r].arg})
  BY <1>3 DEF VolumeGiven
<1>4. ASSUME NEW r \in Reqs, NEW c \in Ids, Remake(r, c) PROVE bound'[n] = bound[n]  BY <1>4 DEF Remake
<1>5. ASSUME NEW r \in Reqs, NEW c \in Ids, NEW cfg \in H!Cfgs, Creation(r, c, cfg)
      PROVE bound'[n] = bound[n] \/ bound'[n] = {}
  BY <1>5 DEF Creation
<1>6. ASSUME NEW c \in Ids, Loss(c) PROVE bound'[n] = bound[n] \/ bound'[n] = {}  BY <1>6 DEF Loss
<1>7. ASSUME NEW c \in Ids, Networks(c) PROVE bound'[n] = bound[n]  BY <1>7 DEF Networks
<1> HIDE DEF DockerInv, HostShape
<1> QED  BY <1>1, <1>2, <1>3, <1>4, <1>5, <1>6, <1>7, Zenon DEF HostEvent

LEMMA BindsSteps == DockerInv /\ BindsInv /\ HostStep => BindsInv'
<1> SUFFICES ASSUME DockerInv, BindsInv, HostStep, NEW n \in Names, n \notin cut'
             PROVE  Two(n)' \/ \A k \in Cores(n)' : bound'[n] \subseteq k.binds
  BY DEF BindsInv
<1>1. HostEvent /\ Given  BY DEF HostStep
<1>2. Two(n) \/ \A k \in Cores(n) : bound[n] \subseteq k.binds  BY <1>1 DEF BindsInv, Given
<1>3. CASE bound'[n] = {}  BY <1>3
<1>4. ASSUME NEW r \in Reqs, VolumeGiven(r), n = job[r].cfg.name, bound'[n] = bound[n] \cup {job[r].arg}
      PROVE  Two(n)' \/ \A k \in Cores(n)' : bound'[n] \subseteq k.binds
  <2>1. Stays(n)  BY <1>4, VolumeGivenNames
  <2> DEFINE c == job[r].id
  <2>2. Fits(job[r], box) /\ job[r].pc = "start" /\ job[r].op = "bind" /\ c \in Ids /\ box[c].state \in Alive
    BY <1>4 DEF DockerInv, HostShape, VolumeGiven
  <2>3. box[c].cfg.name = n /\ Core(box[c].cfg) = Core(job[r].cfg) /\ job[r].arg \in job[r].cfg.binds
    BY <1>4, <2>2 DEF Fits, Placed, Shapes, RecreateOps
  <2>4. Bearers(n) = {c}  BY <2>2, <2>3 DEF Bearers, DockerInv, HostShape
  <2>5. Two(n) \/ Makers(n) = {}  BY <2>4 DEF Two
  <2>6. Makers(n) = {} => Cores(n) = {Core(job[r].cfg)}  BY <2>3, <2>4 DEF Cores
  <2>7. job[r].arg \in Core(job[r].cfg).binds  BY <2>3 DEF Core
  <2> QED  BY <1>2, <1>4, <2>1, <2>5, <2>6, <2>7 DEF Stays
<1>5. CASE bound'[n] = bound[n]
  <2>1. CASE Stays(n)  BY <1>2, <1>5, <2>1 DEF Stays
  <2>2. ASSUME NEW r \in Reqs, Removal(r), n = job[r].cfg.name
        PROVE  Two(n)' \/ \A k \in Cores(n)' : bound'[n] \subseteq k.binds
    BY <1>2, <1>5, <2>2, RemovalNames DEF Reworked
  <2>3. ASSUME NEW r \in Reqs, NEW c \in Ids, NEW cfg \in H!Cfgs, Creation(r, c, cfg), n = cfg.name
        PROVE  bound'[n] = {}
    BY <2>3 DEF Creation, DockerInv, HostShape
  <2>4. ASSUME NEW c \in Ids, Loss(c), n = box[c].cfg.name PROVE bound'[n] = {}
    BY <2>4 DEF Loss, DockerInv, HostShape
  <2> QED  BY <1>1, <1>3, <2>1, <2>2, <2>3, <2>4, NamesGo, Zenon DEF Renamed
<1> QED  BY <1>1, <1>3, <1>4, <1>5, BoundIs, Zenon

\* The networks a name has joined are those of its container, but while it is
\* being connected again, and of what recreations remember of it.
NetsHeld(n, nets) ==
    /\ \A c \in Bearers(n) :
          (\A r \in Reqs : ~(job[r].pc = "nets" /\ job[r].id = c)) => nets \subseteq box[c].cfg.nets
    /\ \A r \in Reqs : job[r].pc \in {"stop", "remove", "nets"} /\ job[r].id \in Bearers(n) => nets \subseteq job[r].cfg.nets
    /\ \A r \in Makers(n) : nets \subseteq job[r].cfg.nets
NetsInv == \A n \in Names \ (cut \cup raced) : Two(n) \/ NetsHeld(n, joined[n])

\* Steps of the requests that recreate nothing
NetsQuiet(n) ==
    /\ Bearers(n)' = Bearers(n) /\ \A c \in Bearers(n) : box[c].cfg.nets \subseteq box'[c].cfg.nets
    /\ Makers(n)' = Makers(n) /\ \A q \in Makers(n) : job'[q] = job[q]
    /\ \A q \in Reqs : /\ job'[q].pc \in {"stop", "remove"} =>
                            job[q].pc \in {"stop", "remove"} /\ job'[q].id = job[q].id /\ job'[q].cfg = job[q].cfg
                       /\ job'[q].pc = "nets" => job'[q] = job[q]
                       /\ job[q].pc = "nets" /\ job[q].id \in Bearers(n) => job'[q] = job[q]

LEMMA NetsQuietly ==
    ASSUME NEW n, NetsQuiet(n), NEW nets, NetsHeld(n, nets)
    PROVE  /\ \A c \in Bearers(n)' :
                 (\A r \in Reqs : ~(job'[r].pc = "nets" /\ job'[r].id = c)) => nets \subseteq box'[c].cfg.nets
           /\ \A r \in Reqs : job'[r].pc \in {"stop", "remove", "nets"} /\ job'[r].id \in Bearers(n)' =>
                                 nets \subseteq job'[r].cfg.nets
           /\ \A r \in Makers(n)' : nets \subseteq job'[r].cfg.nets
<1>1. ASSUME NEW c \in Bearers(n)', \A r \in Reqs : ~(job'[r].pc = "nets" /\ job'[r].id = c)
      PROVE nets \subseteq box'[c].cfg.nets
  <2>1. c \in Bearers(n) /\ box[c].cfg.nets \subseteq box'[c].cfg.nets  BY DEF NetsQuiet
  <2>2. \A r \in Reqs : ~(job[r].pc = "nets" /\ job[r].id = c)  BY <1>1, <2>1 DEF NetsQuiet
  <2> QED  BY <2>1, <2>2 DEF NetsHeld
<1>2. ASSUME NEW r \in Reqs, job'[r].pc \in {"stop", "remove", "nets"}, job'[r].id \in Bearers(n)'
      PROVE nets \subseteq job'[r].cfg.nets
  <2>1. job'[r].id = job[r].id /\ job'[r].cfg = job[r].cfg /\ job[r].pc \in {"stop", "remove", "nets"}
    BY <1>2 DEF NetsQuiet
  <2> QED  BY <1>2, <2>1 DEF NetsQuiet, NetsHeld
<1>3. \A r \in Makers(n)' : nets \subseteq job'[r].cfg.nets  BY DEF NetsQuiet, NetsHeld
<1> QED  BY <1>1, <1>2, <1>3

\* A step that leaves the requests to a name alone, or is of another name
LEMMA NetsOthers ==
    ASSUME DockerInv, NEW n \in Names, n \notin cut',
           Bearers(n)' = Bearers(n), \A c \in Bearers(n) : box[c].cfg.nets \subseteq box'[c].cfg.nets,
           Makers(n)' = Makers(n), \A q \in Makers(n) : job'[q] = job[q],
           \A q \in Reqs : QuietJob(job[q], job'[q])
    PROVE  NetsQuiet(n)
<1>1. ASSUME NEW q \in Reqs
      PROVE  /\ job'[q].pc \in {"stop", "remove"} =>
                  job[q].pc \in {"stop", "remove"} /\ job'[q].id = job[q].id /\ job'[q].cfg = job[q].cfg
             /\ job'[q].pc = "nets" => job'[q] = job[q]
             /\ job[q].pc = "nets" /\ job[q].id \in Bearers(n) => job'[q] = job[q]
  <2>1. Fits(job[q], box)  BY DEF DockerInv, HostShape
  <2>2. job[q].pc = "nets" /\ job[q].id \in Bearers(n) => job[q].cfg.name = n
    BY <2>1 DEF Fits, Placed, Bearers
  <2> QED  BY <2>2 DEF QuietJob
<1> QED  BY <1>1 DEF NetsQuiet

NetsStep(n) ==
    \/ Two(n)'
    \/ /\ \A c \in Bearers(n)' :
             (\A r \in Reqs : ~(job'[r].pc = "nets" /\ job'[r].id = c)) => joined'[n] \subseteq box'[c].cfg.nets
       /\ \A r \in Reqs : job'[r].pc \in {"stop", "remove", "nets"} /\ job'[r].id \in Bearers(n)' =>
                             joined'[n] \subseteq job'[r].cfg.nets
       /\ \A r \in Makers(n)' : joined'[n] \subseteq job'[r].cfg.nets

LEMMA QuietNets ==
    ASSUME DockerInv, QuietStep, NEW n \in Names, n \notin cut' PROVE NetsQuiet(n) /\ joined' = joined
<1>1. ASSUME NEW q \in Reqs
      PROVE  /\ Remaking(job[q]) /\ job[q].cfg.name = n => job'[q] = job[q]
             /\ Remaking(job'[q]) => job'[q] = job[q]
  BY DEF QuietStep, QuietJob
<1>2. Makers(n)' = Makers(n) /\ \A q \in Makers(n) : job'[q] = job[q]
  BY <1>1, MakersAfter DEF Makers
<1>3. Bearers(n)' = Bearers(n) /\ \A c \in Bearers(n) : box[c].cfg.nets \subseteq box'[c].cfg.nets
  BY DEF QuietStep, BoxStays, Bearers
<1> QED  BY <1>2, <1>3, NetsOthers DEF QuietStep, QuietHistory

LEMMA SnapshotNets ==
    ASSUME DockerInv, NEW r \in Reqs, Snapshot(r), NEW n \in Names, n \notin raced', NetsHeld(n, joined[n])
    PROVE  NetsStep(n)
<1> DEFINE c == job[r].id
           x == [job[r] EXCEPT !.pc = "stop", !.cfg = box[c].cfg]
<1>1. job[r] \in HostJobs  BY DEF DockerInv, HostShape
<1>2. \A q \in Reqs : job'[q] = IF q = r THEN x ELSE job[q]  BY DEF Snapshot, DockerInv, HostShape
<1>3. x.pc = "stop" /\ x.id = c /\ x.cfg = box[c].cfg  BY <1>1 DEF HostJobs
<1> HIDE DEF x
<1>4. ~Remaking(job[r]) /\ ~Remaking(x)  BY <1>3 DEF Snapshot, Remaking
<1>5. Makers(n)' = Makers(n) /\ \A q \in Makers(n) : job'[q] = job[q]
  BY <1>2, <1>4, MakersAfter DEF Makers
<1>6. Bearers(n)' = Bearers(n) /\ box' = box /\ joined' = joined  BY DEF Snapshot, Bearers
<1>7. job[r].pc = "inspect"  BY DEF Snapshot
<1>8. ASSUME c \in Bearers(n) PROVE joined[n] \subseteq box[c].cfg.nets
  <2>1. \A q \in Reqs : job[q].pc = "nets" /\ job[q].id = c => job[q].cfg.name = n
    BY <1>8 DEF DockerInv, HostShape, Fits, Placed, Bearers
  <2>2. \A q \in Reqs : ~(job[q].pc = "nets" /\ job[q].id = c)  BY <2>1 DEF Snapshot
  <2> QED  BY <1>8, <2>2 DEF NetsHeld
<1>9. \A d \in Bearers(n) : (\A q \in Reqs : ~(job'[q].pc = "nets" /\ job'[q].id = d)) => joined[n] \subseteq box[d].cfg.nets
  BY <1>2, <1>3, <1>7 DEF NetsHeld
<1>10. \A q \in Reqs : job'[q].pc \in {"stop", "remove", "nets"} /\ job'[q].id \in Bearers(n) => joined[n] \subseteq job'[q].cfg.nets
  BY <1>2, <1>3, <1>8 DEF NetsHeld
<1>11. \A q \in Makers(n) : joined[n] \subseteq job'[q].cfg.nets  BY <1>5 DEF NetsHeld
<1> QED  BY <1>5, <1>6, <1>9, <1>10, <1>11 DEF NetsStep

LEMMA ReconnectedNets ==
    ASSUME DockerInv, NEW r \in Reqs, Reconnected(r), NEW n \in Names, NetsHeld(n, joined[n])
    PROVE  NetsStep(n)
<1> DEFINE x == [job[r] EXCEPT !.pc = "start"]
<1>1. job[r] \in HostJobs  BY DEF DockerInv, HostShape
<1>2. \A q \in Reqs : job'[q] = IF q = r THEN x ELSE job[q]  BY DEF Reconnected, DockerInv, HostShape
<1>3. x.pc = "start"  BY <1>1 DEF HostJobs
<1> HIDE DEF x
<1>4. ~Remaking(job[r]) /\ ~Remaking(x)  BY <1>3 DEF Reconnected, Remaking
<1>5. Makers(n)' = Makers(n) /\ \A q \in Makers(n) : job'[q] = job[q]
  BY <1>2, <1>4, MakersAfter DEF Makers
<1>6. Bearers(n)' = Bearers(n) /\ box' = box /\ joined' = joined  BY DEF Reconnected, Bearers
<1>7. ASSUME NEW d \in Bearers(n), \A q \in Reqs : ~(job'[q].pc = "nets" /\ job'[q].id = d)
      PROVE  joined[n] \subseteq box[d].cfg.nets
  <2>1. CASE job[r].id = d
    <3>1. joined[n] \subseteq job[r].cfg.nets  BY <2>1 DEF NetsHeld, Reconnected
    <3> QED  BY <2>1, <3>1 DEF Reconnected
  <2>2. CASE job[r].id # d  BY <1>2, <1>7, <2>2 DEF NetsHeld
  <2> QED  BY <2>1, <2>2
<1>8. \A q \in Reqs : job'[q].pc \in {"stop", "remove", "nets"} /\ job'[q].id \in Bearers(n) => joined[n] \subseteq job'[q].cfg.nets
  BY <1>2, <1>3 DEF NetsHeld
<1>9. \A q \in Makers(n) : joined[n] \subseteq job'[q].cfg.nets  BY <1>5 DEF NetsHeld
<1> QED  BY <1>5, <1>6, <1>7, <1>8, <1>9 DEF NetsStep

LEMMA RemovalNets ==
    ASSUME DockerInv, NEW r \in Reqs, Removal(r), NEW n \in Names, NetsHeld(n, joined[n])
    PROVE  NetsStep(n)
<1> DEFINE c == job[r].id
<1>1. Fits(job[r], box) /\ job[r] \in HostJobs /\ job[r].pc = "remove" /\ c \in Ids /\ box[c].state \in Alive
      /\ joined' = joined
  BY DEF DockerInv, HostShape, Removal
<1>2. box[c].cfg.name = job[r].cfg.name  BY <1>1 DEF Fits, Placed
<1>3. \A q \in Reqs \ {r} : job'[q] = job[q]  BY DEF DockerInv, HostShape, Removal
<1>4. CASE n = job[r].cfg.name
  <2>1. /\ Bearers(n) = {c} /\ Bearers(n)' = {} /\ Makers(n)' = Makers(n) \cup {r}
        /\ \A q \in Makers(n) : job'[q] = job[q]
        /\ job'[r].cfg.nets = job[r].cfg.nets
    BY <1>4, RemovalNames
  <2>2. joined[n] \subseteq job[r].cfg.nets  BY <1>1, <2>1 DEF NetsHeld
  <2>3. \A q \in Makers(n)' : joined[n] \subseteq job'[q].cfg.nets  BY <2>1, <2>2 DEF NetsHeld
  <2> QED  BY <1>1, <2>1, <2>3 DEF NetsStep
<1>5. CASE n # job[r].cfg.name
  <2>1. box'[c].state = "gone" /\ \A d \in Ids \ {c} : box'[d] = box[d]  BY <1>1, OneEnds DEF Removal
  <2>2. Bearers(n)' = Bearers(n) /\ c \notin Bearers(n) /\ \A d \in Bearers(n) : box'[d] = box[d]
    BY <1>2, <1>5, <2>1 DEF Bearers, Alive
  <2>3. job'[r].pc = "make" /\ job'[r].cfg.name = job[r].cfg.name
    <3>1. job'[r] = [job[r] EXCEPT !.pc = "make", !.cfg = H!Edited(r)]  BY DEF Removal, DockerInv, HostShape
    <3>2. /\ job[r].cfg \in H!Cfgs /\ (job[r].op = "bind" => job[r].arg \in Volumes)
          /\ job[r].op = "label" => job[r].arg \in Domains
      BY <1>1 DEF Fits, Concerns, HostJobs
    <3>3. H!Edited(r).name = job[r].cfg.name  BY <3>2, EditedIs
    <3> QED  BY <1>1, <3>1, <3>3 DEF HostJobs
  <2>4. ~Remaking(job[r])  BY <1>1 DEF Remaking
  <2>5. Makers(n)' = Makers(n) /\ r \notin Makers(n)  BY <1>3, <1>5, <2>3, <2>4, MakersAfter DEF Makers
  <2>6. \A d \in Bearers(n) : (\A q \in Reqs : ~(job'[q].pc = "nets" /\ job'[q].id = d)) => joined[n] \subseteq box[d].cfg.nets
    BY <1>1, <1>3 DEF NetsHeld
  <2>7. \A q \in Reqs : job'[q].pc \in {"stop", "remove", "nets"} /\ job'[q].id \in Bearers(n) => joined[n] \subseteq job'[q].cfg.nets
    BY <1>3, <2>3 DEF NetsHeld
  <2>8. \A q \in Makers(n) : joined[n] \subseteq job'[q].cfg.nets  BY <1>3, <2>5 DEF NetsHeld, Makers
  <2> QED  BY <1>1, <2>2, <2>5, <2>6, <2>7, <2>8 DEF NetsStep
<1> QED  BY <1>4, <1>5

\* Nothing works on a container that is not there yet.
LEMMA NoneWorks ==
    ASSUME DockerInv, NEW c \in Ids, box[c].state = "none" PROVE \A q \in Reqs : job[q].id # c
BY DEF DockerInv, HostShape, Fits, Placed

LEMMA RemakeNets ==
    ASSUME DockerInv, NEW r \in Reqs, NEW c \in Ids, Remake(r, c), NEW n \in Names, NetsHeld(n, joined[n])
    PROVE  NetsStep(n)
<1> DEFINE cfg == [job[r].cfg EXCEPT !.nets = {}]
           x == [job[r] EXCEPT !.pc = "nets", !.id = c]
<1>1. job[r] \in HostJobs /\ job[r].cfg \in H!Cfgs /\ Remaking(job[r]) /\ joined' = joined
  BY DEF DockerInv, HostShape, Remake, HostJobs
<1>2. \A q \in Reqs : job'[q] = IF q = r THEN x ELSE job[q]  BY DEF DockerInv, HostShape, Remake
<1>3. x.pc = "nets" /\ x.id = c /\ x.cfg = job[r].cfg /\ ~Remaking(x)  BY <1>1 DEF Remaking, HostJobs
<1>4. cfg.name = job[r].cfg.name  BY <1>1 DEF H!Cfgs
<1>5. \A d \in Ids : box'[d] = IF d = c THEN [state |-> "created", cfg |-> cfg] ELSE box[d]
  BY DEF DockerInv, HostShape, Remake
<1> HIDE DEF cfg, x
<1>6. \A q \in Reqs : job[q].id # c  BY NoneWorks DEF Remake
<1>7. Makers(n)' = Makers(n) \ {r} /\ \A q \in Makers(n)' : job'[q] = job[q]
  BY <1>2, <1>3, MakersAfter DEF Makers
<1>8. \A q \in Makers(n)' : joined[n] \subseteq job'[q].cfg.nets  BY <1>7 DEF NetsHeld
<1>9. Bearers(n)' = IF n = job[r].cfg.name THEN Bearers(n) \cup {c} ELSE Bearers(n)
  BY <1>4, <1>5 DEF Bearers, Alive, Remake
<1>10. ASSUME NEW d \in Bearers(n)', \A q \in Reqs : ~(job'[q].pc = "nets" /\ job'[q].id = d)
       PROVE  joined[n] \subseteq box'[d].cfg.nets
  <2>1. d # c /\ d \in Bearers(n) /\ d \in Ids  BY <1>2, <1>3, <1>9, <1>10 DEF Bearers
  <2>2. \A q \in Reqs : ~(job[q].pc = "nets" /\ job[q].id = d)
    BY <1>1, <1>2, <1>10, <2>1 DEF Remaking
  <2> QED  BY <1>5, <2>1, <2>2 DEF NetsHeld
<1>11. ASSUME NEW q \in Reqs, job'[q].pc \in {"stop", "remove", "nets"}, job'[q].id \in Bearers(n)'
       PROVE  joined[n] \subseteq job'[q].cfg.nets
  <2>1. CASE q = r
    <3>1. n = job[r].cfg.name
      <4>1. c \notin Bearers(n)  BY DEF Bearers, Alive, Remake
      <4> QED  BY <1>2, <1>3, <1>9, <1>11, <2>1, <4>1
    <3>2. r \in Makers(n)  BY <1>1, <3>1 DEF Makers
    <3> QED  BY <1>2, <1>3, <2>1, <3>2 DEF NetsHeld
  <2>2. CASE q # r
    <3>1. job'[q] = job[q] /\ job[q].id \in Bearers(n)  BY <1>2, <1>6, <1>9, <1>11, <2>2
    <3> QED  BY <1>11, <3>1 DEF NetsHeld
  <2> QED  BY <2>1, <2>2
<1> QED  BY <1>1, <1>8, <1>10, <1>11 DEF NetsStep

LEMMA GivenNets ==
    ASSUME DockerInv, NEW r \in Reqs, VolumeGiven(r), NEW n \in Names, n \notin cut'
    PROVE  NetsQuiet(n) /\ joined' = joined
<1>1. ~Remaking(job[r]) /\ ~Remaking(NoJob)  BY DEF VolumeGiven, Remaking, NoJob
<1>2. Makers(n)' = Makers(n) /\ \A q \in Makers(n) : job'[q] = job[q]  BY <1>1, JobMakers DEF VolumeGiven
<1>3. BoxStays  BY StateStays DEF VolumeGiven, Alive
<1>4. Bearers(n)' = Bearers(n) /\ \A c \in Bearers(n) : box[c].cfg.nets \subseteq box'[c].cfg.nets
  BY <1>3 DEF BoxStays, Bearers
<1>5. QuietJob(job[r], NoJob)  BY <1>1 DEF QuietJob, NoJob, Remaking, VolumeGiven
<1>6. \A q \in Reqs : QuietJob(job[q], job'[q])
  BY <1>5 DEF VolumeGiven, QuietJob, DockerInv, HostShape
<1> QED  BY <1>2, <1>4, <1>6, NetsOthers DEF VolumeGiven

LEMMA FreshNets ==
    ASSUME DockerInv, NEW r \in Reqs, NEW c \in Ids, NEW cfg \in H!Cfgs, Creation(r, c, cfg), NEW n \in Names,
           n \notin cut', NetsHeld(n, joined[n])
    PROVE  NetsStep(n)
<1>1. CASE n = cfg.name
  <2>1. joined'[n] = {}  BY <1>1 DEF Creation, DockerInv, HostShape
  <2> QED  BY <2>1 DEF NetsStep
<1>2. CASE n # cfg.name
  <2> DEFINE x == [job[r] EXCEPT !.pc = "start", !.id = c]
  <2>1. job[r] \in HostJobs /\ job[r].op \in {"create", "enable"} \cup RedeployOps /\ Bearers(cfg.name) = {}
        /\ box[c].state = "none" /\ job[r].pc \in {"make", "create"}
    BY DEF DockerInv, HostShape, Creation
  <2>2. job' = [job EXCEPT ![r] = x]  BY DEF DockerInv, HostShape, Creation
  <2>3. x.pc = "start" /\ ~Remaking(job[r]) /\ ~Remaking(x)
    BY <2>1 DEF Remaking, RecreateOps, RedeployOps, HostJobs
  <2> HIDE DEF x
  <2>4. Makers(n)' = Makers(n) /\ \A q \in Makers(n) : job'[q] = job[q]  BY <2>2, <2>3, JobMakers
  <2>5. \A d \in Ids : box'[d] = IF d = c THEN [state |-> "created", cfg |-> cfg] ELSE box[d]
    BY DEF DockerInv, HostShape, Creation
  <2>6. Bearers(n)' = Bearers(n) /\ \A d \in Bearers(n) : box'[d] = box[d]
    BY <1>2, <2>1, <2>5 DEF Bearers, Alive
  <2>7. \A q \in Reqs : QuietJob(job[q], job'[q])
    BY <2>1, <2>2, <2>3 DEF QuietJob, DockerInv, HostShape
  <2>8. NetsQuiet(n)  BY <2>4, <2>6, <2>7, NetsOthers
  <2>9. joined'[n] = joined[n]  BY <1>2 DEF Creation, DockerInv, HostShape
  <2> QED  BY <2>8, <2>9, NetsQuietly DEF NetsStep
<1> QED  BY <1>1, <1>2

LEMMA LossNets ==
    ASSUME DockerInv, NEW c \in Ids, Loss(c), NEW n \in Names, n \notin cut', NetsHeld(n, joined[n])
    PROVE  NetsStep(n)
<1>1. CASE n = box[c].cfg.name
  <2>1. joined'[n] = {}  BY <1>1 DEF Loss, DockerInv, HostShape
  <2> QED  BY <2>1 DEF NetsStep
<1>2. CASE n # box[c].cfg.name
  <2>1. box'[c].state = "gone" /\ \A d \in Ids : d # c => box'[d] = box[d]  BY OneEnds DEF Loss
  <2>2. Bearers(n)' = Bearers(n) /\ \A d \in Bearers(n) : box'[d] = box[d]
    BY <1>2, <2>1 DEF Bearers, Alive
  <2>3. Makers(n)' = Makers(n) /\ \A q \in Makers(n) : job'[q] = job[q]
    BY MakersAfter DEF Loss, Makers, Remaking
  <2>4. \A q \in Reqs : QuietJob(job[q], job'[q])  BY DEF Loss, QuietJob, Remaking
  <2>5. NetsQuiet(n)  BY <2>2, <2>3, <2>4, NetsOthers
  <2>6. joined'[n] = joined[n]  BY <1>2 DEF Loss, DockerInv, HostShape
  <2> QED  BY <2>5, <2>6, NetsQuietly DEF NetsStep
<1> QED  BY <1>1, <1>2

LEMMA NetworksNets ==
    ASSUME DockerInv, NEW c \in Ids, Networks(c), NEW n \in Names, n \notin raced', NetsHeld(n, joined[n])
    PROVE  NetsStep(n)
<1> DEFINE m == box[c].cfg.name
<1>1. /\ job' = job /\ c \in Ids /\ box[c].state \in Alive /\ m \in Names
      /\ \A d \in Ids : /\ box'[d].state = box[d].state /\ box'[d].cfg.name = box[d].cfg.name
                        /\ d # c => box'[d] = box[d]
  BY NetworksIs DEF Networks, DockerInv, HostShape, Alive
<1>2. PICK v \in Nets : \/ /\ joined' = [joined EXCEPT ![m] = @ \cup {v}]
                           /\ box'[c].cfg.nets = box[c].cfg.nets \cup {v}
                        \/ /\ joined' = [joined EXCEPT ![m] = @ \ {v}]
                           /\ box'[c].cfg.nets = box[c].cfg.nets \ {v}
  BY NetworksIs
<1>3. Bearers(n)' = Bearers(n) /\ Makers(n)' = Makers(n)  BY <1>1 DEF Bearers, Makers, Remaking
<1>4. CASE n = m
  <2>1. Bearers(n) = {c}  BY <1>1, <1>4 DEF Bearers, DockerInv, HostShape
  <2>2. ~H!Recreating(c)  BY <1>4 DEF Networks
  <2>3. \A q \in Reqs : ~(job[q].pc \in {"stop", "remove", "nets"} /\ job[q].id = c)  BY <2>2 DEF H!Recreating
  <2>4. CASE Makers(n) # {}  BY <1>3, <2>1, <2>4 DEF NetsStep, Two
  <2>5. CASE Makers(n) = {}
    <3>1. joined[n] \subseteq box[c].cfg.nets  BY <2>1, <2>3 DEF NetsHeld
    <3>2. joined'[n] \subseteq box'[c].cfg.nets  BY <1>1, <1>2, <1>4, <3>1 DEF DockerInv, HostShape
    <3> QED  BY <1>1, <1>3, <2>1, <2>3, <2>5, <3>2 DEF NetsStep
  <2> QED  BY <2>4, <2>5
<1>5. CASE n # m
  <2>1. joined'[n] = joined[n]  BY <1>1, <1>2, <1>5 DEF DockerInv, HostShape
  <2>2. c \notin Bearers(n) /\ \A d \in Bearers(n) : box'[d] = box[d]  BY <1>1, <1>5 DEF Bearers
  <2> QED  BY <1>1, <1>3, <2>1, <2>2 DEF NetsStep, NetsHeld
<1> QED  BY <1>4, <1>5

LEMMA NetsSteps == DockerInv /\ NetsInv /\ HostStep => NetsInv'
<1> SUFFICES ASSUME DockerInv, NetsInv, HostStep, NEW n \in Names, n \notin cut', n \notin raced' PROVE NetsStep(n)
  BY DEF NetsInv, NetsStep, NetsHeld
<1>1. HostEvent /\ Given  BY DEF HostStep
<1>2. CASE Two(n)
  <2>1. CASE Stays(n)  BY <1>2, <2>1 DEF Stays, NetsStep
  <2>2. ASSUME NEW r \in Reqs, Removal(r), n = job[r].cfg.name PROVE Two(n)'  BY <1>2, <2>2, RemovalNames
  <2>3. ASSUME NEW r \in Reqs, NEW c \in Ids, NEW cfg \in H!Cfgs, Creation(r, c, cfg), n = cfg.name PROVE Two(n)'
    BY <1>2, <2>3, FreshNames
  <2>4. ASSUME NEW c \in Ids, Loss(c), n = box[c].cfg.name PROVE NetsStep(n)
    <3>1. joined'[n] = {}  BY <2>4 DEF Loss, DockerInv, HostShape
    <3> QED  BY <3>1 DEF NetsStep
  <2>5. Two(n)' => NetsStep(n)  BY DEF NetsStep
  <2> QED  BY <1>1, <2>1, <2>2, <2>3, <2>4, <2>5, NamesGo, Zenon DEF Renamed
<1>3. CASE NetsHeld(n, joined[n])
  <2>1. CASE QuietStep
    <3>1. NetsQuiet(n) /\ joined' = joined  BY <2>1, QuietNets
    <3> QED  BY <1>3, <3>1, NetsQuietly DEF NetsStep
  <2>2. ASSUME NEW r \in Reqs, VolumeGiven(r) PROVE NetsStep(n)
    <3>1. NetsQuiet(n) /\ joined' = joined  BY <2>2, GivenNets
    <3> QED  BY <1>3, <3>1, NetsQuietly DEF NetsStep
  <2>3. ASSUME NEW r \in Reqs, Snapshot(r) \/ Reconnected(r) \/ Removal(r) PROVE NetsStep(n)
    BY <1>3, <2>3, SnapshotNets, ReconnectedNets, RemovalNets
  <2>4. ASSUME NEW r \in Reqs, NEW c \in Ids, Remake(r, c) PROVE NetsStep(n)  BY <1>3, <2>4, RemakeNets
  <2>5. ASSUME NEW r \in Reqs, NEW c \in Ids, NEW cfg \in H!Cfgs, Creation(r, c, cfg) PROVE NetsStep(n)
    BY <1>3, <2>5, FreshNets
  <2>6. ASSUME NEW c \in Ids, Loss(c) \/ Networks(c) PROVE NetsStep(n)  BY <1>3, <2>6, LossNets, NetworksNets
  <2> QED  BY <1>1, <2>1, <2>2, <2>3, <2>4, <2>5, <2>6, Zenon DEF HostEvent
<1> QED  BY <1>1, <1>2, <1>3 DEF NetsInv, Given

ContainersInv == DockerInv /\ NamesInv /\ BindsInv /\ NetsInv

LEMMA ContainersInitially == PagesInit => ContainersInv
<1> SUFFICES ASSUME PagesInit PROVE ContainersInv  OBVIOUS
<1>1. DockerInv  BY DockerInitially
<1>2. \E d \in Domains \cup {None} : H!HostInit(App, d)
  <2>1. (CHOOSE e \in Domains : TRUE) \in Domains  BY DockerConstants
  <2> QED  BY <2>1, Zenon DEF PagesInit
<1>3. PICK d \in Domains \cup {None} : H!HostInit(App, d)  BY <1>2
<1>4. /\ \A c \in Ids : box[c].state # "gone"
      /\ bound = [m \in Names |-> {}] /\ joined = [m \in Names |-> {}]
  BY <1>3 DEF H!HostInit
<1> QED  BY <1>1, <1>4 DEF ContainersInv, NamesInv, BindsInv, NetsInv, NetsHeld

LEMMA ContainersSteps == ContainersInv /\ [PagesNext \/ PagesDropped]_pagesVars => ContainersInv'
BY DockerMovesOnly, HostSteps, DockerSteps, NamesSteps, BindsSteps, NetsSteps, Zenon DEF ContainersInv

\* Who makes a container again also is about to create it.
LEMMA MakersMake == \A n : Makers(n) # {} => H!BeingMade(n)
BY DEF Makers, Remaking, H!BeingMade

LEMMA ContainersHold == ContainersInv => H!BindsKept /\ H!NetsKept /\ H!NamesStay
<1> SUFFICES ASSUME ContainersInv PROVE H!BindsKept /\ H!NetsKept /\ H!NamesStay  OBVIOUS
<1>1. ASSUME NEW c \in Ids, H!Exists(c)
      PROVE  c \in Bearers(box[c].cfg.name) /\ box[c].cfg.name \in Names
  BY <1>1, ExistsIs DEF ContainersInv, DockerInv, HostShape, Bearers, Alive
<1>2. H!BindsKept
  <2> SUFFICES ASSUME NEW c \in Ids, H!Exists(c), box[c].cfg.name \notin cut, ~H!BeingMade(box[c].cfg.name)
               PROVE  bound[box[c].cfg.name] \subseteq box[c].cfg.binds
    BY DEF H!BindsKept
  <2>1. ~Two(box[c].cfg.name)  BY MakersMake DEF Two
  <2>2. Core(box[c].cfg) \in Cores(box[c].cfg.name)  BY <1>1, CoreIn
  <2> QED  BY <1>1, <2>1, <2>2 DEF ContainersInv, BindsInv, Core
<1>3. H!NetsKept
  <2> SUFFICES ASSUME NEW c \in Ids, H!Exists(c), box[c].cfg.name \notin cut \cup raced, ~H!Recreating(c),
                      ~H!BeingMade(box[c].cfg.name)
               PROVE  joined[box[c].cfg.name] \subseteq box[c].cfg.nets
    BY DEF H!NetsKept
  <2>1. ~Two(box[c].cfg.name)  BY MakersMake DEF Two
  <2>2. \A r \in Reqs : ~(job[r].pc = "nets" /\ job[r].id = c)  BY DEF H!Recreating
  <2> QED  BY <1>1, <2>1, <2>2 DEF ContainersInv, NetsInv, NetsHeld
<1>4. H!NamesStay
  <2> SUFFICES ASSUME NEW c \in Ids, box[c].state = "gone", box[c].cfg.name \notin cut \cup taken \cup renewed,
                      ~H!BeingMade(box[c].cfg.name)
               PROVE  H!HolderOf(box[c].cfg.name) # None
    BY DEF H!NamesStay
  <2>1. box[c].cfg.name \in Names  BY DEF ContainersInv, DockerInv, HostShape
  <2>2. Bearers(box[c].cfg.name) # {}  BY <2>1, MakersMake DEF ContainersInv, NamesInv, Present
  <2> QED  BY <2>2, HolderIs, DockerConstants DEF ContainersInv
<1> QED  BY <1>2, <1>3, <1>4

\* However recreations by hand, by a route and by a redeploy interleave, fail
\* and are cut off, a container keeps its binds, its networks and its name.
THEOREM RecreationKeepsContainers == PagesSpec => []ContainersKept
<1>1. PagesSpec => []ContainersInv  BY ContainersInitially, ContainersSteps, PTL DEF PagesSpec
<1>2. ContainersInv => ContainersKept  BY ContainersHold DEF ContainersKept
<1> QED  BY <1>1, <1>2, PTL
=============================================================================

------------------------------ MODULE HostPages ------------------------------
(***************************************************************************)
(* The pages that create, change and remove the containers of the Docker   *)
(* host: the list of containers, the page of one, the routes and their     *)
(* proxy, and the git deployments.  They work on the same containers.      *)
(*                                                                         *)
(* A behaviour follows the parts of one scenario, which share its budget   *)
(* of requests and faults.  What else the one process does (Operations)    *)
(* may use up the budget, but leaves the containers alone.                 *)
(***************************************************************************)
EXTENDS Integers, FiniteSets, Sequences

CONSTANTS
    None,
    Ids, Names, Volumes, Nets, Managed, Reqs,   \* of HostContainers
    Proxy, Domains, SafeName, Outside,          \* of ProxyRoutes
    Deployments, Sources, NameOf, TagOf,        \* of GitDeployments
    App,        \* the container that runs at first
    Scenarios,  \* [parts, budget]: the parts followed, and their budget
    Budget      \* the largest of these budgets

VARIABLES
    box, job, bound, joined, cut, raced, taken, renewed, remade,            \* HostContainers
    route, held, file, setting, stray, crossed, displaced, loose,           \* ProxyRoutes
    head, dep, fetched, dir, image, shipped, overlapped, broken,            \* GitDeployments
    focus,      \* the parts of the scenario
    budget

hostVars == <<box, job, bound, joined, cut, raced, taken, renewed, remade>>
routeVars == <<route, held, file, setting, stray, crossed, displaced, loose>>
gitVars == <<head, dep, fetched, dir, image, shipped, overlapped, broken>>
pagesVars == <<hostVars, routeVars, gitVars>>

H == INSTANCE HostContainers WITH active <- "host" \in focus, rest <- <<routeVars, gitVars, focus>>
R == INSTANCE ProxyRoutes WITH active <- "routes" \in focus, proxying <- "proxy" \in focus,
        rest <- <<gitVars, focus>>
G == INSTANCE GitDeployments WITH active <- "git" \in focus, rest <- <<routeVars, focus>>

ASSUME PagesAssumption ==
    /\ H!HostAssumption /\ R!RouteAssumption /\ G!GitAssumption
    /\ App \in Names \ {Proxy}

-----------------------------------------------------------------------------
PagesInit ==
    /\ \E s \in Scenarios : focus = s.parts /\ budget = s.budget
    /\ \E d \in {None} \cup (IF {"host", "routes"} \subseteq focus THEN {CHOOSE d \in Domains : TRUE} ELSE {}) :
          H!HostInit(App, d) /\ R!RouteInit(App, d)
    /\ G!GitInit

\* The list of containers and the page of one of them
Containers ==
    \/ \E r \in Reqs, n \in Names : H!CreateContainerFromImage(r, n)
    \/ \E c \in Ids : H!RemoveContainer(c) \/ H!StartStop(c)

ContainerPage ==
    \/ \E r \in Reqs : H!Recreation(r) \/ H!Abandon(r) \/ \E c \in Ids : H!Recreate(r, c)
    \/ \E c \in Ids, n \in Nets : H!ConnectNetwork(c, n) \/ H!DisconnectNetwork(c, n)

Routes ==
    \E r \in Reqs :
        \/ \E d \in Domains, n \in {App, None}, label \in BOOLEAN : R!CreateProxyRoute(r, d, n, label)
        \/ \E d \in Domains : R!DeleteProxyRoute(r, d)
        \/ R!Attach(r) \/ R!Insert(r) \/ R!WriteDynamicConfig(r) \/ R!FindTarget(r) \/ R!Undo(r) \/ R!Done(r)
        \/ R!DeleteRow(r) \/ R!RemoveDynamicConfig(r) \/ R!RouteAbandon(r)

ProxyPage ==
    \E r \in Reqs :
        \/ R!EnableTraefik(r) \/ R!WaitHealthy(r) \/ R!Record(r)
        \/ R!DisableTraefik(r) \/ R!ReadId(r) \/ R!RemoveProxy(r) \/ R!Clear(r)

Redeploys ==
    \/ \E r \in Reqs, g \in Deployments : G!CreateGitDeployment(r, g) \/ G!RedeployNow(r, g) \/ G!Webhook(r, g)
    \/ \E r \in Reqs :
          \/ G!Clean(r) \/ G!Clone(r) \/ G!WriteFiles(r) \/ G!RunBuild(r) \/ G!FindOld(r) \/ G!RemoveOld(r)
          \/ G!CreateNew(r) \/ G!RecordDeployment(r) \/ G!GitAbandon(r)
    \/ \E g \in Deployments : G!DeleteGitDeployment(g)

PagesNext == Containers \/ ContainerPage \/ Routes \/ ProxyPage \/ Redeploys

\* The process ends, and every request with it.
PagesDropped == H!HostDropped /\ R!RoutesDropped /\ G!GitDropped

PagesSpec == PagesInit /\ [][PagesNext \/ PagesDropped]_pagesVars

-----------------------------------------------------------------------------
(* What has to hold of the containers *)

\* A part that is not followed stays as it began.
PagesTypeOK ==
    /\ "host" \in focus => H!HostTypeOK
    /\ {"routes", "proxy"} \cap focus # {} => R!RouteTypeOK
    /\ "git" \in focus => G!GitTypeOK

\* Recreating a container (new environment, volume or labels) costs it neither
\* its binds nor its networks nor its name.
ContainersKept == H!BindsKept /\ H!NetsKept /\ H!NamesStay

\* The table of routes is what Traefik serves, and the proxy in the settings runs.
RoutesAgree == R!ListedIsServed /\ R!ServedIsListed /\ R!ProxyKnown
=============================================================================

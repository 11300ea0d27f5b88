------------------------------- MODULE Adoption -------------------------------
(***************************************************************************)
(* Servers the platform did not create (internal/server/discovery.go): the *)
(* page lists the containers that look like PostgreSQL and are not known,  *)
(* and an administrator registers one of them with its credentials.  From  *)
(* then on the row is a server like any other, and deleting it removes the *)
(* container, with its volume if that is asked.                            *)
(*                                                                         *)
(* The page is read once, and registering asks nobody again whether the    *)
(* container is still unknown; only the name and the port of a row are     *)
(* unique.  The Docker page, meanwhile, may stop, remove or recreate it.   *)
(***************************************************************************)
EXTENDS Integers, FiniteSetsExt

CONSTANTS
    Boxes,      \* container ids
    Found,      \* the containers at first: [kind, port, volume]; port 0: none is published
    Labels,     \* names of servers
    Adopters,   \* requests in flight together
    PortStart, PortEnd, \* portRangeStart, portRangeEnd
    None, Budget

AdoptionAssumption ==
    /\ PortStart \in Nat \ {0} /\ PortEnd \in Nat /\ Budget \in Nat /\ None \notin Boxes \cup Labels
    /\ DOMAIN Found \subseteq Boxes
    /\ \A c \in DOMAIN Found : Found[c].kind \in {"postgres", "own", "app"} /\ Found[c].port \in 0 .. PortEnd

VARIABLES
    host,       \* Docker: containers by id
    data,       \* Docker: the volumes that exist
    servers,    \* rows: name, container, port
    page,       \* containers the page shows
    adopt,      \* requests: next call, container or row, name, port, keep the volume
    stale,      \* history: containers that became known since the page was read
    doubled,    \* history: containers whose registration began on a stale page, or with another under way
    deleted,    \* history: containers whose row was deleted
    unwanted,   \* history: volumes a deletion was asked to remove
    active, rest, budget

adoptionVars == <<host, data, servers, page, adopt, stale, doubled, deleted, unwanted>>
Elsewhere == UNCHANGED <<rest, active>>

Ports == 0 .. PortEnd
Disks == {Found[c].volume : c \in DOMAIN Found}
ServerRows == [name : Labels, id : Boxes, port : Ports]
NoAdoption == [pc |-> "idle", id |-> None, name |-> None, port |-> 0, net |-> FALSE, keep |-> TRUE]
NoBox == [state |-> "none", kind |-> "app", port |-> 0, volume |-> None, net |-> FALSE]

AdoptionTypeOK ==
    /\ host \in [Boxes -> [state : {"none", "running", "exited"}, kind : {"postgres", "own", "app"},
                           port : Ports, volume : Disks \cup {None}, net : BOOLEAN]]
    /\ data \subseteq Disks /\ unwanted \subseteq Disks
    /\ servers \subseteq ServerRows
    /\ \A boxes \in {page, stale, doubled, deleted} : boxes \subseteq Boxes
    /\ adopt \in [Adopters -> [pc : {"idle", "inspect", "join", "login", "port", "insert", "remove", "volume", "unrow"},
                               id : Boxes \cup {None}, name : Labels \cup {None}, port : Ports,
                               net : BOOLEAN, keep : BOOLEAN]]

-----------------------------------------------------------------------------
Charged == budget > 0 /\ budget' = budget - 1
Keep == UNCHANGED budget

\* A slot for the next request: slots are interchangeable.
Ready(a) == adopt[a].pc = "idle" /\ a = CHOOSE b \in Adopters : adopt[b].pc = "idle"
Exists(c) == host[c].state # "none"
Known == {s.id : s \in servers}
Goes(a, pc) == adopt' = [adopt EXCEPT ![a].pc = pc]
Ends(a) == adopt' = [adopt EXCEPT ![a] = NoAdoption]
Kept == UNCHANGED <<servers, page, stale, doubled, deleted, unwanted>>

\* By the name of the image, or a port 5432
LooksLikePostgres(c) == host[c].kind \in {"postgres", "own"}

\* Mutant: the containers of registered servers are listed too.
DiscoverContainers_KnownToo ==
    /\ active /\ Charged
    /\ page' = {c \in Boxes : Exists(c) /\ host[c].kind # "own" /\ LooksLikePostgres(c)}
    /\ stale' = {}
    /\ UNCHANGED <<host, data, servers, adopt, doubled, deleted, unwanted>> /\ Elsewhere

\* DiscoverContainers: not the known ones, nor the platform's own
DiscoverContainers ==
    /\ active /\ Charged
    /\ page' = {c \in Boxes : Exists(c) /\ c \notin Known /\ host[c].kind # "own" /\ LooksLikePostgres(c)}
    /\ stale' = {}
    /\ UNCHANGED <<host, data, servers, adopt, doubled, deleted, unwanted>> /\ Elsewhere

\* RegisterDiscovered, of a container the page shows
RegisterDiscovered(a, c, n) ==
    /\ active /\ Ready(a) /\ c \in page /\ Charged
    /\ adopt' = [adopt EXCEPT ![a] = [NoAdoption EXCEPT !.pc = "inspect", !.id = c, !.name = n]]
    /\ doubled' = doubled \cup ({c} \cap stale)
    /\ UNCHANGED <<host, data, servers, page, stale, deleted, unwanted>> /\ Elsewhere

\* InspectContainer and InspectForDiscovery: it has to run.
Inspect(a) ==
    /\ adopt[a].pc = "inspect" /\ Keep
    /\ LET c == adopt[a].id IN
       IF host[c].state = "running"
       THEN adopt' = [adopt EXCEPT ![a].pc = "join", ![a].port = host[c].port, ![a].net = host[c].net]
       ELSE Ends(a)
    /\ UNCHANGED <<host, data>> /\ Kept /\ Elsewhere

\* ConnectNetwork, unless Inspect saw it connected; that it is connected by now
\* is no error.
JoinNetwork(a) ==
    /\ adopt[a].pc = "join"
    /\ LET c == adopt[a].id IN
       \/ adopt[a].net /\ Goes(a, "login") /\ UNCHANGED host /\ Keep
       \/ /\ ~adopt[a].net /\ Exists(c)
          /\ host' = [host EXCEPT ![c].net = TRUE] /\ Goes(a, "login") /\ Keep
       \/ /\ ~adopt[a].net /\ Ends(a) /\ UNCHANGED host
          /\ IF Exists(c) THEN Charged ELSE Keep
    /\ UNCHANGED data /\ Kept /\ Elsewhere

\* waitPostgresReady, by the container's name on the managed network; wrong
\* credentials end the request.
Login(a) ==
    /\ adopt[a].pc = "login"
    /\ LET c == adopt[a].id IN
       \/ /\ host[c].state = "running" /\ host[c].net /\ Keep
          /\ Goes(a, IF adopt[a].port = 0 THEN "port" ELSE "insert")
       \/ Ends(a) /\ IF host[c].state = "running" /\ host[c].net THEN Charged ELSE Keep
    /\ UNCHANGED <<host, data>> /\ Kept /\ Elsewhere

\* allocatePort: a port nothing publishes, for the UNIQUE of the table
AllocatePort(a) ==
    /\ adopt[a].pc = "port" /\ Keep
    /\ LET next == Max({PortStart} \cup {s.port + 1 : s \in servers}) IN
       IF next > PortEnd THEN Ends(a) ELSE adopt' = [adopt EXCEPT ![a].pc = "insert", ![a].port = next]
    /\ UNCHANGED <<host, data>> /\ Kept /\ Elsewhere

\* Create: the name and the port are unique in servers, the container is not.
InsertServer(a) ==
    /\ adopt[a].pc = "insert" /\ Ends(a) /\ Keep
    /\ LET x == adopt[a] IN
       IF \E s \in servers : s.name = x.name \/ s.port = x.port
       THEN UNCHANGED <<servers, stale, doubled>>
       ELSE /\ servers' = servers \cup {[name |-> x.name, id |-> x.id, port |-> x.port]}
            /\ stale' = stale \cup {x.id}
            /\ doubled' = IF \E b \in Adopters \ {a} : adopt[b].id = x.id THEN doubled \cup {x.id} ELSE doubled
    /\ UNCHANGED <<host, data, page, deleted, unwanted>> /\ Elsewhere

-----------------------------------------------------------------------------
\* Delete of a registered server
DeleteServer(a, s, keep) ==
    /\ active /\ Ready(a) /\ s \in servers /\ Charged
    /\ adopt' = [adopt EXCEPT ![a] = [pc |-> "remove", id |-> s.id, name |-> s.name, port |-> s.port,
                                        net |-> FALSE, keep |-> keep]]
    /\ unwanted' = IF keep THEN unwanted ELSE unwanted \cup ({host[s.id].volume} \ {None})
    /\ UNCHANGED <<host, data, servers, page, stale, doubled, deleted>> /\ Elsewhere

\* Mutant: a container that cannot be removed is passed over.
RemoveBox_Unchecked(a) ==
    /\ adopt[a].pc = "remove"
    /\ LET c == adopt[a].id IN
       /\ Goes(a, IF adopt[a].keep \/ host[c].volume = None THEN "unrow" ELSE "volume")
       /\ \/ host' = [host EXCEPT ![c].state = "none"] /\ Keep
          \/ UNCHANGED host /\ Charged
    /\ UNCHANGED data /\ Kept /\ Elsewhere

\* Mutant: the volume goes with the container, wanted or not.
RemoveBox_WithVolume(a) ==
    /\ adopt[a].pc = "remove" /\ Exists(adopt[a].id) /\ Keep
    /\ host' = [host EXCEPT ![adopt[a].id].state = "none"]
    /\ Goes(a, IF host[adopt[a].id].volume = None THEN "unrow" ELSE "volume")
    /\ UNCHANGED data /\ Kept /\ Elsewhere

\* RemoveContainer: a container that is not there is an error, and the row stays.
RemoveBox(a) ==
    /\ adopt[a].pc = "remove"
    /\ LET c == adopt[a].id IN
       \/ /\ Exists(c) /\ host' = [host EXCEPT ![c].state = "none"] /\ Keep
          /\ Goes(a, IF adopt[a].keep \/ host[c].volume = None THEN "unrow" ELSE "volume")
       \/ /\ Ends(a) /\ UNCHANGED host
          /\ IF Exists(c) THEN Charged ELSE Keep
    /\ UNCHANGED data /\ Kept /\ Elsewhere

\* VolumeRemove; Docker refuses while another container holds the volume.
RemoveVolume(a) ==
    /\ adopt[a].pc = "volume"
    /\ LET v == host[adopt[a].id].volume IN
       IF \E c \in Boxes : Exists(c) /\ host[c].volume = v
       THEN Ends(a) /\ UNCHANGED data
       ELSE data' = data \ {v} /\ Goes(a, "unrow")
    /\ Keep /\ UNCHANGED host /\ Kept /\ Elsewhere

DeleteRow(a) ==
    /\ adopt[a].pc = "unrow" /\ Ends(a) /\ Keep
    /\ servers' = {s \in servers : s.name # adopt[a].name}
    /\ deleted' = deleted \cup {adopt[a].id}
    /\ UNCHANGED <<host, data, page, stale, doubled, unwanted>> /\ Elsewhere

\* The Docker page, of any container: stopped and started, removed, or recreated under another id
DockerPageStops(c) ==
    /\ active /\ Exists(c) /\ Charged
    /\ host' = [host EXCEPT ![c].state = IF @ = "running" THEN "exited" ELSE "running"]
    /\ UNCHANGED <<data, adopt>> /\ Kept /\ Elsewhere

DockerPageRemoves(c) ==
    /\ active /\ Exists(c) /\ Charged
    /\ host' = [host EXCEPT ![c].state = "none"]
    /\ UNCHANGED <<data, adopt>> /\ Kept /\ Elsewhere

DockerPageRecreates(c, d) ==
    /\ active /\ Exists(c) /\ host[d] = NoBox /\ Charged
    /\ host' = [host EXCEPT ![c].state = "none", ![d] = host[c]]
    /\ UNCHANGED <<data, adopt>> /\ Kept /\ Elsewhere

AdoptionDropped ==
    /\ adopt' = [a \in Adopters |-> NoAdoption]
    /\ UNCHANGED <<host, data>> /\ Kept

AdoptionInit ==
    /\ host = [c \in Boxes |->
                 IF c \in DOMAIN Found
                 THEN [state |-> "running", kind |-> Found[c].kind, port |-> Found[c].port,
                       volume |-> Found[c].volume, net |-> FALSE]
                 ELSE NoBox]
    /\ data = Disks /\ servers = {}
    /\ page = {c \in DOMAIN Found : Found[c].kind = "postgres"}
    /\ adopt = [a \in Adopters |-> NoAdoption]
    /\ stale = {} /\ doubled = {} /\ deleted = {} /\ unwanted = {}

-----------------------------------------------------------------------------
(* What has to hold *)

\* Two servers never share a container, so that deleting one cannot take the
\* container of the other; except one that publishes no port, registered from
\* a page that was read before the first registration, or together with it.
OneServerPerContainer ==
    \A s, t \in servers : s.id = t.id => s = t \/ (s.id \in doubled /\ host[s.id].port = 0)

\* A server that is deleted leaves no container running behind its back, and no
\* volume goes that nobody asked to remove, whatever fails and whoever else
\* removes or recreates the container.
DeletionIsWhole ==
    /\ \A c \in deleted : ~Exists(c)
    /\ Disks \ data \subseteq unwanted
=============================================================================

--------------------------- MODULE GitDeployments ---------------------------
(***************************************************************************)
(* Deployments from a git repository (internal/infra/git_deployments.go,   *)
(* git_build.go, api/git_deployments.go): each push, through a webhook,    *)
(* and each click clones, builds an image, replaces the container of the   *)
(* deployment and records a status.                                        *)
(*                                                                         *)
(* Nothing keeps two redeploys of one deployment apart: they share the     *)
(* directory of the build, the tag of the image and the container name.    *)
(***************************************************************************)
EXTENDS Naturals, FiniteSets

CONSTANTS
    Ids, Names, Volumes, Nets, Managed, Domains, Deployments, Sources, None, Reqs, Budget,
    NameOf,     \* container_name of each deployment
    TagOf       \* image_tag, which names image and build directory

\* A source is a commit of a deployment's repository, counted from 0.
GitAssumption ==
    /\ DOMAIN NameOf = Deployments /\ DOMAIN TagOf = Deployments
    /\ \A g \in Deployments : NameOf[g] \in Names
    /\ Sources \subseteq Nat /\ 0 \in Sources

VARIABLES
    box, job, bound, joined, cut, raced, taken, renewed, remade, active, rest, budget,
    head,       \* the commit at the tip of the branch
    dep,        \* git_deployments: listed or not, last_status
    fetched,    \* redeploys: the commit git clone reads
    dir,        \* build directory of each tag: the commit in it, None if it is empty
    image,      \* what the image of each tag was built from
    shipped,    \* history: the commit the last successful redeploy cloned
    overlapped, \* history: deployments with two redeploys at a time, on one name or tag
    broken      \* history: deployments with a redeploy whose end was not recorded

gitVars == <<head, dep, fetched, dir, image, shipped, overlapped, broken>>
Tags == {TagOf[g] : g \in Deployments}

H == INSTANCE HostContainers WITH rest <- <<gitVars, rest>>
Elsewhere == UNCHANGED <<rest, active>>
HostKept == UNCHANGED <<bound, joined, cut, raced, taken, renewed, remade>>
Keep == UNCHANGED budget

GitTypeOK ==
    /\ head \in [Deployments -> Sources]
    /\ dep \in [Deployments -> [listed : BOOLEAN, status : {"", "success", "failed"}]]
    /\ \A g \in Deployments : ~dep[g].listed => dep[g].status = ""
    /\ fetched \in [Reqs -> Sources] /\ shipped \in [Deployments -> Sources]
    /\ dir \in [Tags -> Sources \cup {None}] /\ image \in [Tags -> Sources \cup {None}]
    /\ overlapped \subseteq Deployments /\ broken \subseteq Deployments

-----------------------------------------------------------------------------
Redeploys(r) == job[r].op \in {"deploy", "push"}
At(r, pc) == Redeploys(r) /\ job[r].pc = pc
Of(r) == job[r].arg
Tag(r) == TagOf[Of(r)]

\* Redeploys that share a name or a tag with one of g
Rivals(g) == {h \in Deployments : NameOf[h] = NameOf[g] \/ TagOf[h] = TagOf[g]}
Begins(r, g, op) ==
    LET busy == \E q \in Reqs : Redeploys(q) /\ Of(q) \in Rivals(g) IN
    /\ job' = [job EXCEPT ![r] = [H!Idle EXCEPT !.pc = "clean", !.op = op, !.arg = g,
                                    !.cfg = [H!NoCfg EXCEPT !.name = NameOf[g], !.nets = {Managed}]]]
    /\ overlapped' = IF busy THEN overlapped \cup Rivals(g) ELSE overlapped

\* CreateGitDeployment: container_name is unique; the first deploy is in the request.
CreateGitDeployment(r, g) ==
    /\ active /\ H!Ready(r) /\ H!Charged
    /\ \A h \in Deployments : dep[h].listed => NameOf[h] # NameOf[g]
    /\ dep' = [dep EXCEPT ![g] = [listed |-> TRUE, status |-> ""]]
    /\ Begins(r, g, "deploy")
    /\ UNCHANGED <<box, head, fetched, dir, image, shipped, broken>> /\ HostKept /\ Elsewhere

\* RedeployNow
RedeployNow(r, g) ==
    /\ active /\ H!Ready(r) /\ dep[g].listed /\ H!Charged
    /\ Begins(r, g, "deploy")
    /\ UNCHANGED <<box, head, dep, fetched, dir, image, shipped, broken>> /\ HostKept /\ Elsewhere

\* A push and its webhook, answered before the work is done
Webhook(r, g) ==
    /\ active /\ H!Ready(r) /\ dep[g].listed /\ head[g] + 1 \in Sources /\ H!Charged
    /\ head' = [head EXCEPT ![g] = @ + 1]
    /\ Begins(r, g, "push")
    /\ UNCHANGED <<box, dep, fetched, dir, image, shipped, broken>> /\ HostKept /\ Elsewhere

\* A redeploy goes on, or fails and has that recorded.
Step(r, possible, success) ==
    \/ possible /\ success /\ Keep
    \/ /\ IF possible THEN H!Charged ELSE Keep
       /\ H!To(r, "undo") /\ UNCHANGED <<dir, image, fetched>>

\* CloneAndBuild: RemoveAll and MkdirAll
Clean(r) ==
    /\ At(r, "clean")
    /\ Step(r, TRUE, /\ H!To(r, "clone") /\ dir' = [dir EXCEPT ![Tag(r)] = None]
                     /\ UNCHANGED <<image, fetched>>)
    /\ UNCHANGED <<box, head, dep, shipped, overlapped, broken>> /\ HostKept /\ Elsewhere

\* git clone wants an empty directory; it reads the branch ...
Clone(r) ==
    /\ At(r, "clone")
    /\ Step(r, dir[Tag(r)] = None,
            /\ H!To(r, "write") /\ fetched' = [fetched EXCEPT ![r] = head[Of(r)]]
            /\ UNCHANGED <<dir, image>>)
    /\ UNCHANGED <<box, head, dep, shipped, overlapped, broken>> /\ HostKept /\ Elsewhere

\* ... and then writes the files.
WriteFiles(r) ==
    /\ At(r, "write")
    /\ Step(r, TRUE, /\ H!To(r, "build") /\ dir' = [dir EXCEPT ![Tag(r)] = fetched[r]]
                     /\ UNCHANGED <<image, fetched>>)
    /\ UNCHANGED <<box, head, dep, shipped, overlapped, broken>> /\ HostKept /\ Elsewhere

\* runBuild, which needs a Dockerfile in the directory
RunBuild(r) ==
    /\ At(r, "build")
    /\ Step(r, dir[Tag(r)] # None, /\ H!To(r, "find") /\ image' = [image EXCEPT ![Tag(r)] = dir[Tag(r)]]
                                   /\ UNCHANGED <<dir, fetched>>)
    /\ UNCHANGED <<box, head, dep, shipped, overlapped, broken>> /\ HostKept /\ Elsewhere

\* FindContainerIDByName, an error of which counts as none
FindOld(r) ==
    LET c == H!HolderOf(job[r].cfg.name) IN
    /\ At(r, "find")
    /\ \/ job' = [job EXCEPT ![r].id = c, ![r].pc = IF c = None THEN "create" ELSE "drop"] /\ Keep
       \/ H!To(r, "create") /\ H!Charged
    /\ UNCHANGED <<box, gitVars>> /\ HostKept /\ Elsewhere

\* The error of RemoveContainer is ignored.
RemoveOld(r) ==
    /\ At(r, "drop") /\ H!To(r, "create")
    /\ \/ /\ H!Exists(job[r].id) /\ Keep
          /\ box' = [box EXCEPT ![job[r].id].state = "gone"]
          /\ renewed' = renewed \cup {job[r].cfg.name} /\ H!Forgotten(job[r].cfg.name)
       \/ UNCHANGED <<box, bound, joined, renewed>> /\ (IF H!Exists(job[r].id) THEN H!Charged ELSE Keep)
    /\ UNCHANGED <<gitVars, cut, raced, taken, remade>> /\ Elsewhere

\* CreateContainerFromImage: of whatever the tag names now, without what other
\* pages gave the old container; H!Start comes next.
CreateNew(r) ==
    LET n == job[r].cfg.name
        free == H!HolderOf(n) = None
    IN
    /\ At(r, "create") /\ (free => H!Unused # {})
    /\ \/ /\ free /\ Keep
          /\ H!NewBox([job[r].cfg EXCEPT !.image = image[Tag(r)]])
          /\ job' = [job EXCEPT ![r].id = H!NewId, ![r].pc = "start"]
          /\ H!Forgotten(n) /\ remade' = remade \cup {n}
       \/ /\ H!To(r, "undo") /\ UNCHANGED <<box, bound, joined, remade>>
          /\ IF free THEN H!Charged ELSE Keep
    /\ UNCHANGED <<gitVars, cut, raced, taken, renewed>> /\ Elsewhere

\* Mutant: only a redeploy that succeeds is recorded.
RecordDeployment_SuccessOnly(r) ==
    /\ Redeploys(r) /\ job[r].pc \in {"done", "undo"} /\ job' = [job EXCEPT ![r] = H!Idle] /\ Keep
    /\ dep' = IF job[r].pc = "done" /\ dep[Of(r)].listed
              THEN [dep EXCEPT ![Of(r)].status = "success"] ELSE dep
    /\ shipped' = IF job[r].pc = "done" THEN [shipped EXCEPT ![Of(r)] = fetched[r]] ELSE shipped
    /\ UNCHANGED <<box, head, fetched, dir, image, overlapped, broken>> /\ HostKept /\ Elsewhere

\* Mutant: the status of a deployment deleted meanwhile is written all the same.
RecordDeployment_Upsert(r) ==
    LET g == Of(r)
        status == IF job[r].pc = "done" THEN "success" ELSE "failed"
    IN
    /\ Redeploys(r) /\ job[r].pc \in {"done", "undo"} /\ job' = [job EXCEPT ![r] = H!Idle] /\ Keep
    /\ dep' = [dep EXCEPT ![g].status = status]
    /\ shipped' = IF job[r].pc = "done" THEN [shipped EXCEPT ![g] = fetched[r]] ELSE shipped
    /\ UNCHANGED <<box, head, fetched, dir, image, overlapped, broken>> /\ HostKept /\ Elsewhere

\* recordGitDeployment, whose own error nobody sees
RecordDeployment(r) ==
    LET g == Of(r)
        status == IF job[r].pc = "done" THEN "success" ELSE "failed"
    IN
    /\ Redeploys(r) /\ job[r].pc \in {"done", "undo"} /\ job' = [job EXCEPT ![r] = H!Idle]
    /\ shipped' = IF job[r].pc = "done" THEN [shipped EXCEPT ![g] = fetched[r]] ELSE shipped
    /\ \/ /\ dep' = IF dep[g].listed THEN [dep EXCEPT ![g].status = status] ELSE dep
          /\ UNCHANGED broken /\ Keep
       \/ broken' = broken \cup {g} /\ UNCHANGED dep /\ H!Charged
    /\ UNCHANGED <<box, head, fetched, dir, image, overlapped>> /\ HostKept /\ Elsewhere

\* The row goes, the container stays.
DeleteGitDeployment(g) ==
    /\ active /\ dep[g].listed /\ H!Charged
    /\ dep' = [dep EXCEPT ![g] = [listed |-> FALSE, status |-> ""]]
    /\ UNCHANGED <<box, job, head, fetched, dir, image, shipped, overlapped, broken>>
    /\ HostKept /\ Elsewhere

\* A redeploy by hand ends with its client; one of a webhook only with the backend.
GitAbandon(r) ==
    /\ job[r].op = "deploy" /\ H!Charged /\ job' = [job EXCEPT ![r] = H!Idle]
    /\ broken' = broken \cup {Of(r)}
    /\ UNCHANGED <<box, head, dep, fetched, dir, image, shipped, overlapped>> /\ HostKept /\ Elsewhere

GitDropped ==
    /\ broken' = broken \cup {Of(r) : r \in {r \in Reqs : Redeploys(r)}}
    /\ UNCHANGED <<head, dep, fetched, dir, image, shipped, overlapped>>

GitInit ==
    /\ head = [g \in Deployments |-> 0] /\ shipped = head
    /\ dep = [g \in Deployments |-> [listed |-> FALSE, status |-> ""]]
    /\ fetched = [r \in Reqs |-> 0] /\ overlapped = {} /\ broken = {}
    /\ dir = [t \in Tags |-> None] /\ image = dir

-----------------------------------------------------------------------------
(* What has to hold *)

\* "success" means that the container is there and holds the commit that was
\* cloned, also after later redeploys that failed and edits that recreated it;
\* redeploys that overlap or end unrecorded and a removal by hand excepted.
DeployedIsThere ==
    \A g \in Deployments :
        LET n == NameOf[g] IN
        /\ dep[g].status = "success" /\ g \notin overlapped \cup broken /\ n \notin taken \cup cut
        /\ ~H!BeingMade(n) /\ \A r \in Reqs : ~(Redeploys(r) /\ Of(r) = g)
        => \E c \in Ids : H!Exists(c) /\ box[c].cfg.name = n /\ box[c].cfg.image = shipped[g]
=============================================================================

---------------------------- MODULE ComposeStacks ----------------------------
(***************************************************************************)
(* Stacks of docker compose (internal/infra/compose.go): a deployment      *)
(* writes the file of the stack, runs "docker compose up" on it and saves  *)
(* file and result as a row; a removal runs "down", then deletes row and   *)
(* directory.  Requests for one stack share its file.                      *)
(*                                                                         *)
(* "up" removes the containers of services its file does not have, but     *)
(* only when it succeeds, and "down" those of the services of its file.    *)
(***************************************************************************)
EXTENDS Naturals

CONSTANTS
    Stacks,     \* names of stacks
    Files,      \* contents of a docker-compose.yml
    Serves,     \* the services of each
    Deployers,  \* requests in flight together
    None, Budget

StackAssumption ==
    Budget \in Nat /\ None \notin Stacks \cup Files /\ Serves \in [Files -> SUBSET UNION {Serves[f] : f \in Files}]

VARIABLES
    yml,        \* docker-compose.yml of each stack
    up,         \* what the container of each service of each stack was started from
    project,    \* compose_projects: compose_content and status
    deploy,     \* requests: next step, stack, content, result
    tangled,    \* history: stacks with two requests at a time
    unsaved,    \* history: stacks with a result that was not saved, or broken off
    lowered,    \* history: stacks a "down" was begun of, since the last "up" that worked
    orphans,    \* history: services a failed "up" left running that its file does not have
    active, rest, budget

stackVars == <<yml, up, project, deploy, tangled, unsaved, lowered, orphans>>
Elsewhere == UNCHANGED <<rest, active>>

Services == UNION {Serves[f] : f \in Files}
Nothing == [s \in Services |-> None]
Started(f) == [s \in Services |-> IF s \in Serves[f] THEN f ELSE None]

NoProject == [content |-> None, status |-> "absent"]
NoDeploy == [pc |-> "idle", stack |-> None, content |-> None, status |-> "absent"]

StackTypeOK ==
    /\ yml \in [Stacks -> Files \cup {None}] /\ up \in [Stacks -> [Services -> Files \cup {None}]]
    /\ project \in [Stacks -> [content : Files \cup {None}, status : {"absent", "deployed", "error"}]]
    /\ deploy \in [Deployers -> [pc : {"idle", "write", "up", "save", "down", "delete", "erase"},
                                 stack : Stacks \cup {None}, content : Files \cup {None},
                                 status : {"absent", "deployed", "error"}]]
    /\ tangled \subseteq Stacks /\ unsaved \subseteq Stacks /\ lowered \subseteq Stacks
    /\ orphans \in [Stacks -> SUBSET Services]

-----------------------------------------------------------------------------
Charged == budget > 0 /\ budget' = budget - 1
Keep == UNCHANGED budget
Of(d) == deploy[d].stack
At(d, pc) == deploy[d].pc = pc
Goes(d, pc) == deploy' = [deploy EXCEPT ![d].pc = pc]
Gone(d) == deploy' = [deploy EXCEPT ![d] = NoDeploy]
Asks(d, k, pc, content) ==
    /\ active /\ At(d, "idle") /\ Charged
    /\ deploy' = [deploy EXCEPT ![d] = [NoDeploy EXCEPT !.pc = pc, !.stack = k, !.content = content]]
    /\ tangled' = IF \E e \in Deployers : Of(e) = k THEN tangled \cup {k} ELSE tangled
    /\ UNCHANGED <<yml, up, project, unsaved, lowered, orphans>> /\ Elsewhere

DeployCompose(d, k, content) == Asks(d, k, "write", content)
RemoveComposeProject(d, k) == project[k].status # "absent" /\ Asks(d, k, "down", None)

\* WriteFile truncates first: what it leaves when it fails is no file to compose.
WriteFile(d) ==
    /\ At(d, "write")
    /\ \/ yml' = [yml EXCEPT ![Of(d)] = deploy[d].content] /\ Goes(d, "up") /\ Keep
       \/ yml' \in {yml, [yml EXCEPT ![Of(d)] = None]} /\ Gone(d) /\ Charged
    /\ UNCHANGED <<up, project, tangled, unsaved, lowered, orphans>> /\ Elsewhere

Result(d, status) == deploy' = [deploy EXCEPT ![d].pc = "save", ![d].status = status]

\* "up -d --remove-orphans" of the file as it is now, with no container left of
\* another service
UpWorks(d) ==
    LET k == Of(d) IN
    /\ At(d, "up") /\ yml[k] # None /\ Result(d, "deployed") /\ Keep
    /\ up' = [up EXCEPT ![k] = Started(yml[k])]
    /\ lowered' = lowered \ {k} /\ orphans' = [orphans EXCEPT ![k] = {}]
    /\ UNCHANGED <<yml, project, tangled, unsaved>> /\ Elsewhere

\* What is up of a stack while its containers are replaced or removed
HalfWay(k) ==
    {u \in [Services -> Files \cup {None}] : \A s \in Services : u[s] \in {up[k][s], Started(yml[k])[s], None}}

\* "up" failed, with any of the containers replaced or removed; nothing is when
\* the file is gone.
UpFails(d) ==
    LET k == Of(d) IN
    /\ At(d, "up") /\ Result(d, "error")
    /\ IF yml[k] = None THEN UNCHANGED <<up, orphans>> /\ Keep
       ELSE /\ \E u \in HalfWay(k) : up' = [up EXCEPT ![k] = u]
            /\ orphans' = [orphans EXCEPT ![k] = {s \in Services \ Serves[yml[k]] : up'[k][s] # None}]
            /\ Charged
    /\ UNCHANGED <<yml, project, tangled, unsaved, lowered>> /\ Elsewhere

\* INSERT ... ON CONFLICT DO UPDATE, under the context of the request
Save(d) ==
    /\ At(d, "save") /\ Gone(d)
    /\ \/ /\ project' = [project EXCEPT ![Of(d)] = [content |-> deploy[d].content, status |-> deploy[d].status]]
          /\ UNCHANGED unsaved /\ Keep
       \/ UNCHANGED project /\ unsaved' = unsaved \cup {Of(d)} /\ Charged
    /\ UNCHANGED <<yml, up, tangled, lowered, orphans>> /\ Elsewhere

\* What is up of a stack without the containers of these services
Without(k, gone) == [up EXCEPT ![k] = [s \in Services |-> IF s \in gone THEN None ELSE up[k][s]]]

\* Mutant: an error of "docker compose down" is ignored.
Down_IgnoresError(d) ==
    LET k == Of(d) IN
    /\ At(d, "down") /\ Goes(d, "delete") /\ lowered' = lowered \cup {k}
    /\ \/ yml[k] # None /\ up' = Without(k, Serves[yml[k]]) /\ Keep
       \/ UNCHANGED up /\ Charged
    /\ UNCHANGED <<yml, project, tangled, unsaved, orphans>> /\ Elsewhere

\* "docker compose down" removes the containers of the services of the file as it
\* is now; when it fails, perhaps half-way, the row stays.
Down(d) ==
    LET k == Of(d) IN
    /\ At(d, "down") /\ lowered' = lowered \cup {k}
    /\ \/ yml[k] # None /\ up' = Without(k, Serves[yml[k]]) /\ Goes(d, "delete") /\ Keep
       \/ yml[k] # None /\ (\E gone \in SUBSET Serves[yml[k]] : up' = Without(k, gone)) /\ Gone(d) /\ Charged
       \/ yml[k] = None /\ UNCHANGED up /\ Gone(d) /\ Keep
    /\ UNCHANGED <<yml, project, tangled, unsaved, orphans>> /\ Elsewhere

DeleteRow(d) ==
    /\ At(d, "delete")
    /\ \/ project' = [project EXCEPT ![Of(d)] = NoProject] /\ Goes(d, "erase") /\ Keep
       \/ Gone(d) /\ UNCHANGED project /\ Charged
    /\ UNCHANGED <<yml, up, tangled, unsaved, lowered, orphans>> /\ Elsewhere

\* RemoveAll, whose error is ignored
Erase(d) ==
    /\ At(d, "erase") /\ Gone(d)
    /\ \/ yml' = [yml EXCEPT ![Of(d)] = None] /\ Keep
       \/ UNCHANGED yml /\ Charged
    /\ UNCHANGED <<up, project, tangled, unsaved, lowered, orphans>> /\ Elsewhere

StacksDropped ==
    /\ deploy' = [d \in Deployers |-> NoDeploy]
    /\ unsaved' = unsaved \cup {Of(d) : d \in {d \in Deployers : deploy[d].pc \in {"up", "save"}}}
    /\ UNCHANGED <<yml, up, project, tangled, lowered, orphans>>

StackInit ==
    /\ yml = [k \in Stacks |-> None] /\ up = [k \in Stacks |-> Nothing]
    /\ project = [k \in Stacks |-> NoProject] /\ deploy = [d \in Deployers |-> NoDeploy]
    /\ tangled = {} /\ unsaved = {} /\ lowered = {} /\ orphans = [k \in Stacks |-> {}]

-----------------------------------------------------------------------------
(* What has to hold *)

Settled(k) == (\A d \in Deployers : Of(d) # k) /\ k \notin tangled \cup unsaved

\* Between requests that do not overlap, a "deployed" stack runs every service of
\* the file its row shows, from that file, and no other, but for what a removal
\* that did not get to the end has taken down; and a stack without a row runs
\* nothing, but for services of an earlier file that a failed "up" of the last
\* one left running, which "down" passes over.
RowIsStack ==
    \A k \in Stacks : Settled(k) =>
        /\ project[k].status = "deployed" =>
              \/ up[k] = Started(project[k].content)
              \/ k \in lowered /\ \A s \in Services : up[k][s] \in {Started(project[k].content)[s], None}
        /\ project[k].status = "absent" => \A s \in Services : up[k][s] = None \/ s \in orphans[k]
=============================================================================

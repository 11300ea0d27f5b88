----------------------------- MODULE CloudTunnel -----------------------------
(***************************************************************************)
(* The cloudflared container of the cloud mode                             *)
(* (internal/infra/cloudflare_tunnel.go and seedCloudConnect of            *)
(* cmd/api/main.go).                                                       *)
(*                                                                         *)
(* The container has a fixed name; what the platform knows of it is one    *)
(* row, platform_settings. Enabling creates the container and then writes  *)
(* the row, disabling reads the row, removes the container it names and    *)
(* writes the row. Two administrators, or a fault, may come in between.    *)
(***************************************************************************)
EXTENDS Naturals, FiniteSets

CONSTANTS
    Boxes,      \* container ids
    Tokens,     \* tunnel tokens
    None,       \* no container, no token
    Reqs,       \* requests, and the boot, in flight together
    Budget      \* bound on requests, faults and what happens to the container

TunnelAssumption == None \notin Boxes \cup Tokens /\ Budget \in Nat

VARIABLES
    box,        \* the container of that name: its id, None if there is none, and its state
    row,        \* platform_settings: cloudflare_tunnel_enabled, _container_id
    work,       \* requests: operation, next step, what they read or created
    spent,      \* container ids given out
    stray,      \* history: containers nobody recorded, or whose record another call cleared
    kept,       \* history: running containers a boot left although .env has another token
    listening,  \* the API serves requests
    rest,       \* whatever else the system is made of
    budget

tunnelVars == <<box, row, work, spent, stray, kept>>
vars == <<tunnelVars, listening, rest, budget>>
Elsewhere == UNCHANGED <<rest, listening>>

Idle == [pc |-> "idle", op |-> "none", token |-> None, id |-> None]
NoBox == [id |-> None, running |-> FALSE, token |-> None]

TunnelTypeOK ==
    /\ box \in [id : Boxes \cup {None}, running : BOOLEAN, token : Tokens \cup {None}]
    /\ row \in [enabled : BOOLEAN, id : Boxes \cup {None}] /\ row.enabled = (row.id # None)
    /\ work \in [Reqs -> [pc : {"idle", "create", "record", "read", "remove", "clear", "failed"},
                          op : {"none", "enable", "disable", "boot"},
                          token : Tokens \cup {None}, id : Boxes \cup {None}]]
    /\ spent \subseteq Boxes /\ stray \subseteq Boxes /\ kept \subseteq Boxes

-----------------------------------------------------------------------------
Charged == budget > 0 /\ budget' = budget - 1
Keep == UNCHANGED budget /\ Elsewhere
Finish(r) == work' = [work EXCEPT ![r] = Idle]
To(r, pc) == work' = [work EXCEPT ![r].pc = pc]
Start(r, op, pc, t) == work' = [work EXCEPT ![r] = [pc |-> pc, op |-> op, token |-> t, id |-> None]]

\* An error ends the call. The boot stops over an error of Enable, and of Disable
\* when it disconnects; the Disable that clears the way for Enable it ignores.
Failed(r) ==
    IF work[r].op # "boot" THEN Finish(r)
    ELSE To(r, IF work[r].pc \in {"read", "remove", "clear"} /\ work[r].token # None
               THEN "create" ELSE "failed")

\* status.Running: the inspect of the container the row names; its error counts as no.
Running == row.id # None /\ box.id = row.id /\ box.running

Enable(r, t) ==
    /\ listening /\ work[r].pc = "idle" /\ Charged
    /\ Start(r, "enable", "create", t)
    /\ UNCHANGED <<box, row, spent, stray, kept>> /\ Elsewhere

Disable(r) ==
    /\ listening /\ work[r].pc = "idle" /\ Charged
    /\ Start(r, "disable", "read", None)
    /\ UNCHANGED <<box, row, spent, stray, kept>> /\ Elsewhere

\* Mutant: a tunnel that is enabled is left alone, running or not.
BootStatus_TrustsRow(r, t) ==
    /\ work[r].pc = "idle"
    /\ \/ t # None /\ ~row.enabled /\ Start(r, "boot", "create", t)
       \/ t = None /\ row.enabled /\ Start(r, "boot", "read", t)
       \/ (t # None <=> row.enabled) /\ UNCHANGED work
    /\ UNCHANGED <<box, row, spent, stray, kept, budget>>

\* seedCloudConnect: what the boot does about the tunnel, and what .env says. The
\* token a running tunnel was started with is not looked at. A SELECT that fails
\* ends the boot's work if there is a token, and is ignored if there is none.
BootStatus(r, t) ==
    /\ work[r].pc = "idle"
    /\ \/ t # None /\ ~row.enabled /\ Start(r, "boot", "create", t) /\ UNCHANGED <<kept, budget>>
       \/ row.enabled /\ ~(t # None /\ Running) /\ Start(r, "boot", "read", t) /\ UNCHANGED <<kept, budget>>
       \/ /\ row.enabled /\ t # None /\ Running
          /\ kept' = kept \cup (IF box.token = t THEN {} ELSE {box.id})
          /\ UNCHANGED <<work, budget>>
       \/ ~row.enabled /\ t = None /\ UNCHANGED <<work, kept, budget>>
       \/ /\ Charged /\ UNCHANGED kept
          /\ IF t = None THEN UNCHANGED work ELSE Start(r, "boot", "failed", t)
    /\ UNCHANGED <<box, row, spent, stray>>

\* Docker gives the container an id of its own.
NewBox(running, t) ==
    LET n == CHOOSE n \in Boxes \ spent : TRUE IN
    /\ spent # Boxes /\ spent' = spent \cup {n}
    /\ box' = [id |-> n, running |-> running, token |-> t]

\* CreateGenericContainer: the name may be taken, the image missing, and a
\* container whose start fails stays.
Create(r) ==
    /\ work[r].pc = "create"
    /\ \/ /\ box.id = None /\ NewBox(TRUE, work[r].token)
          /\ work' = [work EXCEPT ![r].pc = "record", ![r].id = box'.id]
          /\ UNCHANGED stray /\ Keep
       \/ /\ box.id = None /\ Charged /\ NewBox(FALSE, work[r].token)
          /\ stray' = stray \cup {box'.id}
          /\ Failed(r) /\ Elsewhere
       \/ /\ Failed(r) /\ UNCHANGED <<box, spent, stray>>
          /\ (box.id # None /\ Keep) \/ (Charged /\ Elsewhere)
    /\ UNCHANGED <<row, kept>>

\* The container of another call that the row named until now.
Overwritten(r) == ({row.id} \cap {box.id}) \ {None, work[r].id}

Record(r) ==
    /\ work[r].pc = "record" /\ Finish(r)
    /\ row' = [enabled |-> TRUE, id |-> work[r].id]
    /\ stray' = stray \cup Overwritten(r)
    /\ UNCHANGED <<box, spent, kept>> /\ Keep

\* The token is not sealed, the UPSERT fails or the client is gone.
RecordFails(r) ==
    /\ work[r].pc = "record" /\ Charged /\ Failed(r)
    /\ stray' = stray \cup {work[r].id}
    /\ UNCHANGED <<box, row, spent, kept>> /\ Elsewhere

ReadId(r) ==
    /\ work[r].pc = "read"
    /\ work' = [work EXCEPT ![r].id = row.id,
                            ![r].pc = IF row.id = None THEN "clear" ELSE "remove"]
    /\ UNCHANGED <<box, row, spent, stray, kept>> /\ Keep

\* Mutant: the error of RemoveContainer is only logged.
Remove_IgnoresError(r) ==
    /\ work[r].pc = "remove" /\ To(r, "clear")
    /\ \/ box.id = work[r].id /\ box' = NoBox /\ Keep
       \/ box.id # work[r].id /\ UNCHANGED box /\ Keep
       \/ UNCHANGED box /\ Charged /\ Elsewhere
    /\ UNCHANGED <<row, spent, stray, kept>>

\* RemoveContainer of a container that is gone, or that Docker does not remove, fails.
Remove(r) ==
    /\ work[r].pc = "remove"
    /\ \/ box.id = work[r].id /\ box' = NoBox /\ To(r, "clear") /\ Keep
       \/ box.id # work[r].id /\ Failed(r) /\ UNCHANGED box /\ Keep
       \/ Failed(r) /\ UNCHANGED box /\ Charged /\ Elsewhere
    /\ UNCHANGED <<row, spent, stray, kept>>

\* Mutant: the UPDATE leaves cloudflare_tunnel_container_id.
Clear_KeepsId(r) ==
    /\ work[r].pc = "clear"
    /\ row' = [row EXCEPT !.enabled = FALSE]
    /\ IF work[r].op = "boot" /\ work[r].token # None THEN To(r, "create") ELSE Finish(r)
    /\ UNCHANGED <<box, spent, stray, kept>> /\ Keep

Clear(r) ==
    /\ work[r].pc = "clear"
    /\ row' = [enabled |-> FALSE, id |-> None]
    /\ stray' = stray \cup Overwritten(r)
    /\ IF work[r].op = "boot" /\ work[r].token # None THEN To(r, "create") ELSE Finish(r)
    /\ UNCHANGED <<box, spent, kept>> /\ Keep

\* A statement of Disable fails.
StatementFails(r) ==
    /\ work[r].pc \in {"read", "clear"} /\ Charged /\ Failed(r)
    /\ UNCHANGED <<box, row, spent, stray, kept>> /\ Elsewhere

\* The container dies, is started again or removed by hand, as any container.
BoxChanges ==
    /\ box.id # None /\ Charged
    /\ box' \in {[box EXCEPT !.running = ~box.running], NoBox}
    /\ UNCHANGED <<row, work, spent, stray, kept>> /\ Elsewhere

\* The backend dies: a container it was about to record stays.
TunnelDropped ==
    /\ work' = [r \in Reqs |-> Idle]
    /\ stray' = stray \cup {work[r].id : r \in {r \in Reqs : work[r].pc = "record"}}
    /\ UNCHANGED <<box, row, spent, kept>>

TunnelInit ==
    /\ box = NoBox /\ row = [enabled |-> FALSE, id |-> None]
    /\ work = [r \in Reqs |-> Idle] /\ spent = {} /\ stray = {} /\ kept = {}

Working(r) ==
    Create(r) \/ Record(r) \/ RecordFails(r) \/ ReadId(r) \/ Remove(r) \/ Clear(r) \/ StatementFails(r)

TunnelNext ==
    \/ \E r \in Reqs : Working(r) \/ Disable(r) \/ \E t \in Tokens : Enable(r, t)
    \/ BoxChanges

-----------------------------------------------------------------------------
(* What has to hold *)

\* The row knows the tunnel: a container of that name is the one the row names
\* or is being recorded, so that disabling removes it; two calls that overlap, a
\* fault after the create or a restart are the only ways to lose it.
TunnelKnown ==
    box.id # None =>
        \/ row.id = box.id \/ box.id \in stray
        \/ \E r \in Reqs : work[r].pc = "record" /\ work[r].id = box.id

\* The tunnel is what .env (token t) says, its token included, except that a
\* boot leaves a tunnel that runs with another token as it is.
Follows(t) ==
    \/ box.id \in stray
    \/ t = None /\ box.id = None /\ ~row.enabled
    \/ t # None /\ row.enabled /\ Running /\ (box.token = t \/ box.id \in kept)
=============================================================================

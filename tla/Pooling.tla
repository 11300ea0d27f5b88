------------------------------- MODULE Pooling -------------------------------
(***************************************************************************)
(* The superuser password of a managed server, its PgBouncer companion and *)
(* the ports both publish (internal/server/credentials.go, pooling.go,     *)
(* allocatePort and the pooler columns in repo.go).                        *)
(*                                                                         *)
(* Four stores hold what has to agree: the row, PostgreSQL, the container  *)
(* named after the server, and the ports bound on the host.  Handlers copy *)
(* the row once and then change the stores one call after the other.       *)
(***************************************************************************)
EXTENDS Naturals

CONSTANTS
    Servers,     \* ids of servers
    None,        \* no server
    Slots,       \* requests in flight together
    PortRange,   \* portRangeStart..portRangeEnd
    Ops,         \* operations users ask for
    Budget       \* bound on requests, faults, disconnects and crashes

ASSUME PoolingAssumption ==
    /\ \E end \in PortRange \cup {0} : end \in Nat /\ PortRange \subseteq 1 .. end
    /\ None \notin Servers
    /\ Ops \subseteq {"create", "delete", "enable", "disable", "rotate"}
    /\ Budget \in Nat

VARIABLES
    row,       \* table servers: is it there, host_port, password, the pooler columns
    version,   \* history: how often the row was written
    pg,        \* password of the superuser role in PostgreSQL
    pooler,    \* the container <name>-pgbouncer, if any, with the password it got
    last,      \* last password and container id handed out
    req,       \* requests: operation, server, next step, what they read and made
    overtaken, \* history: servers changed by a handler whose copy was outdated
    cut,       \* history: a handler was cut short with nothing to undo its work
    budget

vars == <<row, version, pg, pooler, last, req, overtaken, cut, budget>>

NoPooler == [id |-> 0, pw |-> 0, port |-> 0]
NoRow == [there |-> FALSE, port |-> 0, pw |-> 0, cid |-> 0, pport |-> 0]
Idle == [op |-> "none", srv |-> None, pc |-> "idle", seen |-> 0,
         copy |-> NoRow, port |-> 0, own |-> 0, new |-> 0, gone |-> FALSE]

Enabled(s) == row[s].cid # 0

TypeOK ==
    /\ row \in [Servers -> [there : BOOLEAN, port : Nat, pw : Nat, cid : Nat, pport : Nat]]
    /\ version \in [Servers -> Nat] /\ pg \in [Servers -> Nat]
    /\ pooler \in [Servers -> [id : Nat, pw : Nat, port : Nat]]
    /\ last \in Nat /\ budget \in Nat
    /\ req \in [Slots ->
         [op : Ops \cup {"none"}, srv : Servers \cup {None},
          pc : {"idle", "alloc", "insert", "make", "health", "set", "undo", "remove",
                "clear", "connect", "alter", "update", "revert", "drop", "delrow"},
          seen : Nat, copy : [there : BOOLEAN, port : Nat, pw : Nat, cid : Nat, pport : Nat],
          port : Nat, own : Nat, new : Nat, gone : BOOLEAN]]
    /\ overtaken \subseteq Servers /\ cut \subseteq Servers

-----------------------------------------------------------------------------
(* Ports, calls, steps *)

\* Mutant: only the ports of the servers themselves count.
MaxHostPort_ServersOnly ==
    CHOOSE m \in {0} \cup {row[s].port : s \in Servers} :
        \A s \in Servers : row[s].port <= m

MaxHostPort ==
    CHOOSE m \in {0} \cup {row[s].port : s \in Servers} \cup {row[s].pport : s \in Servers} :
        \A s \in Servers : row[s].port <= m /\ row[s].pport <= m

\* allocatePort: the port after the largest in use, if the range reaches that far.
NextPort == LET start == CHOOSE p \in PortRange : \A q \in PortRange : p <= q
            IN  IF MaxHostPort + 1 < start THEN start ELSE MaxHostPort + 1

\* Bound on the host by another server or pooler.
Bound(p, s) ==
    \/ \E t \in Servers : row[t].there /\ row[t].port = p
    \/ \E t \in Servers \ {s} : pooler[t].id # 0 /\ pooler[t].port = p

Fault  == budget > 0 /\ budget' = budget - 1
Smooth == UNCHANGED budget

\* A call of request r that does its work if it can, or fails: because it
\* cannot, because the client is gone, or for some reason of its own.
Call(r, possible, success, failure) ==
    \/ possible /\ ~req[r].gone /\ success /\ Smooth
    \/ (~possible \/ req[r].gone) /\ failure /\ Smooth
    \/ possible /\ ~req[r].gone /\ failure /\ Fault

Goto(r, pc) == req' = [req EXCEPT ![r].pc = pc]
End(r) == req' = [req EXCEPT ![r] = Idle]
Harm(s) == cut' = cut \cup {s}
NoHarm == UNCHANGED cut

\* A write to the row of s by request r, whose copy of the row, or the port it
\* allocated, may be out of date.
Write(r, s, record) ==
    /\ row' = [row EXCEPT ![s] = record]
    /\ version' = [version EXCEPT ![s] = @ + 1]
    /\ overtaken' = IF version[s] = req[r].seen /\ req[r].port \in {0, NextPort} THEN overtaken ELSE overtaken \cup {s}

rows == <<row, version, overtaken>>

\* CreatePgBouncerContainer: the name must be free; with the port taken (or by
\* a fault) the container is created but not started, and its id is dropped.
Make(r, s, pw, port, started, notCreated, notStarted) ==
    LET box == [pooler EXCEPT ![s] = [id |-> last + 1, pw |-> pw, port |-> 0]]
    IN
    \/ /\ pooler[s].id = 0 /\ ~Bound(port, s) /\ ~req[r].gone /\ Smooth
       /\ pooler' = [box EXCEPT ![s].port = port] /\ last' = last + 1 /\ started
    \/ /\ pooler[s].id = 0 /\ ~req[r].gone
       /\ IF Bound(port, s) THEN Smooth ELSE Fault
       /\ pooler' = box /\ last' = last + 1 /\ notStarted
    \/ /\ IF pooler[s].id # 0 \/ req[r].gone THEN Smooth ELSE Fault
       /\ UNCHANGED <<pooler, last>> /\ notCreated

Remove(s) == pooler' = [pooler EXCEPT ![s] = NoPooler]

-----------------------------------------------------------------------------
(* Requests *)

\* repo.Get, and the checks of the handler on what it read.
Request(r, op, s) ==
    /\ req[r].pc = "idle" /\ Fault
    /\ \/ op = "create" /\ ~row[s].there /\ version[s] = 0
       \/ op = "enable" /\ row[s].there /\ ~Enabled(s)
       \/ op = "disable" /\ row[s].there /\ Enabled(s)
       \/ op \in {"rotate", "delete"} /\ row[s].there
    /\ req' = [req EXCEPT ![r] =
         [Idle EXCEPT !.op = op, !.srv = s, !.seen = version[s], !.copy = row[s],
            !.pc = CASE op = "rotate" -> "connect"
                     [] op = "delete" -> IF Enabled(s) THEN "remove" ELSE "delrow"
                     [] op = "disable" -> "remove"
                     [] OTHER -> "alloc"]]
    /\ UNCHANGED <<rows, pg, pooler, last, cut>>

\* The browser goes away: later calls of the request find its context cancelled.
ClientGone(r) ==
    /\ req[r].pc # "idle" /\ ~req[r].gone /\ Fault
    /\ req' = [req EXCEPT ![r].gone = TRUE]
    /\ UNCHANGED <<rows, pg, pooler, last, cut>>

AllocatePort(r) ==
    /\ req[r].pc = "alloc"
    /\ Call(r, NextPort \in PortRange,
            req' = [req EXCEPT ![r].port = NextPort,
                               ![r].pc = IF req[r].op = "create" THEN "insert" ELSE "make"],
            End(r))
    /\ UNCHANGED <<rows, pg, pooler, last, cut>>

\* Create: the row is inserted unless another server has that host_port.  The
\* rest of a creation is ServerLifecycle's; PostgreSQL gets the password.
InsertServer(r) ==
    LET s == req[r].srv IN
    /\ req[r].pc = "insert"
    /\ Call(r, ~row[s].there /\ version[s] = 0 /\ \A t \in Servers : row[t].port # req[r].port,
            /\ Write(r, s, [NoRow EXCEPT !.there = TRUE, !.port = req[r].port, !.pw = last + 1])
            /\ pg' = [pg EXCEPT ![s] = last + 1] /\ last' = last + 1,
            UNCHANGED <<rows, pg, last>>)
    /\ End(r)
    /\ UNCHANGED <<pooler, cut>>

-----------------------------------------------------------------------------
(* EnablePooling, DisablePooling, Delete *)

\* EnablePooling forgets a container that was created but did not start.
MakePooler(r) ==
    LET s == req[r].srv IN
    /\ req[r].pc = "make" /\ req[r].op = "enable"
    /\ Make(r, s, req[r].copy.pw, req[r].port,
            req' = [req EXCEPT ![r].pc = "health", ![r].own = last + 1] /\ NoHarm,
            End(r) /\ NoHarm,
            End(r) /\ Harm(s))
    /\ UNCHANGED <<rows, pg>>

WaitHealthy(r) ==
    /\ req[r].pc = "health"
    /\ Call(r, TRUE, Goto(r, "set"), Goto(r, "undo"))
    /\ UNCHANGED <<rows, pg, pooler, last, cut>>

\* Mutant: the container of a pooler that could not be recorded stays.
SetPooler_NotUndone(r) ==
    LET s == req[r].srv IN
    /\ req[r].pc = "set" /\ req[r].op = "enable"
    /\ Call(r, row[s].there /\ \A t \in Servers \ {s} : row[t].pport # req[r].port,
            Write(r, s, [row[s] EXCEPT !.cid = req[r].own, !.pport = req[r].port]) /\ End(r),
            UNCHANGED rows /\ End(r))
    /\ UNCHANGED <<pg, pooler, last, cut>>

\* pooler_host_port is unique among poolers only.
SetPooler(r) ==
    LET s == req[r].srv IN
    /\ req[r].pc = "set" /\ req[r].op = "enable"
    /\ Call(r, row[s].there /\ \A t \in Servers \ {s} : row[t].pport # req[r].port,
            Write(r, s, [row[s] EXCEPT !.cid = req[r].own, !.pport = req[r].port]) /\ End(r),
            UNCHANGED rows /\ Goto(r, "undo"))
    /\ UNCHANGED <<pg, pooler, last, cut>>

\* RemoveContainer after a failure; its own error is ignored.
UndoPooler(r) ==
    LET s == req[r].srv IN
    /\ req[r].pc = "undo"
    /\ Call(r, pooler[s].id = req[r].own,
            Remove(s) /\ NoHarm,
            UNCHANGED pooler /\ IF pooler[s].id = req[r].own THEN Harm(s) ELSE NoHarm)
    /\ End(r)
    /\ UNCHANGED <<rows, pg, last>>

\* DisablePooling stops at an error that is not "No such container"; Delete
\* ignores every error.
RemovePooler(r) ==
    LET s == req[r].srv
        gone == pooler[s].id # req[r].copy.cid IN
    /\ req[r].pc = "remove"
    /\ \/ /\ ~gone /\ ~req[r].gone /\ Smooth /\ Remove(s) /\ NoHarm
          /\ Goto(r, IF req[r].op = "delete" THEN "delrow" ELSE "clear")
       \/ /\ gone /\ ~req[r].gone /\ Smooth /\ UNCHANGED pooler /\ NoHarm
          /\ Goto(r, IF req[r].op = "delete" THEN "delrow" ELSE "clear")
       \/ /\ IF req[r].gone THEN Smooth ELSE Fault
          /\ UNCHANGED pooler
          /\ IF req[r].op = "delete" THEN Goto(r, "delrow") /\ Harm(s) ELSE End(r) /\ NoHarm
    /\ UNCHANGED <<rows, pg, last>>

\* Mutant: the port stays reserved and the container recorded.
ClearPooler_PortOnly(r) ==
    LET s == req[r].srv IN
    /\ req[r].pc = "clear"
    /\ Call(r, row[s].there,
            Write(r, s, [row[s] EXCEPT !.pport = 0]) /\ NoHarm,
            UNCHANGED rows /\ Harm(s))
    /\ End(r)
    /\ UNCHANGED <<pg, pooler, last>>

\* Mutant: -1 stands for no port.
ClearPooler_MinusOne(r) ==
    LET s == req[r].srv IN
    /\ req[r].pc = "clear"
    /\ Call(r, row[s].there,
            Write(r, s, [row[s] EXCEPT !.cid = 0, !.pport = 0 - 1]) /\ NoHarm,
            UNCHANGED rows /\ Harm(s))
    /\ End(r)
    /\ UNCHANGED <<pg, pooler, last>>

ClearPooler(r) ==
    LET s == req[r].srv IN
    /\ req[r].pc = "clear"
    /\ Call(r, row[s].there,
            Write(r, s, [row[s] EXCEPT !.cid = 0, !.pport = 0]) /\ NoHarm,
            UNCHANGED rows /\ Harm(s))
    /\ End(r)
    /\ UNCHANGED <<pg, pooler, last>>

\* The end of Delete; the server's own container is ServerLifecycle's.
DeleteServer(r) ==
    LET s == req[r].srv IN
    /\ req[r].pc = "delrow"
    /\ Call(r, row[s].there,
            Write(r, s, NoRow) /\ NoHarm,
            UNCHANGED rows /\ Harm(s))
    /\ End(r)
    /\ UNCHANGED <<pg, pooler, last>>

-----------------------------------------------------------------------------
(* RotateSuperuserPassword *)

\* The connection is opened with the password of the copy.
Connect(r) ==
    LET s == req[r].srv IN
    /\ req[r].pc = "connect"
    /\ Call(r, row[s].there /\ pg[s] = req[r].copy.pw,
            req' = [req EXCEPT ![r].pc = "alter", ![r].new = last + 1] /\ last' = last + 1,
            End(r) /\ UNCHANGED last)
    /\ UNCHANGED <<rows, pg, pooler, cut>>

\* ALTER ROLE; when the connection breaks nobody knows whether it was done.
AlterRole(r) ==
    LET s == req[r].srv
        altered == /\ pg' = [pg EXCEPT ![s] = req[r].new]
                   /\ overtaken' = IF pg[s] = req[r].copy.pw THEN overtaken ELSE overtaken \cup {s} IN
    /\ req[r].pc = "alter"
    /\ Call(r, row[s].there,
            altered /\ Goto(r, "update") /\ NoHarm,
            End(r) /\ (UNCHANGED <<pg, overtaken, cut>> \/ (~req[r].gone /\ altered /\ Harm(s))))
    /\ UNCHANGED <<row, version, pooler, last>>

\* Mutant: a failed UPDATE is reported without altering the role back.
UpdatePassword_NoRevert(r) ==
    LET s == req[r].srv IN
    /\ req[r].pc = "update"
    /\ Call(r, row[s].there,
            /\ Write(r, s, [row[s] EXCEPT !.pw = req[r].new])
            /\ IF req[r].copy.cid # 0
               THEN req' = [req EXCEPT ![r].pc = "drop", ![r].seen = version[s] + 1]
               ELSE End(r),
            UNCHANGED rows /\ End(r))
    /\ UNCHANGED <<pg, pooler, last, cut>>

\* The pooler is recreated when the copy of the row had one.
UpdatePassword(r) ==
    LET s == req[r].srv IN
    /\ req[r].pc = "update"
    /\ Call(r, row[s].there,
            /\ Write(r, s, [row[s] EXCEPT !.pw = req[r].new])
            /\ IF req[r].copy.cid # 0
               THEN req' = [req EXCEPT ![r].pc = "drop", ![r].seen = version[s] + 1]
               ELSE End(r),
            UNCHANGED rows /\ Goto(r, "revert"))
    /\ UNCHANGED <<pg, pooler, last, cut>>

\* ALTER ROLE back, with the same context.
Revert(r) ==
    LET s == req[r].srv IN
    /\ req[r].pc = "revert"
    /\ Call(r, row[s].there,
            pg' = [pg EXCEPT ![s] = req[r].copy.pw] /\ NoHarm,
            UNCHANGED pg /\ Harm(s))
    /\ End(r)
    /\ UNCHANGED <<rows, pooler, last>>

\* recreatePooler: here a container that is missing is an error, and none of
\* its errors is more than ignored.
DropPooler(r) ==
    LET s == req[r].srv IN
    /\ req[r].pc = "drop"
    /\ Call(r, pooler[s].id = req[r].copy.cid,
            Remove(s) /\ Goto(r, "make") /\ NoHarm,
            UNCHANGED pooler /\ End(r) /\ Harm(s))
    /\ UNCHANGED <<rows, pg, last>>

\* Mutant: the new container gets the password of the copy.
RemakePooler_OldPassword(r) ==
    LET s == req[r].srv IN
    /\ req[r].pc = "make" /\ req[r].op = "rotate"
    /\ Make(r, s, req[r].copy.pw, req[r].copy.pport,
            req' = [req EXCEPT ![r].pc = "set", ![r].own = last + 1] /\ NoHarm,
            End(r) /\ Harm(s), End(r) /\ Harm(s))
    /\ UNCHANGED <<rows, pg>>

RemakePooler(r) ==
    LET s == req[r].srv IN
    /\ req[r].pc = "make" /\ req[r].op = "rotate"
    /\ Make(r, s, req[r].new, req[r].copy.pport,
            req' = [req EXCEPT ![r].pc = "set", ![r].own = last + 1] /\ NoHarm,
            End(r) /\ Harm(s), End(r) /\ Harm(s))
    /\ UNCHANGED <<rows, pg>>

ResetPooler(r) ==
    LET s == req[r].srv IN
    /\ req[r].pc = "set" /\ req[r].op = "rotate"
    /\ Call(r, row[s].there /\ \A t \in Servers \ {s} : row[t].pport # req[r].copy.pport,
            Write(r, s, [row[s] EXCEPT !.cid = req[r].own, !.pport = req[r].copy.pport]) /\ NoHarm,
            UNCHANGED rows /\ Harm(s))
    /\ End(r)
    /\ UNCHANGED <<pg, pooler, last>>

-----------------------------------------------------------------------------

\* The backend restarts; a request that had begun to change something is lost.
Crash ==
    /\ \E r \in Slots : req[r].pc # "idle"
    /\ Fault
    /\ cut' = cut \cup {req[r].srv : r \in {q \in Slots :
                  req[q].pc \in {"health", "set", "undo", "clear", "delrow", "update", "revert", "make", "drop"}}}
    /\ req' = [r \in Slots |-> Idle]
    /\ UNCHANGED <<rows, pg, pooler, last>>

Init ==
    /\ row = [s \in Servers |-> NoRow] /\ version = [s \in Servers |-> 0]
    /\ pg = [s \in Servers |-> 0] /\ pooler = [s \in Servers |-> NoPooler]
    /\ last = 0 /\ req = [r \in Slots |-> Idle]
    /\ overtaken = {} /\ cut = {} /\ budget = Budget

Handle(r) ==
    \/ AllocatePort(r) \/ InsertServer(r)
    \/ MakePooler(r) \/ WaitHealthy(r) \/ SetPooler(r) \/ UndoPooler(r)
    \/ RemovePooler(r) \/ ClearPooler(r) \/ DeleteServer(r)
    \/ Connect(r) \/ AlterRole(r) \/ UpdatePassword(r) \/ Revert(r)
    \/ DropPooler(r) \/ RemakePooler(r) \/ ResetPooler(r)

Next ==
    \/ \E r \in Slots :
          \/ \E op \in Ops, s \in Servers : Request(r, op, s)
          \/ ClientGone(r) \/ Handle(r)
    \/ Crash

Spec == Init /\ [][Next]_vars

-----------------------------------------------------------------------------
(* Safety: a handler that fails undoes what it did, and the stores agree until *)
(* a handler is cut short or writes to a row that changed since it read it.    *)

Sound(s) == row[s].there /\ s \notin overtaken \cup cut

At(s, pcs) == \E r \in Slots : req[r].srv = s /\ req[r].pc \in pcs

\* The password in the row opens the server, but for the moment between ALTER
\* ROLE and the UPDATE: a rotation that fails leaves the old one in both.
PasswordAgrees ==
    \A s \in Servers : Sound(s) /\ ~At(s, {"update", "revert"}) => pg[s] = row[s].pw

\* A pooler the row records is there, on the port recorded, unless it is just
\* being replaced or removed.
PoolerBacked ==
    \A s \in Servers :
        Sound(s) /\ Enabled(s) /\ ~At(s, {"make", "set", "clear", "delrow"}) =>
            pooler[s].id = row[s].cid /\ pooler[s].port = row[s].pport

\* A pooler nobody works on authenticates with the password in force, also
\* after a rotation (pooling.md:22).
PoolerPassword ==
    \A s \in Servers :
        Sound(s) /\ Enabled(s) /\ ~At(s, {"update", "revert", "drop", "make", "set", "clear", "delrow"}) =>
            pooler[s].pw = row[s].pw

\* A container without a record, which would make every later EnablePooling
\* fail on its name, exists only while its handler is at work.
NoOrphanPooler ==
    \A s \in Servers :
        s \notin overtaken \cup cut /\ pooler[s].id \notin {0, row[s].cid} =>
            At(s, {"health", "set", "undo"})

\* Servers and poolers never publish the same port (repo.go:190-192) unless two
\* allocations overlap.
PortsDistinct ==
    \A s, t \in Servers \ overtaken : row[s].there /\ row[t].there => row[s].port # row[t].pport

\* Row, role and pooler hold one password through every change of it.
PasswordsAgree == TypeOK /\ PasswordAgrees /\ PoolerPassword

\* A server has the pooler its row names, on a port of its own, and no other.
PoolerFollowsRow == PoolerBacked /\ NoOrphanPooler /\ PortsDistinct

=============================================================================

----------------------------- MODULE SelfUpdate -----------------------------
(***************************************************************************)
(* The update agent of the host (src/update-agent/main.go) behind the      *)
(* button that updates the platform (internal/api/update_check.go).        *)
(*                                                                         *)
(* The agent keeps a state file; an update runs in a transient systemd     *)
(* unit of its own, so that it survives the restart of the agent it        *)
(* brings about, and writes its result over the file. Handlers run         *)
(* concurrently and read the file, ask systemd and write the file in       *)
(* separate steps.                                                         *)
(***************************************************************************)
EXTENDS Naturals, FiniteSets

CONSTANTS
    Calls,      \* handlers of the agent running together
    MaxSecond,  \* bound on the clock that names the units
    NoUnit,     \* unit_name absent
    Budget      \* bound on updates, faults and reboots

UpdateAssumption == MaxSecond \in Nat /\ NoUnit \notin Nat /\ Budget \in Nat

VARIABLES
    file,       \* statePath: status and unit
    unit,       \* systemd: the step of each unit, by the second that names it
    call,       \* handlers: next step, what they read
    second,     \* time.Now().Unix() when it was last read
    raced,      \* history: two applies overlapped, or the file changed between a read and what came of it
    rest,       \* whatever else the system is made of
    budget

updateVars == <<file, unit, call, second, raced>>
Units == 0 .. MaxSecond
Quiet == [pc |-> "idle", unit |-> NoUnit]
Up(u) == u # NoUnit /\ unit[u] # "off"

UpdateTypeOK ==
    /\ file \in [status : {"idle", "running", "success", "failed", "unknown"},
                 unit : Units \cup {NoUnit}]
    /\ unit \in [Units -> {"off", "pull", "deploy", "report"}]
    /\ call \in [Calls -> [pc : {"idle", "check", "heal", "ask", "write", "launch"},
                           unit : Units \cup {NoUnit}]]
    /\ second \in Units /\ raced \in BOOLEAN

-----------------------------------------------------------------------------
Charged == budget > 0 /\ budget' = budget - 1
Keep == UNCHANGED <<rest, budget>>
CallTo(c, pc, u) == call' = [call EXCEPT ![c] = [pc |-> pc, unit |-> u]]
Done(c) == call' = [call EXCEPT ![c] = Quiet]

Applying(c) == call[c].pc \in {"write", "launch"}

\* GET /status: readState; only a running state with a unit is checked further.
Status(c) ==
    /\ call[c].pc = "idle" /\ file.status = "running" /\ file.unit # NoUnit
    /\ CallTo(c, "check", file.unit)
    /\ UNCHANGED <<file, unit, second, raced>> /\ Keep

\* unitActive of the unit that was read
CheckUnit(c) ==
    /\ call[c].pc = "check"
    /\ IF Up(call[c].unit) THEN Done(c) ELSE CallTo(c, "heal", call[c].unit)
    /\ UNCHANGED <<file, unit, second, raced>> /\ Keep

\* Mutant: the handler shows "unknown" without writing it.
Heal_OnlyShown(c) ==
    /\ call[c].pc = "heal" /\ Done(c)
    /\ UNCHANGED <<file, unit, second, raced>> /\ Keep

\* The state as it was read, with status unknown, over whatever is there now.
Heal(c) ==
    /\ call[c].pc = "heal" /\ Done(c)
    /\ file' = [status |-> "unknown", unit |-> call[c].unit]
    /\ raced' = (raced \/ file # [status |-> "running", unit |-> call[c].unit]
                       \/ Up(call[c].unit) \/ \E d \in Calls : call[d].pc = "launch")
    /\ UNCHANGED <<unit, second>> /\ Keep

\* The unit the state file calls running
RunningUnit == IF file.status = "running" THEN file.unit ELSE NoUnit

\* POST /apply: readState
Apply(c) ==
    /\ call[c].pc = "idle" /\ Charged
    /\ CallTo(c, "ask", RunningUnit)
    /\ UNCHANGED <<file, unit, second, raced, rest>>

\* The new unit is named after the second.
Goes(c) ==
    /\ \E now \in second .. MaxSecond : CallTo(c, "write", now) /\ second' = now
    /\ raced' = (raced \/ RunningUnit # call[c].unit \/ \E d \in Calls : Applying(d))

\* Mutant: POST /apply without its 409.
CheckApply_NoConflict(c) ==
    /\ call[c].pc = "ask" /\ Goes(c)
    /\ UNCHANGED <<file, unit>> /\ Keep

\* ... and unitActive: refused while the unit that was read is active.
CheckApply(c) ==
    /\ call[c].pc = "ask"
    /\ IF Up(call[c].unit) THEN Done(c) /\ UNCHANGED <<second, raced>> ELSE Goes(c)
    /\ UNCHANGED <<file, unit>> /\ Keep

\* The log is truncated and the state written, or one of them fails.
WriteState(c) ==
    /\ call[c].pc = "write"
    /\ \/ file' = [status |-> "running", unit |-> call[c].unit]
          /\ CallTo(c, "launch", call[c].unit) /\ Keep
       \/ Done(c) /\ UNCHANGED file /\ Charged /\ UNCHANGED rest
    /\ UNCHANGED <<unit, second, raced>>

\* systemd-run refuses a name that is active, and may fail for its own reasons.
Launch(c) ==
    LET u == call[c].unit
        fails == file' = [status |-> "failed", unit |-> NoUnit] /\ UNCHANGED unit
    IN
    /\ call[c].pc = "launch" /\ Done(c)
    /\ \/ ~Up(u) /\ unit' = [unit EXCEPT ![u] = "pull"] /\ UNCHANGED file /\ Keep
       \/ Up(u) /\ fails /\ Keep
       \/ fails /\ Charged /\ UNCHANGED rest
    /\ raced' = (raced \/ Up(u))
    /\ UNCHANGED second

\* cd to the repository, whose failure ends the unit without a result; git pull,
\* then setup.sh: either may fail, with or without having got to the restart of
\* the backend and of this agent, which ends the agent's handlers.
Pull(u) ==
    /\ unit[u] = "pull"
    /\ \/ unit' = [unit EXCEPT ![u] = "deploy"] /\ Keep
       \/ \E st \in {"report", "off"} : unit' = [unit EXCEPT ![u] = st] /\ Charged /\ UNCHANGED rest
    /\ UNCHANGED <<file, call, second, raced>>

AgentRestarts == call' = [c \in Calls |-> Quiet]

Deploys(u) ==
    /\ unit[u] = "deploy" /\ unit' = [unit EXCEPT ![u] = "report"]
    /\ AgentRestarts
    /\ UNCHANGED <<file, second, raced>>

\* printf ... > "$STATE_PATH": the last command of the unit
Report(u) ==
    /\ unit[u] = "report" /\ unit' = [unit EXCEPT ![u] = "off"]
    /\ \E st \in {"success", "failed"} : file' = [status |-> st, unit |-> u]
    /\ UNCHANGED <<call, second, raced>> /\ Keep

\* The host reboots: units and handlers are gone, the file stays.
HostReboots ==
    /\ Charged
    /\ unit' = [u \in Units |-> "off"] /\ AgentRestarts
    /\ UNCHANGED <<file, second, raced>>

UpdateInit ==
    /\ file = [status |-> "idle", unit |-> NoUnit]
    /\ unit = [u \in Units |-> "off"] /\ call = [c \in Calls |-> Quiet]
    /\ second = 0 /\ raced = FALSE

Answering(c) == CheckUnit(c) \/ Heal(c) \/ CheckApply(c) \/ WriteState(c) \/ Launch(c)
Updating(u) == Pull(u) \/ Report(u)

UpdateNext ==
    \/ \E c \in Calls : Answering(c) \/ Status(c) \/ Apply(c)
    \/ \E u \in Units : Updating(u)

-----------------------------------------------------------------------------
(* What has to hold *)

\* At most one update of the checkout at a time ("atualização já em andamento"),
\* unless two clicks overlapped, or the file was written between the moment a
\* click or a status request read it and the moment it acted on what it had read.
OneUpdate ==
    \A u, v \in Units : Up(u) /\ Up(v) => u = v \/ raced
=============================================================================

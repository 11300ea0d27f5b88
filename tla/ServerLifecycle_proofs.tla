----------------------- MODULE ServerLifecycle_proofs -----------------------
(* Machine-checked facts about ServerLifecycle, for any sets of servers,    *)
(* requests and ports and any budget.                                       *)
EXTENDS ServerLifecycle, TLAPS

(* The resting value of a request slot is a request. *)
LEMMA IdleType == Idle \in Request /\ Idle.pc = "idle" /\ Idle.cid = 0 /\ Idle.op = "none"
<1>1. (CHOOSE s \in Servers : TRUE) \in Servers
  BY ConstantsAssumption
<1>2. (CHOOSE p \in Ports : TRUE) \in Ports
  BY ConstantsAssumption
<1>. QED  BY <1>1, <1>2 DEF Idle, Request, ReqPC, Status, Live

(* NewContainer yields a container of the next generation. *)
LEMMA NewContainerType ==
    ASSUME TypeOK, NEW s \in Servers, NEW p \in Ports, NEW st \in {"running", "created"},
           NewContainer(s, p, st)
    PROVE  /\ ctr' \in [Servers -> Container]
           /\ volume' \in [Servers -> BOOLEAN]
           /\ conf' \in [Servers -> {"none", "written", "active"}]
  BY DEF TypeOK, NewContainer, Container, Booted

LEMMA BootType ==
    ASSUME TypeOK, NEW s \in Servers, Boot(s)
    PROVE  /\ ctr' \in [Servers -> Container]
           /\ volume' \in [Servers -> BOOLEAN]
           /\ conf' \in [Servers -> {"none", "written", "active"}]
  BY ZenonT(40) DEF TypeOK, Boot, Container, Booted

LEMMA HaltedType ==
    ASSUME ctr \in [Servers -> Container], NEW s \in Servers
    PROVE  Halted(s) \in [Servers -> Container]
  BY ZenonT(40) DEF Halted, IsRunning, Container

LEMMA SetStatusType ==
    ASSUME TypeOK, NEW s \in Servers, NEW st \in Status, SetStatus(s, st)
    PROVE  status' \in [Servers -> Status]
  BY DEF TypeOK, SetStatus

(* A call charges the budget only for a fault, and then upsets the server.  *)
LEMMA Charge ==
    ASSUME TypeOK, NEW s \in Servers, NoFault \/ Fault(s)
    PROVE  budget' \in Nat /\ upset' \in [Servers -> BOOLEAN]
<1>1. budget' \in Nat
  BY DEF TypeOK, NoFault, Fault
<1>2. upset' \in [Servers -> BOOLEAN]
  BY DEF TypeOK, NoFault, Fault, Upset
<1>. QED  BY <1>1, <1>2

(* What CreateContainer does to Docker, to the budget and to its caller.    *)
LEMMA CreateContainerType ==
    ASSUME TypeOK, NEW s \in Servers, NEW p \in Ports, NEW ACTION good, NEW ACTION bad,
           CreateContainer(s, p, good, bad)
    PROVE  /\ ctr' \in [Servers -> Container]
           /\ volume' \in [Servers -> BOOLEAN]
           /\ conf' \in [Servers -> {"none", "written", "active"}]
           /\ budget' \in Nat /\ upset' \in [Servers -> BOOLEAN]
<1>1. \/ UNCHANGED dockerVars
      \/ NewContainer(s, p, "running") \/ NewContainer(s, p, "created")
  BY Zenon DEF CreateContainer
<1>2. /\ ctr' \in [Servers -> Container]
      /\ volume' \in [Servers -> BOOLEAN]
      /\ conf' \in [Servers -> {"none", "written", "active"}]
  BY <1>1, NewContainerType DEF dockerVars, TypeOK
<1>3. NoFault \/ Fault(s) \/ (Upset(s) /\ budget' = budget)
  BY Zenon DEF CreateContainer
<1>4. budget' \in Nat /\ upset' \in [Servers -> BOOLEAN]
  <2>1. CASE Upset(s) /\ budget' = budget
    BY <2>1 DEF Upset, TypeOK
  <2>. QED  BY <1>3, <2>1, Charge
<1>. QED  BY <1>2, <1>4

(* Type correctness: every variable keeps its type, whatever interleaves.   *)
THEOREM TypeCorrect == Spec => []TypeOK
<1>1. Init => TypeOK
  BY IdleType, ConstantsAssumption DEF Init, TypeOK, Container, Provision, Request, Status, Live, ProvPC
<1>2. TypeOK /\ [Next]_vars => TypeOK'
  <2>. SUFFICES ASSUME TypeOK, [Next]_vars PROVE TypeOK'
    OBVIOUS
  <2>0. /\ status \in [Servers -> Status] /\ ctr \in [Servers -> Container]
        /\ prov \in [Servers -> Provision] /\ req \in [Reqs -> Request]
        /\ \A r \in Reqs : req[r].srv \in Servers /\ req[r].port \in Ports
    BY DEF TypeOK, Request
  <2>1. ASSUME NEW s \in Servers, NEW p \in Ports, Create(s, p) PROVE TypeOK'
    <3>1. status' \in [Servers -> Status]
      BY <2>1, <2>0 DEF Create, Status, Live
    <3>2. prov' \in [Servers -> Provision]
      BY <2>1, <2>0 DEF Create, Provision, ProvPC
    <3>3. port' \in [Servers -> Ports] /\ budget' \in Nat
      BY <2>1 DEF Create, TypeOK
    <3>. QED  BY <2>1, <3>1, <3>2, <3>3 DEF Create, TypeOK, dockerVars
  <2>2. ASSUME NEW s \in Servers, Provisioning(s) PROVE TypeOK'
      <3>1. CASE ProvGet(s)
        <4>1. prov' \in [Servers -> Provision]
          BY <3>1, <2>0 DEF ProvGet, ProvTo, Provision, ProvPC, Outcome
        <4>2. NoFault \/ Fault(s)
          BY <3>1 DEF ProvGet, Outcome
        <4>. QED  BY <3>1, <2>0, <4>1, <4>2, Charge DEF ProvGet, TypeOK, rowVars, dockerVars
      <3>2. CASE ProvVolume(s)
        <4>1. prov' \in [Servers -> Provision]
          BY <3>2, <2>0 DEF ProvVolume, ProvTo, Provision, ProvPC, Outcome
        <4>2. volume' \in [Servers -> BOOLEAN]
          BY <3>2, <2>0 DEF ProvVolume, Outcome, TypeOK
        <4>3. NoFault \/ Fault(s)
          BY <3>2 DEF ProvVolume, Outcome
        <4>. QED  BY <3>2, <2>0, <4>1, <4>2, <4>3, Charge DEF ProvVolume, TypeOK, rowVars, dockerVars
    <3>3. CASE ProvCreate(s)
      <4>1. /\ ctr' \in [Servers -> Container]
            /\ volume' \in [Servers -> BOOLEAN]
            /\ conf' \in [Servers -> {"none", "written", "active"}]
            /\ budget' \in Nat /\ upset' \in [Servers -> BOOLEAN]
        <5>1. port[s] \in Ports
          BY DEF TypeOK
        <5>. QED  BY <3>3, <5>1, CreateContainerType DEF ProvCreate
      <4>2. prov' \in [Servers -> Provision]
        <5>1. ctr[s].gen + 1 \in Nat
          BY <2>0 DEF Container
        <5>. QED  BY <3>3, <2>0, <5>1, SMTT(40) DEF ProvCreate, CreateContainer, ProvTo, Provision, ProvPC
      <4>. QED  BY <3>3, <4>1, <4>2 DEF ProvCreate, TypeOK, rowVars
      <3>4. CASE ProvSetContainerID(s)
        <4>1. prov' \in [Servers -> Provision]
          BY <3>4, <2>0 DEF ProvSetContainerID, ProvTo, Provision, ProvPC, Outcome
        <4>2. cid' \in [Servers -> Nat]
          BY <3>4, <2>0 DEF ProvSetContainerID, Outcome, TypeOK, Provision
        <4>3. NoFault \/ Fault(s)
          BY <3>4 DEF ProvSetContainerID, Outcome
        <4>. QED  BY <3>4, <2>0, <4>1, <4>2, <4>3, Charge DEF ProvSetContainerID, TypeOK, rowVars, dockerVars
      <3>5. CASE ProvWaitHealthy(s, "wait1", "ready1") \/ ProvWaitHealthy(s, "wait2", "ready2")
        <4>1. prov' \in [Servers -> Provision]
          BY <3>5, <2>0 DEF ProvWaitHealthy, ProvTo, Provision, ProvPC, Outcome
        <4>2. NoFault \/ Fault(s)
          BY <3>5 DEF ProvWaitHealthy, Outcome
        <4>. QED  BY <3>5, <2>0, <4>1, <4>2, Charge DEF ProvWaitHealthy, TypeOK, rowVars, dockerVars
      <3>6. CASE ProvReady(s, "ready1", "settings") \/ ProvReady(s, "ready2", "extension") \/ ProvExtension(s)
        <4>1. prov' \in [Servers -> Provision]
          BY <3>6, <2>0 DEF ProvReady, ProvExtension, ProvTo, Provision, ProvPC, Outcome
        <4>2. NoFault \/ Fault(s)
          BY <3>6 DEF ProvReady, ProvExtension, Outcome
        <4>. QED  BY <3>6, <2>0, <4>1, <4>2, Charge DEF ProvReady, ProvExtension, TypeOK, rowVars, dockerVars
      <3>7. CASE ProvSettings(s)
        <4>1. prov' \in [Servers -> Provision]
          BY <3>7, <2>0 DEF ProvSettings, ProvTo, Provision, ProvPC, Outcome
        <4>2. conf' \in [Servers -> {"none", "written", "active"}]
          BY <3>7, <2>0 DEF ProvSettings, Outcome, TypeOK
        <4>3. NoFault \/ Fault(s)
          BY <3>7 DEF ProvSettings, Outcome
        <4>. QED  BY <3>7, <2>0, <4>1, <4>2, <4>3, Charge DEF ProvSettings, TypeOK, rowVars, dockerVars
      <3>8. CASE ProvRestart(s)
        <4>1. prov' \in [Servers -> Provision]
          BY <3>8, <2>0 DEF ProvRestart, ProvTo, Provision, ProvPC, Outcome
        <4>2. NoFault \/ Fault(s)
          BY <3>8 DEF ProvRestart, Outcome
      <4>3. Boot(s) \/ UNCHANGED dockerVars
        BY <3>8 DEF ProvRestart, Outcome
      <4>4. /\ ctr' \in [Servers -> Container]
            /\ volume' \in [Servers -> BOOLEAN]
            /\ conf' \in [Servers -> {"none", "written", "active"}]
        BY <4>3, BootType DEF TypeOK, dockerVars
      <4>. QED  BY <3>8, <4>1, <4>2, <4>4, Charge DEF ProvRestart, TypeOK, rowVars
    <3>9. CASE ProvFinish(s)
      <4>1. prov' \in [Servers -> Provision]
        BY <3>9, <2>0 DEF ProvFinish, ProvTo, Provision, ProvPC
      <4>2. status' \in [Servers -> Status]
        BY <3>9, <2>0 DEF ProvFinish, Outcome, SetStatus, Status, Live
      <4>3. NoFault \/ Fault(s)
        BY <3>9 DEF ProvFinish, Outcome
      <4>. QED  BY <3>9, <4>1, <4>2, <4>3, Charge DEF ProvFinish, TypeOK, dockerVars
    <3>. QED  BY <2>2, <3>1, <3>2, <3>3, <3>4, <3>5, <3>6, <3>7, <3>8, <3>9 DEF Provisioning
  <2>3. ASSUME NEW s \in Servers, PostgresUp(s) \/ StoppedOutside(s) PROVE TypeOK'
    <3>1. ctr' \in [Servers -> Container]
      <4>1. CASE PostgresUp(s)
        <5>1. ctr' = [ctr EXCEPT ![s].ready = TRUE]
          BY <4>1 DEF PostgresUp
        <5>. QED  BY <5>1, <2>0 DEF Container
      <4>2. CASE StoppedOutside(s)
        BY <4>2, <2>0, HaltedType DEF StoppedOutside
      <4>. QED  BY <2>3, <4>1, <4>2
    <3>2. budget' \in Nat /\ upset' = upset
      BY <2>3 DEF PostgresUp, StoppedOutside, Charged, TypeOK
    <3>. QED  BY <2>3, <3>1, <3>2 DEF PostgresUp, StoppedOutside, TypeOK, rowVars
  <2>4. ASSUME NEW s \in Servers, NEW r \in Reqs, UserRequest(r, s) \/ Poll(r, s) PROVE TypeOK'
    <3>1. req' \in [Reqs -> Request]
      <4>1. status[s] \in Status /\ cid[s] \in Nat
        BY DEF TypeOK
      <4>2. ASSUME NEW op \in Ops \cup {"get"}, NEW pc \in ReqPC, NEW next \in Status,
                   NEW p \in Ports, NEW keep \in BOOLEAN, Read(r, op, s, pc, next, p, keep)
            PROVE  req' \in [Reqs -> Request]
        BY <4>1, <4>2, <2>0 DEF Read, Request
      <4>3. Idle.port \in Ports /\ FALSE \in BOOLEAN
        BY IdleType DEF Request
      <4>4. {"docker", "mark", "stop", "inspect"} \subseteq ReqPC
            /\ {"running", "stopped", "restarting", "removing"} \subseteq Status
        BY DEF ReqPC, Status, Live
      <4>5. CASE StartStop(r, s)
        BY <4>2, <4>3, <4>4, <4>5 DEF StartStop
      <4>6. CASE \E p \in Ports : ChangePort(r, s, p)
        BY <4>2, <4>3, <4>4, <4>6 DEF ChangePort
      <4>7. CASE \E keep \in BOOLEAN : Delete(r, s, keep)
        BY <4>2, <4>3, <4>4, <4>7 DEF Delete
      <4>8. CASE Poll(r, s)
        BY <4>1, <4>2, <4>3, <4>4, <4>8 DEF Poll
      <4>. QED  BY <2>4, <4>5, <4>6, <4>7, <4>8 DEF UserRequest
    <3>2. UNCHANGED <<rowVars, dockerVars, prov>> /\ (NoFault \/ Charged)
      BY <2>4 DEF UserRequest, StartStop, ChangePort, Delete, Poll, Read
    <3>3. budget' \in Nat /\ upset' = upset
      BY <3>2 DEF NoFault, Charged, TypeOK
    <3>. QED  BY <3>1, <3>2, <3>3 DEF TypeOK, rowVars, dockerVars
  <2>5. ASSUME NEW r \in Reqs, Handling(r) PROVE TypeOK'
    <3>. DEFINE s == req[r].srv
    <3>0. s \in Servers /\ req[r].port \in Ports /\ req[r] \in Request
      BY <2>0
      <3>1. CASE Mark(r)
        <4>1. req' \in [Reqs -> Request]
          BY <3>1, <2>0, IdleType DEF Mark, Outcome, To, Finish, SaveNext, Request, ReqPC, Status, Live
        <4>2. status' \in [Servers -> Status]
          BY <3>1, <2>0 DEF Mark, Outcome, SetStatus, Status, Live
        <4>3. NoFault \/ Fault(s)
          BY <3>1 DEF Mark, Outcome
        <4>. QED  BY <3>1, <2>0, <4>1, <4>2, <4>3, Charge DEF Mark, TypeOK, rowVars, dockerVars
      <3>2. CASE Inspect(r)
        <4>1. req' \in [Reqs -> Request]
          BY <3>2, <2>0, IdleType DEF Inspect, Outcome, To, Finish, SaveNext, Request, ReqPC, Status, Live, LiveStatus
        <4>2. NoFault \/ Fault(s)
          BY <3>2 DEF Inspect, Outcome
        <4>. QED  BY <3>2, <2>0, <4>1, <4>2, Charge DEF Inspect, TypeOK, rowVars, dockerVars
      <3>3. CASE DockerStart(r)
        <4>1. req' \in [Reqs -> Request]
          BY <3>3, <2>0, IdleType DEF DockerStart, Outcome, To, Finish, SaveNext, Request, ReqPC, Status, Live
        <4>2. NoFault \/ Fault(s)
          BY <3>3 DEF DockerStart, Outcome
      <4>3. Boot(s) \/ UNCHANGED dockerVars
        BY <3>3 DEF DockerStart, Outcome
      <4>4. /\ ctr' \in [Servers -> Container]
            /\ volume' \in [Servers -> BOOLEAN]
            /\ conf' \in [Servers -> {"none", "written", "active"}]
        BY <3>0, <4>3, BootType DEF TypeOK, dockerVars
      <4>. QED  BY <3>3, <3>0, <4>1, <4>2, <4>4, Charge DEF DockerStart, TypeOK, rowVars
      <3>4. CASE DockerStop(r)
        <4>1. req' \in [Reqs -> Request]
          BY <3>4, <2>0, IdleType DEF DockerStop, Outcome, To, Finish, SaveNext, Request, ReqPC, Status, Live
        <4>2. ctr' \in [Servers -> Container]
          BY <3>4, <2>0 DEF DockerStop, Outcome, Halted, Container
        <4>3. NoFault \/ Fault(s)
          BY <3>4 DEF DockerStop, Outcome
        <4>. QED  BY <3>4, <2>0, <4>1, <4>2, <4>3, Charge DEF DockerStop, TypeOK, rowVars, dockerVars
      <3>5. CASE DockerRestart(r)
        <4>1. req' \in [Reqs -> Request]
          BY <3>5, <2>0, IdleType, SMTT(40) DEF DockerRestart, Outcome, To, Finish, SaveNext, Request, ReqPC, Status, Live
        <4>2. NoFault \/ Fault(s)
          BY <3>5 DEF DockerRestart, Outcome
      <4>3. Boot(s) \/ UNCHANGED dockerVars
        BY <3>5 DEF DockerRestart, Outcome
      <4>4. /\ ctr' \in [Servers -> Container]
            /\ volume' \in [Servers -> BOOLEAN]
            /\ conf' \in [Servers -> {"none", "written", "active"}]
        BY <3>0, <4>3, BootType DEF TypeOK, dockerVars
      <4>. QED  BY <3>5, <3>0, <4>1, <4>2, <4>4, Charge DEF DockerRestart, TypeOK, rowVars
      <3>6. CASE SaveStatus(r)
        <4>1. req' \in [Reqs -> Request]
          BY <3>6, <2>0, IdleType DEF SaveStatus, Finish
        <4>2. status' \in [Servers -> Status]
          BY <3>6, <2>0, <3>0 DEF SaveStatus, Outcome, SetStatus, Request
        <4>3. NoFault \/ Fault(s)
          BY <3>6 DEF SaveStatus, Outcome
        <4>. QED  BY <3>6, <2>0, <4>1, <4>2, <4>3, Charge DEF SaveStatus, TypeOK, rowVars, dockerVars
      <3>7. CASE RemoveContainer(r)
        <4>1. req' \in [Reqs -> Request]
          BY <3>7, <2>0, IdleType DEF RemoveContainer, Outcome, To, Finish, SaveNext, Request, ReqPC, Status, Live
        <4>2. ctr' \in [Servers -> Container]
          BY <3>7, <2>0, SMTT(40) DEF RemoveContainer, Outcome, Container
        <4>3. NoFault \/ Fault(s)
          BY <3>7 DEF RemoveContainer, Outcome
        <4>. QED  BY <3>7, <2>0, <4>1, <4>2, <4>3, Charge DEF RemoveContainer, TypeOK, rowVars, dockerVars
      <3>8. CASE RemoveVolume(r)
        <4>1. req' \in [Reqs -> Request]
          BY <3>8, <2>0, IdleType DEF RemoveVolume, Outcome, To, Finish, SaveNext, Request, ReqPC, Status, Live
        <4>2. volume' \in [Servers -> BOOLEAN]
          BY <3>8, <2>0 DEF RemoveVolume, Outcome, TypeOK
        <4>3. conf' \in [Servers -> {"none", "written", "active"}]
          BY <3>8, <2>0 DEF RemoveVolume, Outcome, TypeOK
        <4>4. NoFault \/ Fault(s)
          BY <3>8 DEF RemoveVolume, Outcome
        <4>. QED  BY <3>8, <2>0, <4>1, <4>2, <4>3, <4>4, Charge DEF RemoveVolume, TypeOK, rowVars, dockerVars
      <3>9. CASE DeleteRow(r)
        <4>1. req' \in [Reqs -> Request]
          BY <3>9, <2>0, IdleType DEF DeleteRow, Outcome, To, Finish, SaveNext, Request, ReqPC, Status, Live
        <4>2. status' \in [Servers -> Status]
          BY <3>9, <2>0 DEF DeleteRow, Outcome, Status, Live
        <4>3. NoFault \/ Fault(s)
          BY <3>9 DEF DeleteRow, Outcome
        <4>. QED  BY <3>9, <2>0, <4>1, <4>2, <4>3, Charge DEF DeleteRow, TypeOK, rowVars, dockerVars
    <3>10. CASE RecreateContainer(r)
      <4>1. /\ ctr' \in [Servers -> Container]
            /\ volume' \in [Servers -> BOOLEAN]
            /\ conf' \in [Servers -> {"none", "written", "active"}]
            /\ budget' \in Nat /\ upset' \in [Servers -> BOOLEAN]
        BY <3>10, <3>0, CreateContainerType DEF RecreateContainer
      <4>2. req' \in [Reqs -> Request]
        <5>1. ctr[s].gen + 1 \in Nat
          BY <2>0, <3>0 DEF Container
        <5>. QED  BY <3>10, <2>0, <5>1 DEF RecreateContainer, CreateContainer, SaveNext, Request, ReqPC, Status, Live
      <4>. QED  BY <3>10, <4>1, <4>2 DEF RecreateContainer, TypeOK, rowVars
      <3>11. CASE SetContainerID(r)
        <4>1. req' \in [Reqs -> Request]
          BY <3>11, <2>0, IdleType DEF SetContainerID, Outcome, To, Finish, SaveNext, Request, ReqPC, Status, Live
        <4>2. cid' \in [Servers -> Nat]
          BY <3>11, <2>0, <3>0 DEF SetContainerID, Outcome, TypeOK, Request
        <4>3. NoFault \/ Fault(s)
          BY <3>11 DEF SetContainerID, Outcome
        <4>. QED  BY <3>11, <2>0, <4>1, <4>2, <4>3, Charge DEF SetContainerID, TypeOK, rowVars, dockerVars
      <3>12. CASE UpdateHostPort(r)
        <4>1. req' \in [Reqs -> Request]
          BY <3>12, <2>0, IdleType DEF UpdateHostPort, Outcome, To, Finish, SaveNext, Request, ReqPC, Status, Live
        <4>2. port' \in [Servers -> Ports]
          BY <3>12, <2>0, <3>0 DEF UpdateHostPort, Outcome, TypeOK, Request
        <4>3. NoFault \/ Fault(s)
          BY <3>12 DEF UpdateHostPort, Outcome
        <4>. QED  BY <3>12, <2>0, <4>1, <4>2, <4>3, Charge DEF UpdateHostPort, TypeOK, rowVars, dockerVars
      <3>13. CASE Settle(r)
        <4>1. req' \in [Reqs -> Request]
          BY <3>13, <2>0, IdleType DEF Settle, Outcome, To, Finish, SaveNext, Request, ReqPC, Status, Live
        <4>2. ctr' \in [Servers -> Container]
          BY <3>13, <2>0 DEF Settle, Outcome, Halted, Container
        <4>3. NoFault \/ Fault(s)
          BY <3>13 DEF Settle, Outcome
        <4>. QED  BY <3>13, <2>0, <4>1, <4>2, <4>3, Charge DEF Settle, TypeOK, rowVars, dockerVars
    <3>. QED
      BY <2>5, <3>1, <3>2, <3>3, <3>4, <3>5, <3>6, <3>7, <3>8, <3>9, <3>10, <3>11, <3>12, <3>13 DEF Handling
  <2>6. ASSUME Crash PROVE TypeOK'
    <3>1. prov' \in [Servers -> Provision]
      BY <2>6, <2>0 DEF Crash, Provision, ProvPC
    <3>2. req' \in [Reqs -> Request]
      BY <2>6, IdleType DEF Crash
    <3>3. budget' \in Nat /\ upset' \in [Servers -> BOOLEAN]
      BY <2>6 DEF Crash, InFlight, TypeOK
    <3>. QED  BY <2>6, <3>1, <3>2, <3>3 DEF Crash, TypeOK, rowVars, dockerVars
  <2>7. CASE UNCHANGED vars
    BY <2>7 DEF vars, TypeOK
  <2>. QED  BY <2>1, <2>2, <2>3, <2>4, <2>5, <2>6, <2>7 DEF Next
<1>. QED  BY <1>1, <1>2, PTL DEF Spec

-----------------------------------------------------------------------------
(* Requests and provision hand the container of a server on one at a time: *)
(* the inductive invariant HandedOver of ServerLifecycle, and from it       *)
(* ContainerBacked, DataKept and DeleteLeavesNoContainer.                   *)
(* What a handler may do to its own slot.                                   *)
Rests(r)   == req'[r] = Idle
Advances(r) == /\ req'[r].srv = req[r].srv /\ req'[r].op = req[r].op
               /\ req'[r].cid = req[r].cid

(* What an action of another server leaves alone.                           *)
Untouched(s) ==
    /\ status'[s] = status[s] /\ cid'[s] = cid[s]
    /\ ctr'[s] = ctr[s] /\ volume'[s] = volume[s]

(* A handler rewrites its own slot and touches its own server.              *)
LEMMA HandlingSlot ==
    ASSUME TypeOK, NEW r \in Reqs, Handling(r)
    PROVE  /\ \A t \in Reqs \ {r} : req'[t] = req[t]
           /\ Rests(r) \/ Advances(r)
           /\ prov' = prov
           /\ \A s \in Servers \ {req[r].srv} : Untouched(s)
<1>0. req \in [Reqs -> Request] /\ status \in [Servers -> Status] /\ cid \in [Servers -> Nat]
      /\ ctr \in [Servers -> Container] /\ volume \in [Servers -> BOOLEAN]
  BY DEF TypeOK
<1>1. CASE Mark(r)
  <2>1. (\A t \in Reqs \ {r} : req'[t] = req[t]) /\ (Rests(r) \/ Advances(r))
    BY <1>1, <1>0 DEF Mark, Outcome, To, Finish, SaveNext, Rests, Advances, Request
  <2>2. prov' = prov
    BY <1>1 DEF Mark
  <2>3. \A s \in Servers \ {req[r].srv} : Untouched(s)
    BY <1>1, <1>0 DEF Mark, Outcome, Untouched, rowVars, dockerVars, SetStatus
  <2>. QED  BY <2>1, <2>2, <2>3
<1>2. CASE Inspect(r)
  <2>1. (\A t \in Reqs \ {r} : req'[t] = req[t]) /\ (Rests(r) \/ Advances(r))
    BY <1>2, <1>0 DEF Inspect, Outcome, To, Finish, SaveNext, Rests, Advances, Request
  <2>2. prov' = prov
    BY <1>2 DEF Inspect
  <2>3. \A s \in Servers \ {req[r].srv} : Untouched(s)
    BY <1>2, <1>0 DEF Inspect, Outcome, Untouched, rowVars, dockerVars
  <2>. QED  BY <2>1, <2>2, <2>3
<1>3. CASE DockerStart(r)
  <2>1. (\A t \in Reqs \ {r} : req'[t] = req[t]) /\ (Rests(r) \/ Advances(r))
    BY <1>3, <1>0 DEF DockerStart, Outcome, To, Finish, SaveNext, Rests, Advances, Request
  <2>2. prov' = prov
    BY <1>3 DEF DockerStart
  <2>3. \A s \in Servers \ {req[r].srv} : Untouched(s)
    BY <1>3, <1>0 DEF DockerStart, Outcome, Untouched, rowVars, dockerVars, Boot
  <2>. QED  BY <2>1, <2>2, <2>3
<1>4. CASE DockerStop(r)
  <2>1. (\A t \in Reqs \ {r} : req'[t] = req[t]) /\ (Rests(r) \/ Advances(r))
    BY <1>4, <1>0 DEF DockerStop, Outcome, To, Finish, SaveNext, Rests, Advances, Request
  <2>2. prov' = prov
    BY <1>4 DEF DockerStop
  <2>3. \A s \in Servers \ {req[r].srv} : Untouched(s)
    BY <1>4, <1>0 DEF DockerStop, Outcome, Untouched, rowVars, dockerVars, Halted
  <2>. QED  BY <2>1, <2>2, <2>3
<1>5. CASE DockerRestart(r)
  <2>1. (\A t \in Reqs \ {r} : req'[t] = req[t]) /\ (Rests(r) \/ Advances(r))
    BY <1>5, <1>0 DEF DockerRestart, Outcome, To, Finish, SaveNext, Rests, Advances, Request
  <2>2. prov' = prov
    BY <1>5 DEF DockerRestart
  <2>3. \A s \in Servers \ {req[r].srv} : Untouched(s)
    BY <1>5, <1>0 DEF DockerRestart, Outcome, Untouched, rowVars, dockerVars, Boot
  <2>. QED  BY <2>1, <2>2, <2>3
<1>6. CASE SaveStatus(r)
  <2>1. (\A t \in Reqs \ {r} : req'[t] = req[t]) /\ (Rests(r) \/ Advances(r))
    BY <1>6, <1>0 DEF SaveStatus, Outcome, To, Finish, SaveNext, Rests, Advances, Request
  <2>2. prov' = prov
    BY <1>6 DEF SaveStatus
  <2>3. \A s \in Servers \ {req[r].srv} : Untouched(s)
    BY <1>6, <1>0 DEF SaveStatus, Outcome, Untouched, rowVars, dockerVars, SetStatus
  <2>. QED  BY <2>1, <2>2, <2>3
<1>7. CASE RemoveContainer(r)
  <2>1. (\A t \in Reqs \ {r} : req'[t] = req[t]) /\ (Rests(r) \/ Advances(r))
    BY <1>7, <1>0 DEF RemoveContainer, Outcome, To, Finish, SaveNext, Rests, Advances, Request
  <2>2. prov' = prov
    BY <1>7 DEF RemoveContainer
  <2>3. \A s \in Servers \ {req[r].srv} : Untouched(s)
    BY <1>7, <1>0 DEF RemoveContainer, Outcome, Untouched, rowVars, dockerVars
  <2>. QED  BY <2>1, <2>2, <2>3
<1>8. CASE RemoveVolume(r)
  <2>1. (\A t \in Reqs \ {r} : req'[t] = req[t]) /\ (Rests(r) \/ Advances(r))
    BY <1>8, <1>0 DEF RemoveVolume, Outcome, To, Finish, SaveNext, Rests, Advances, Request
  <2>2. prov' = prov
    BY <1>8 DEF RemoveVolume
  <2>3. \A s \in Servers \ {req[r].srv} : Untouched(s)
    BY <1>8, <1>0 DEF RemoveVolume, Outcome, Untouched, rowVars, dockerVars
  <2>. QED  BY <2>1, <2>2, <2>3
<1>9. CASE DeleteRow(r)
  <2>1. (\A t \in Reqs \ {r} : req'[t] = req[t]) /\ (Rests(r) \/ Advances(r))
    BY <1>9, <1>0 DEF DeleteRow, Outcome, To, Finish, SaveNext, Rests, Advances, Request
  <2>2. prov' = prov
    BY <1>9 DEF DeleteRow
  <2>3. \A s \in Servers \ {req[r].srv} : Untouched(s)
    BY <1>9, <1>0 DEF DeleteRow, Outcome, Untouched, rowVars, dockerVars
  <2>. QED  BY <2>1, <2>2, <2>3
<1>10. CASE RecreateContainer(r)
  <2>1. (\A t \in Reqs \ {r} : req'[t] = req[t]) /\ (Rests(r) \/ Advances(r))
    BY <1>10, <1>0 DEF RecreateContainer, Outcome, To, Finish, SaveNext, Rests, Advances, Request, CreateContainer
  <2>2. prov' = prov
    BY <1>10 DEF RecreateContainer
  <2>3. \A s \in Servers \ {req[r].srv} : Untouched(s)
    BY <1>10, <1>0 DEF RecreateContainer, Outcome, Untouched, rowVars, dockerVars, CreateContainer, NewContainer
  <2>. QED  BY <2>1, <2>2, <2>3
<1>11. CASE SetContainerID(r)
  <2>1. (\A t \in Reqs \ {r} : req'[t] = req[t]) /\ (Rests(r) \/ Advances(r))
    BY <1>11, <1>0 DEF SetContainerID, Outcome, To, Finish, SaveNext, Rests, Advances, Request
  <2>2. prov' = prov
    BY <1>11 DEF SetContainerID
  <2>3. \A s \in Servers \ {req[r].srv} : Untouched(s)
    BY <1>11, <1>0 DEF SetContainerID, Outcome, Untouched, rowVars, dockerVars
  <2>. QED  BY <2>1, <2>2, <2>3
<1>12. CASE UpdateHostPort(r)
  <2>1. (\A t \in Reqs \ {r} : req'[t] = req[t]) /\ (Rests(r) \/ Advances(r))
    BY <1>12, <1>0 DEF UpdateHostPort, Outcome, To, Finish, SaveNext, Rests, Advances, Request
  <2>2. prov' = prov
    BY <1>12 DEF UpdateHostPort
  <2>3. \A s \in Servers \ {req[r].srv} : Untouched(s)
    BY <1>12, <1>0 DEF UpdateHostPort, Outcome, Untouched, rowVars, dockerVars
  <2>. QED  BY <2>1, <2>2, <2>3
<1>13. CASE Settle(r)
  <2>1. (\A t \in Reqs \ {r} : req'[t] = req[t]) /\ (Rests(r) \/ Advances(r))
    BY <1>13, <1>0 DEF Settle, Outcome, To, Finish, SaveNext, Rests, Advances, Request
  <2>2. prov' = prov
    BY <1>13 DEF Settle
  <2>3. \A s \in Servers \ {req[r].srv} : Untouched(s)
    BY <1>13, <1>0 DEF Settle, Outcome, Untouched, rowVars, dockerVars, Halted
  <2>. QED  BY <2>1, <2>2, <2>3
<1>. QED  BY <1>1, <1>2, <1>3, <1>4, <1>5, <1>6, <1>7, <1>8, <1>9, <1>10, <1>11, <1>12, <1>13 DEF Handling

(* A request starts with what its handler read, for its own server only.    *)
LEMMA ReadSlot ==
    ASSUME TypeOK, NEW s \in Servers, NEW r \in Reqs, UserRequest(r, s) \/ Poll(r, s)
    PROVE  /\ \A t \in Reqs \ {r} : req'[t] = req[t]
           /\ req[r].pc = "idle" /\ Present(s)
           /\ req'[r].srv = s /\ req'[r].cid = cid[s] /\ req'[r].next \in Live
           /\ \/ req'[r].op = "start" /\ req'[r].pc = "docker" /\ cid[s] # 0
              \/ req'[r].op = "stop" /\ req'[r].pc = "docker" /\ cid[s] # 0
              \/ req'[r].op = "restart" /\ req'[r].pc = "mark" /\ cid[s] # 0
              \/ req'[r].op = "port" /\ req'[r].pc = "stop" /\ cid[s] # 0
              \/ req'[r].op = "delete" /\ req'[r].pc = "mark"
              \/ req'[r].op = "get" /\ req'[r].pc = "inspect" /\ cid[s] # 0
           /\ UNCHANGED <<rowVars, dockerVars, prov>>
<1>0. req \in [Reqs -> Request]
  BY DEF TypeOK
<1>1. CASE StartStop(r, s)
  BY <1>1, <1>0 DEF StartStop, Read, Live
<1>2. CASE \E p \in Ports : ChangePort(r, s, p)
  BY <1>2, <1>0 DEF ChangePort, Read, Live
<1>3. CASE \E keep \in BOOLEAN : Delete(r, s, keep)
  BY <1>3, <1>0 DEF Delete, Read, Live
<1>4. CASE Poll(r, s)
  BY <1>4, <1>0 DEF Poll, Read, Present
<1>. QED  BY <1>1, <1>2, <1>3, <1>4 DEF UserRequest

(* Handlers follow their routes, whatever the others do.                    *)
LEMMA RouteKept ==
    ASSUME TypeOK, RequestRoute, [Next]_vars
    PROVE  RequestRoute'
<1>0. req \in [Reqs -> Request]
  BY DEF TypeOK
<1>1. ASSUME NEW s \in Servers, NEW r \in Reqs, UserRequest(r, s) \/ Poll(r, s) PROVE RequestRoute'
  BY <1>1, <1>0, ReadSlot DEF RequestRoute
<1>2. ASSUME NEW r \in Reqs, Handling(r) PROVE RequestRoute'
  <2>1. CASE Mark(r)
    BY <2>1, <1>0, IdleType DEF Mark, Outcome, To, Finish, SaveNext, RequestRoute, Request, Live
  <2>2. CASE Inspect(r)
    BY <2>2, <1>0, IdleType DEF Inspect, Outcome, To, Finish, SaveNext, RequestRoute, Request, Live, LiveStatus
  <2>3. CASE DockerStart(r)
    BY <2>3, <1>0, IdleType DEF DockerStart, Outcome, To, Finish, SaveNext, RequestRoute, Request, Live
  <2>4. CASE DockerStop(r)
    BY <2>4, <1>0, IdleType DEF DockerStop, Outcome, To, Finish, SaveNext, RequestRoute, Request, Live
  <2>5. CASE DockerRestart(r)
    BY <2>5, <1>0, IdleType DEF DockerRestart, Outcome, To, Finish, SaveNext, RequestRoute, Request, Live
  <2>6. CASE SaveStatus(r)
    BY <2>6, <1>0, IdleType DEF SaveStatus, Outcome, To, Finish, SaveNext, RequestRoute, Request, Live
  <2>7. CASE RemoveContainer(r)
    BY <2>7, <1>0, IdleType DEF RemoveContainer, Outcome, To, Finish, SaveNext, RequestRoute, Request, Live
  <2>8. CASE RemoveVolume(r)
    BY <2>8, <1>0, IdleType DEF RemoveVolume, Outcome, To, Finish, SaveNext, RequestRoute, Request, Live
  <2>9. CASE DeleteRow(r)
    BY <2>9, <1>0, IdleType DEF DeleteRow, Outcome, To, Finish, SaveNext, RequestRoute, Request, Live
  <2>10. CASE RecreateContainer(r)
    BY <2>10, <1>0, IdleType DEF RecreateContainer, Outcome, To, Finish, SaveNext, RequestRoute, Request, Live, CreateContainer
  <2>11. CASE SetContainerID(r)
    BY <2>11, <1>0, IdleType DEF SetContainerID, Outcome, To, Finish, SaveNext, RequestRoute, Request, Live
  <2>12. CASE UpdateHostPort(r)
    BY <2>12, <1>0, IdleType DEF UpdateHostPort, Outcome, To, Finish, SaveNext, RequestRoute, Request, Live
  <2>13. CASE Settle(r)
    BY <2>13, <1>0, IdleType DEF Settle, Outcome, To, Finish, SaveNext, RequestRoute, Request, Live
  <2>. QED  BY <1>2, <2>1, <2>2, <2>3, <2>4, <2>5, <2>6, <2>7, <2>8, <2>9, <2>10, <2>11, <2>12, <2>13 DEF Handling
<1>3. CASE Crash
  BY <1>3, <1>0, IdleType DEF Crash, RequestRoute
<1>4. CASE UNCHANGED req
  BY <1>4 DEF RequestRoute
<1>5. ASSUME NEW s \in Servers,
             (\E p \in Ports : Create(s, p)) \/ Provisioning(s) \/ PostgresUp(s) \/ StoppedOutside(s)
      PROVE  UNCHANGED req
  BY <1>5 DEF Create, Provisioning, PostgresUp, StoppedOutside, ProvGet, ProvVolume, ProvCreate,
     ProvSetContainerID, ProvWaitHealthy, ProvReady, ProvSettings, ProvRestart, ProvExtension, ProvFinish
<1>. QED  BY <1>1, <1>2, <1>3, <1>4, <1>5 DEF Next, vars

(* A step that leaves the container of s, and the gap, to whom they belong. *)
Steady(s) ==
    /\ cid'[s] = cid[s] /\ volume'[s] = volume[s] /\ ctr'[s].gen = ctr[s].gen
    /\ Gone(s)' <=> Gone(s)
    /\ status'[s] = status[s] \/ (Present(s) /\ Present(s)')
    /\ \/ prov'[s] = prov[s]
       \/ prov[s].pc # "idle" /\ prov'[s].pc \notin {"get", "volume", "create", "setcid"}
    /\ \A r \in Reqs :
          /\ req'[r].srv = s => req'[r].cid <= cid[s]
          /\ InGap(r, s)' <=> InGap(r, s)
          /\ InGap(r, s) => req'[r].pc = req[r].pc /\ req'[r].gen = req[r].gen
          /\ req[r].srv = s /\ req[r].op = "delete" /\ req[r].pc = "rowdel" => req'[r] = req[r]

LEMMA SteadyKeeps ==
    ASSUME NEW s \in Servers, Undisturbed(s), Steady(s)
    PROVE  Undisturbed(s)'
<1>1. IdsOrdered(s)'
  BY DEF Undisturbed, Steady, IdsOrdered
<1>2. ProvisionAlone(s)'
  BY DEF Undisturbed, Steady, ProvisionAlone, Present, Live, Gone, Exists
<1>3. GapExclusive(s)'
  <2>. SUFFICES ASSUME NEW r \in Reqs, InGap(r, s)'
                PROVE  /\ IF req'[r].pc = "setcid"
                          THEN Exists(s, req[r].gen)' /\ cid'[s] < ctr'[s].gen
                          ELSE Gone(s)'
                       /\ req'[r].gen = req[r].gen
                       /\ \A t \in Reqs : InGap(t, s)' => t = r
    BY DEF GapExclusive, Exists
  <2>1. InGap(r, s) /\ req'[r].pc = req[r].pc /\ req'[r].gen = req[r].gen
    BY DEF Steady
  <2>2. \A t \in Reqs : InGap(t, s)' => t = r
    BY <2>1 DEF Undisturbed, Steady, GapExclusive
  <2>. QED  BY <2>1, <2>2 DEF Undisturbed, Steady, GapExclusive, Exists, Gone
<1>4. BackedAt(s)'
  BY DEF Undisturbed, Steady, BackedAt, Present, Exists, Gone
<1>5. KeptAt(s)'
  BY DEF Undisturbed, Steady, KeptAt, Present
<1>. QED  BY <1>1, <1>2, <1>3, <1>4, <1>5 DEF Undisturbed

(* A slot is left alone, or serves some other server.                       *)
Elsewhere(r, s) == req'[r] = req[r] \/ (req[r].srv # s /\ (Rests(r) \/ Advances(r)))

(* What happens to one server is steady for every other.                    *)
LEMMA UntouchedSteady ==
    ASSUME TypeOK, NEW s \in Servers, Undisturbed(s), Untouched(s), prov'[s] = prov[s],
           \A t \in Reqs : Elsewhere(t, s)
    PROVE  Steady(s)
<1>1. Idle.cid = 0 /\ Idle.pc = "idle"
  BY IdleType
<1>2. cid[s] \in Nat
  BY DEF TypeOK
<1>3. ASSUME NEW r \in Reqs
      PROVE  /\ req'[r].srv = s => req'[r].cid <= cid[s]
             /\ InGap(r, s)' <=> InGap(r, s)
             /\ InGap(r, s) => req'[r].pc = req[r].pc /\ req'[r].gen = req[r].gen
             /\ req[r].srv = s /\ req[r].op = "delete" /\ req[r].pc = "rowdel" => req'[r] = req[r]
  BY <1>1, <1>2 DEF Elsewhere, Rests, Advances, Undisturbed, IdsOrdered, InGap
<1>. QED  BY <1>3 DEF Steady, Untouched, Gone, Present

(* Handlers that only look at, start or stop a container, or write a status *)
(* or a port.                                                               *)
LEMMA SteadyHandlers ==
    ASSUME TypeOK, RequestRoute, NEW r \in Reqs, NEW s \in Servers,
           req[r].srv = s, Undisturbed(s),
           \/ Mark(r) \/ Inspect(r) \/ DockerStart(r) \/ DockerStop(r) \/ DockerRestart(r)
           \/ SaveStatus(r) \/ UpdateHostPort(r) \/ Settle(r)
    PROVE  Steady(s)
<1>0. /\ req \in [Reqs -> Request] /\ status \in [Servers -> Status] 
      /\ ctr \in [Servers -> Container] /\ cid[s] \in Nat /\ req[r].cid <= cid[s]
  BY DEF TypeOK, Request, Undisturbed, IdsOrdered
<1>1. Handling(r)
  BY DEF Handling
<1>2. /\ \A t \in Reqs \ {r} : req'[t] = req[t]
      /\ Rests(r) \/ Advances(r)
      /\ prov' = prov
  BY <1>1, HandlingSlot
<1>3. /\ ~InGap(r, s) /\ ~InGap(r, s)'
      /\ ~(req[r].op = "delete" /\ req[r].pc = "rowdel")
  <2>1. CASE Mark(r)
    BY <2>1, <1>0, IdleType DEF Mark, Outcome, To, Finish, SaveNext, InGap, RequestRoute, Request
  <2>2. CASE Inspect(r)
    BY <2>2, <1>0, IdleType DEF Inspect, Outcome, To, Finish, SaveNext, InGap, RequestRoute, Request
  <2>3. CASE DockerStart(r)
    BY <2>3, <1>0, IdleType DEF DockerStart, Outcome, To, Finish, SaveNext, InGap, RequestRoute, Request
  <2>4. CASE DockerStop(r)
    BY <2>4, <1>0, IdleType DEF DockerStop, Outcome, To, Finish, SaveNext, InGap, RequestRoute, Request
  <2>5. CASE DockerRestart(r)
    BY <2>5, <1>0, IdleType DEF DockerRestart, Outcome, To, Finish, SaveNext, InGap, RequestRoute, Request
  <2>6. CASE SaveStatus(r)
    BY <2>6, <1>0, IdleType DEF SaveStatus, Outcome, To, Finish, SaveNext, InGap, RequestRoute, Request
  <2>7. CASE UpdateHostPort(r)
    BY <2>7, <1>0, IdleType DEF UpdateHostPort, Outcome, To, Finish, SaveNext, InGap, RequestRoute, Request
  <2>8. CASE Settle(r)
    BY <2>8, <1>0, IdleType DEF Settle, Outcome, To, Finish, SaveNext, InGap, RequestRoute, Request
  <2>. QED  BY <2>1, <2>2, <2>3, <2>4, <2>5, <2>6, <2>7, <2>8
<1>4. /\ cid'[s] = cid[s] /\ volume'[s] = volume[s] /\ ctr'[s].gen = ctr[s].gen
      /\ Gone(s)' <=> Gone(s)
      /\ status'[s] = status[s] \/ (Present(s) /\ Present(s)')
  <2>1. CASE Mark(r)
    BY <2>1, <1>0 DEF Mark, Outcome, Gone, Present, Live, rowVars, dockerVars, Container, Request, RequestRoute, SetStatus
  <2>2. CASE Inspect(r)
    BY <2>2, <1>0 DEF Inspect, Outcome, Gone, Present, Live, rowVars, dockerVars, Container, Request, RequestRoute
  <2>3. CASE DockerStart(r)
    BY <2>3, <1>0 DEF DockerStart, Outcome, Gone, Present, Live, rowVars, dockerVars, Container, Request, RequestRoute, Boot, IsRunning, Exists
  <2>4. CASE DockerStop(r)
    BY <2>4, <1>0 DEF DockerStop, Outcome, Gone, Present, Live, rowVars, dockerVars, Container, Request, RequestRoute, Halted, IsRunning
  <2>5. CASE DockerRestart(r)
    BY <2>5, <1>0 DEF DockerRestart, Outcome, Gone, Present, Live, rowVars, dockerVars, Container, Request, RequestRoute, Boot, IsRunning, Exists
  <2>6. CASE SaveStatus(r)
    BY <2>6, <1>0 DEF SaveStatus, Outcome, Gone, Present, Live, rowVars, dockerVars, Container, Request, RequestRoute, SetStatus
  <2>7. CASE UpdateHostPort(r)
    BY <2>7, <1>0 DEF UpdateHostPort, Outcome, Gone, Present, Live, rowVars, dockerVars, Container, Request, RequestRoute
  <2>8. CASE Settle(r)
    BY <2>8, <1>0 DEF Settle, Outcome, Gone, Present, Live, rowVars, dockerVars, Container, Request, RequestRoute, Halted, IsRunning
  <2>. QED  BY <2>1, <2>2, <2>3, <2>4, <2>5, <2>6, <2>7, <2>8
<1>5. ASSUME NEW t \in Reqs
      PROVE  /\ req'[t].srv = s => req'[t].cid <= cid[s]
             /\ InGap(t, s)' <=> InGap(t, s)
             /\ InGap(t, s) => req'[t].pc = req[t].pc /\ req'[t].gen = req[t].gen
             /\ req[t].srv = s /\ req[t].op = "delete" /\ req[t].pc = "rowdel" => req'[t] = req[t]
  <2>1. CASE t = r
    BY <2>1, <1>0, <1>2, <1>3, IdleType DEF Rests, Advances
  <2>2. CASE t # r
    BY <2>2, <1>2 DEF Undisturbed, IdsOrdered, InGap
  <2>. QED  BY <2>1, <2>2
<1>. QED  BY <1>2, <1>4, <1>5 DEF Steady

(* Handlers that take the container, the volume or the row away, or bring a *)
(* new container: the gap opens, is handed on, and closes.                  *)
LEMMA GapHandlers ==
    ASSUME TypeOK, RequestRoute, NEW r \in Reqs, NEW s \in Servers,
           req[r].srv = s, Undisturbed(s), ~upset'[s],
           \/ RemoveContainer(r) \/ RemoveVolume(r) \/ DeleteRow(r)
           \/ RecreateContainer(r) \/ SetContainerID(r)
    PROVE  Undisturbed(s)'
<1>0. /\ req \in [Reqs -> Request] /\ status \in [Servers -> Status] /\ volume \in [Servers -> BOOLEAN]
      /\ ctr \in [Servers -> Container] /\ cid \in [Servers -> Nat] /\ req[r].cid <= cid[s]
      /\ cid[s] <= ctr[s].gen /\ cid[s] \in Nat /\ ctr[s].gen \in Nat /\ req[r].cid \in Nat
      /\ upset \in [Servers -> BOOLEAN]
  BY DEF TypeOK, Request, Container, Undisturbed, IdsOrdered
<1>1. /\ \A t \in Reqs \ {r} : req'[t] = req[t]
      /\ Rests(r) \/ Advances(r)
      /\ prov' = prov
  BY HandlingSlot DEF Handling
<1>2. \A t \in Reqs \ {r} : InGap(t, s)' <=> InGap(t, s)
  BY <1>1 DEF InGap
<1>3. Idle.cid = 0 /\ Idle.pc = "idle"
  BY IdleType
<1>4. \A t \in Reqs : req'[t].srv = s => req'[t].cid <= cid[s]
  BY <1>0, <1>1, <1>3 DEF Rests, Advances, Undisturbed, IdsOrdered
<1>5. ~Fault(s)
  BY <1>0 DEF Fault, Upset
<1>6. CASE RemoveContainer(r)
  <2>1. CASE Exists(s, req[r].cid)
    <3>1. /\ InGap(r, s)' /\ ~InGap(r, s) /\ req'[r].pc # "setcid" /\ req[r].cid # 0
      BY <1>6, <2>1, <1>0, <1>5 DEF RemoveContainer, Outcome, To, InGap, RequestRoute, Request
    <3>2. /\ UNCHANGED <<status, cid, volume>> /\ Gone(s)' /\ ctr'[s].gen = ctr[s].gen
      BY <1>6, <2>1, <1>0, <1>5 DEF RemoveContainer, Outcome, Gone, rowVars, Container
    <3>3. cid[s] = ctr[s].gen /\ ~Gone(s)
      BY <2>1, <1>0 DEF Exists, Gone
    <3>4. \A t \in Reqs : ~InGap(t, s)
      BY <2>1, <3>3, <1>0 DEF Undisturbed, GapExclusive
    <3>5. IdsOrdered(s)'
      BY <1>0, <1>4, <3>2 DEF IdsOrdered
    <3>6. ProvisionAlone(s)'
      BY <3>1, <3>2, <1>0, <1>1 DEF Undisturbed, ProvisionAlone
    <3>7. GapExclusive(s)'
      BY <3>1, <3>2, <3>4, <1>2 DEF GapExclusive
    <3>8. BackedAt(s)'
      BY <3>1 DEF BackedAt
    <3>9. KeptAt(s)'
      BY <3>2, <1>6, <1>1 DEF Undisturbed, KeptAt, Present, RemoveContainer
    <3>. QED  BY <3>5, <3>6, <3>7, <3>8, <3>9 DEF Undisturbed
  <2>2. CASE ~Exists(s, req[r].cid)
    <3>1. ~InGap(r, s)' /\ ~InGap(r, s)
      BY <1>6, <2>2, <1>3, <1>0, <1>5 DEF RemoveContainer, Outcome, Finish, SaveNext, InGap, Request
    <3>2. UNCHANGED <<status, cid, volume, ctr>>
      BY <1>6, <2>2, <1>0, <1>5 DEF RemoveContainer, Outcome, rowVars
    <3>3. Steady(s)
      BY <3>1, <3>2, <1>1, <1>2, <1>4, <1>6 DEF Steady, Gone, InGap, RemoveContainer
    <3>. QED  BY <3>3, SteadyKeeps
  <2>. QED  BY <2>1, <2>2
<1>7. CASE RemoveVolume(r)
  <2>1. InGap(r, s) /\ req[r].pc = "rmvol" /\ req[r].op = "delete"
    BY <1>7 DEF RemoveVolume, InGap, RequestRoute
  <2>2. Gone(s)
    BY <2>1 DEF Undisturbed, GapExclusive
  <2>3. req'[r].pc = "rowdel" /\ req'[r].srv = s /\ req'[r].op = "delete" /\ req'[r].cid = req[r].cid
    BY <1>7, <2>1, <2>2, <1>0, <1>5 DEF RemoveVolume, Outcome, To, Gone, Request
  <2>4. UNCHANGED <<status, cid, ctr>>
    BY <1>7 DEF RemoveVolume, rowVars
  <2>5. InGap(r, s)' /\ req'[r].pc # "setcid"
    BY <2>1, <2>3 DEF InGap
  <2>6. IdsOrdered(s)'
    BY <2>4, <1>0, <1>4 DEF IdsOrdered
  <2>7. ProvisionAlone(s)'
    BY <2>1, <2>4, <1>1, <1>0 DEF Undisturbed, ProvisionAlone, Gone, Exists, InGap
  <2>8. GapExclusive(s)'
    BY <2>1, <2>2, <2>4, <2>5, <1>2 DEF Undisturbed, GapExclusive, Gone
  <2>9. BackedAt(s)' /\ KeptAt(s)'
    BY <2>3, <2>5 DEF BackedAt, KeptAt
  <2>. QED  BY <2>6, <2>7, <2>8, <2>9 DEF Undisturbed
<1>8. CASE DeleteRow(r)
  <2>1. status'[s] \notin Live /\ (status'[s] = "absent" => status[s] = "absent")
    BY <1>8, <1>0, <1>5 DEF DeleteRow, Outcome, Present, Live
  <2>2. UNCHANGED <<cid, ctr, volume>>
    BY <1>8 DEF DeleteRow, dockerVars
  <2>3. ~InGap(r, s)'
    BY <1>8, <1>3, <1>0 DEF DeleteRow, Finish, InGap
  <2>4. IdsOrdered(s)'
    BY <2>2, <1>0, <1>4 DEF IdsOrdered
  <2>5. ProvisionAlone(s)'
    BY <2>1, <2>2, <1>1 DEF Undisturbed, ProvisionAlone, Gone, Exists
  <2>6. GapExclusive(s)'
    BY <2>2, <2>3, <1>1, <1>2 DEF Undisturbed, GapExclusive, Gone, Exists
  <2>7. BackedAt(s)' /\ KeptAt(s)'
    BY <2>1 DEF BackedAt, KeptAt, Present
  <2>. QED  BY <2>4, <2>5, <2>6, <2>7 DEF Undisturbed
<1>9. CASE RecreateContainer(r)
  <2>1. InGap(r, s) /\ req[r].pc = "create" /\ req[r].op = "port" /\ req[r].cid # 0
    BY <1>9 DEF RecreateContainer, InGap, RequestRoute
  <2>2. ~Upset(s)
    BY <1>0 DEF Upset
  <2>3. /\ NewContainer(s, req[r].port, "running")
        /\ req' = [req EXCEPT ![r].pc = "setcid", ![r].gen = ctr[s].gen + 1]
    BY <1>9, <1>5, <2>2 DEF RecreateContainer, CreateContainer
  <2>4. ctr'[s].gen = ctr[s].gen + 1 /\ ctr'[s].state = "running" /\ volume'[s] = TRUE
    BY <2>3, <1>0 DEF NewContainer
  <2>5. /\ req'[r].pc = "setcid" /\ req'[r].gen = ctr[s].gen + 1 /\ req'[r].srv = s
        /\ req'[r].op = "port" /\ req'[r].cid = req[r].cid
    BY <2>1, <2>3, <1>0
  <2>6. UNCHANGED <<status, cid>>
    BY <1>9 DEF RecreateContainer, rowVars
  <2>7. InGap(r, s)'
    BY <2>1, <2>5 DEF InGap
  <2>8. IdsOrdered(s)'
    BY <2>4, <2>6, <1>0, <1>4 DEF IdsOrdered
  <2>9. ProvisionAlone(s)'
    BY <2>1, <2>6, <1>0, <1>1 DEF Undisturbed, ProvisionAlone
  <2>10. GapExclusive(s)'
    BY <2>1, <2>4, <2>5, <2>6, <1>0, <1>2 DEF Undisturbed, GapExclusive, Exists
  <2>11. BackedAt(s)' /\ KeptAt(s)'
    BY <2>4, <2>7 DEF BackedAt, KeptAt
  <2>. QED  BY <2>8, <2>9, <2>10, <2>11 DEF Undisturbed
<1>10. CASE SetContainerID(r)
  <2>1. InGap(r, s) /\ req[r].pc = "setcid" /\ req[r].op = "port" /\ req[r].cid # 0
    BY <1>10 DEF SetContainerID, InGap, RequestRoute
  <2>2. Exists(s, req[r].gen) /\ cid[s] < ctr[s].gen /\ \A t \in Reqs : InGap(t, s) => t = r
    BY <2>1 DEF Undisturbed, GapExclusive
  <2>3. UNCHANGED <<status, ctr, volume>>
    BY <1>10 DEF SetContainerID, dockerVars
  <2>4. ~InGap(r, s)'
    BY <1>10, <1>3, <1>0 DEF SetContainerID, Outcome, To, Finish, InGap, Request
  <2>5. \/ Present(s) /\ cid'[s] = req[r].gen
        \/ ~Present(s) /\ cid'[s] = cid[s]
    BY <1>10, <1>5, <1>0 DEF SetContainerID, Outcome
  <2>6. cid'[s] <= ctr'[s].gen /\ cid[s] <= cid'[s] /\ cid'[s] \in Nat
    BY <2>2, <2>3, <2>5, <1>0 DEF Exists
  <2>7. IdsOrdered(s)'
    <3>1. \A t \in Reqs : req'[t].cid \in Nat
      BY <1>0, <1>1, <1>3 DEF Rests, Advances, Request
    <3>. QED  BY <3>1, <2>6, <1>0, <1>4 DEF IdsOrdered
  <2>8. ProvisionAlone(s)'
    BY <2>1, <2>3, <1>0, <1>1 DEF Undisturbed, ProvisionAlone, InGap
  <2>9. GapExclusive(s)'
    BY <2>2, <2>4, <1>2 DEF GapExclusive
  <2>10. BackedAt(s)'
    BY <2>2, <2>3, <2>5 DEF BackedAt, Exists, Present
  <2>11. KeptAt(s)'
    <3>1. Present(s)' /\ ~volume'[s] => Present(s) /\ cid[s] # 0 /\ ~volume[s]
      BY <2>1, <2>3, <1>0 DEF Present
    <3>. QED  BY <3>1, <2>1, <1>1 DEF Undisturbed, KeptAt
  <2>. QED  BY <2>7, <2>8, <2>9, <2>10, <2>11 DEF Undisturbed
<1>. QED  BY <1>6, <1>7, <1>8, <1>9, <1>10

(* provision of a server: alone with it until the first id is stored.       *)
LEMMA ProvisionSteps ==
    ASSUME TypeOK, NEW s \in Servers, Undisturbed(s), ~upset'[s], Provisioning(s)
    PROVE  Undisturbed(s)'
<1>0. /\ status \in [Servers -> Status] /\ volume \in [Servers -> BOOLEAN]
      /\ ctr \in [Servers -> Container] /\ cid \in [Servers -> Nat]
      /\ prov \in [Servers -> Provision] /\ upset \in [Servers -> BOOLEAN]
      /\ cid[s] \in Nat /\ ctr[s].gen \in Nat
  BY DEF TypeOK, Container
<1>1. ~Fault(s) /\ ~Upset(s)
  BY <1>0 DEF Fault, Upset
<1>2. \A r \in Reqs : req[r].srv = s => req[r].cid <= cid[s] /\ req[r].cid \in Nat
  BY DEF TypeOK, Request, Undisturbed, IdsOrdered
<1>3. ASSUME UNCHANGED <<status, cid, req>>, ctr'[s].gen = ctr[s].gen, Gone(s)' <=> Gone(s),
             volume'[s] = volume[s], prov[s].pc # "idle",
             prov'[s].pc \notin {"get", "volume", "create", "setcid"}
      PROVE  Undisturbed(s)'
  <2>1. Steady(s)
    BY <1>2, <1>3 DEF Steady, InGap
  <2>. QED  BY <2>1, SteadyKeeps
<1>4. CASE ProvGet(s) \/ ProvVolume(s)
  <2>1. /\ UNCHANGED <<status, cid, ctr, req>>
        /\ prov[s].pc \in {"get", "volume"} /\ prov'[s].pc \in {"volume", "create", "idle"}
    BY <1>4, <1>0, <1>1 DEF ProvGet, ProvVolume, Outcome, ProvTo, Provision, rowVars, dockerVars
  <2>2. cid[s] = 0 /\ Gone(s) /\ status[s] # "absent"
    BY <2>1 DEF Undisturbed, ProvisionAlone
  <2>3. IdsOrdered(s)' /\ ProvisionAlone(s)'
    BY <2>1, <2>2, <1>0 DEF Undisturbed, IdsOrdered, ProvisionAlone, Gone
  <2>4. GapExclusive(s)' /\ BackedAt(s)' /\ KeptAt(s)'
    BY <2>1, <2>2, <1>0 DEF Undisturbed, GapExclusive, BackedAt, KeptAt, Exists, Gone, InGap
  <2>. QED  BY <2>3, <2>4 DEF Undisturbed
<1>5. CASE ProvCreate(s)
  <2>1. /\ NewContainer(s, port[s], "running") /\ UNCHANGED <<status, cid, req>>
        /\ prov' = [prov EXCEPT ![s] = [pc |-> "setcid", gen |-> ctr[s].gen + 1]]
    BY <1>5, <1>1 DEF ProvCreate, CreateContainer, rowVars
  <2>2. /\ ctr'[s].gen = ctr[s].gen + 1 /\ ctr'[s].state = "running" /\ volume'[s]
        /\ prov'[s].pc = "setcid" /\ prov'[s].gen = ctr[s].gen + 1
    BY <2>1, <1>0 DEF NewContainer
  <2>3. cid[s] = 0 /\ status[s] # "absent"
    BY <1>5 DEF Undisturbed, ProvisionAlone, ProvCreate
  <2>4. IdsOrdered(s)'
    BY <2>1, <2>2, <1>0 DEF Undisturbed, IdsOrdered
  <2>5. ProvisionAlone(s)'
    BY <2>1, <2>2, <2>3 DEF ProvisionAlone, Exists
  <2>6. \A r \in Reqs : ~InGap(r, s)'
    BY <2>1, <2>3, <1>2 DEF InGap
  <2>7. GapExclusive(s)'
    BY <2>6 DEF GapExclusive
  <2>8. BackedAt(s)' /\ KeptAt(s)'
    BY <2>1, <2>3 DEF BackedAt, KeptAt
  <2>. QED  BY <2>4, <2>5, <2>7, <2>8 DEF Undisturbed
<1>6. CASE ProvSetContainerID(s)
  <2>1. /\ UNCHANGED <<status, ctr, volume, req>> /\ prov'[s].pc = "wait1" /\ status[s] # "absent"
        /\ cid[s] = 0 /\ volume[s] /\ Exists(s, prov[s].gen) /\ prov[s].gen = ctr[s].gen
    BY <1>6, <1>0 DEF ProvSetContainerID, ProvTo, dockerVars, Undisturbed, ProvisionAlone, Exists, Provision
  <2>2. \/ cid'[s] = prov[s].gen
        \/ cid'[s] = cid[s] /\ ~Present(s)
    BY <1>6, <1>0, <1>1 DEF ProvSetContainerID, Outcome
  <2>3. IdsOrdered(s)'
    BY <2>1, <2>2, <1>0, <1>2 DEF IdsOrdered
  <2>4. ProvisionAlone(s)'
    BY <2>1 DEF ProvisionAlone
  <2>5. \A r \in Reqs : ~InGap(r, s)'
    BY <2>1, <1>2 DEF InGap
  <2>6. GapExclusive(s)'
    BY <2>5 DEF GapExclusive
  <2>7. BackedAt(s)' /\ KeptAt(s)'
    BY <2>1, <2>2 DEF BackedAt, KeptAt, Present, Exists
  <2>. QED  BY <2>3, <2>4, <2>6, <2>7 DEF Undisturbed
<1>7. CASE ProvWaitHealthy(s, "wait1", "ready1") \/ ProvWaitHealthy(s, "wait2", "ready2")
           \/ ProvReady(s, "ready1", "settings") \/ ProvReady(s, "ready2", "extension")
           \/ ProvExtension(s)
  <2>1. /\ UNCHANGED <<rowVars, dockerVars, req>> /\ prov[s].pc # "idle"
        /\ prov'[s].pc \notin {"get", "volume", "create", "setcid"}
    BY <1>7, <1>0 DEF ProvWaitHealthy, ProvReady, ProvExtension, Outcome, ProvTo, Provision
  <2>. QED  BY <2>1, <1>3 DEF rowVars, dockerVars, Gone
<1>8. CASE ProvSettings(s)
  <2>1. /\ UNCHANGED <<rowVars, ctr, volume, req>> /\ prov[s].pc # "idle"
        /\ prov'[s].pc \notin {"get", "volume", "create", "setcid"}
    BY <1>8, <1>0 DEF ProvSettings, Outcome, ProvTo, Provision
  <2>. QED  BY <2>1, <1>3 DEF rowVars, Gone
<1>9. CASE ProvRestart(s)
  <2>1. /\ UNCHANGED <<rowVars, req>> /\ prov[s].pc # "idle"
        /\ prov'[s].pc \notin {"get", "volume", "create", "setcid"}
    BY <1>9, <1>0 DEF ProvRestart, Outcome, ProvTo, Provision
  <2>2. ctr'[s].gen = ctr[s].gen /\ (Gone(s)' <=> Gone(s)) /\ volume'[s] = volume[s]
    BY <1>9, <1>0 DEF ProvRestart, Outcome, Boot, Exists, Gone, dockerVars, Container
  <2>. QED  BY <2>1, <2>2, <1>3 DEF rowVars
<1>10. CASE ProvFinish(s)
  <2>1. /\ UNCHANGED <<cid, ctr, volume, req>> /\ prov[s].pc # "idle" /\ prov'[s].pc = "idle"
    BY <1>10, <1>0 DEF ProvFinish, ProvTo, Provision, dockerVars
  <2>2. status'[s] = status[s] \/ (Present(s) /\ Present(s)')
    BY <1>10, <1>0 DEF ProvFinish, Outcome, SetStatus, Present, Live
  <2>3. Steady(s)
    BY <2>1, <2>2, <1>2 DEF Steady, Gone, InGap
  <2>. QED  BY <2>3, SteadyKeeps
<1>. QED  BY <1>4, <1>5, <1>6, <1>7, <1>8, <1>9, <1>10 DEF Provisioning

(* No step of any actor breaks the hand-over of a server's container.       *)
LEMMA HandoverStep ==
    ASSUME TypeOK, RequestRoute, [Next]_vars, NEW s \in Servers,
           Undisturbed(s), ~upset[s], ~upset'[s]
    PROVE  Undisturbed(s)'
<1>0. /\ status \in [Servers -> Status] /\ volume \in [Servers -> BOOLEAN]
      /\ ctr \in [Servers -> Container] /\ cid \in [Servers -> Nat] /\ port \in [Servers -> Ports]
      /\ prov \in [Servers -> Provision] /\ req \in [Reqs -> Request]
      /\ upset \in [Servers -> BOOLEAN]
  BY DEF TypeOK
<1>1. ASSUME UNCHANGED req, Untouched(s), prov'[s] = prov[s] PROVE Undisturbed(s)'
  <2>0. \A t \in Reqs : Elsewhere(t, s)
    BY <1>1 DEF Elsewhere
  <2>1. Steady(s)
    BY <1>1, <2>0, UntouchedSteady
  <2>. QED  BY <2>1, SteadyKeeps
<1>2. ASSUME NEW t \in Servers, NEW p \in Ports, Create(t, p) PROVE Undisturbed(s)'
  <2>1. CASE t # s
    <3>1. UNCHANGED req /\ Untouched(s) /\ prov'[s] = prov[s]
      BY <1>2, <2>1, <1>0 DEF Create, Untouched, dockerVars
    <3>. QED  BY <3>1, <1>1
  <2>2. CASE t = s
    <3>1. status[s] = "absent" /\ cid[s] = 0 /\ Gone(s)
      BY <1>2, <2>2 DEF Create, Undisturbed, ProvisionAlone
    <3>2. UNCHANGED <<cid, ctr, volume, req>> /\ status'[s] = "creating" /\ prov'[s].pc = "get"
      BY <1>2, <2>2, <1>0 DEF Create, dockerVars, Provision
    <3>3. IdsOrdered(s)' /\ ProvisionAlone(s)' /\ GapExclusive(s)'
      BY <3>1, <3>2 DEF Undisturbed, IdsOrdered, ProvisionAlone, GapExclusive, Gone, Exists, InGap
    <3>4. BackedAt(s)' /\ KeptAt(s)'
      BY <3>1, <3>2 DEF BackedAt, KeptAt
    <3>. QED  BY <3>3, <3>4 DEF Undisturbed
  <2>. QED  BY <2>1, <2>2
<1>3. ASSUME NEW t \in Servers, Provisioning(t) PROVE Undisturbed(s)'
  <2>1. CASE t # s
    <3>1. UNCHANGED req /\ Untouched(s) /\ prov'[s] = prov[s]
      BY <1>3, <2>1, <1>0 DEF Provisioning, ProvGet, ProvVolume, ProvCreate, ProvSetContainerID,
         ProvWaitHealthy, ProvReady, ProvSettings, ProvRestart, ProvExtension, ProvFinish,
         Outcome, ProvTo, CreateContainer, NewContainer, Boot, SetStatus,
         Untouched, rowVars, dockerVars
    <3>. QED  BY <3>1, <1>1
  <2>2. CASE t = s
    BY <1>3, <2>2, ProvisionSteps
  <2>. QED  BY <2>1, <2>2
<1>4. ASSUME NEW t \in Servers, PostgresUp(t) \/ StoppedOutside(t) PROVE Undisturbed(s)'
  <2>1. /\ UNCHANGED <<rowVars, volume, prov, req>>
        /\ ctr'[s].gen = ctr[s].gen /\ (Gone(s)' <=> Gone(s))
    <3>1. UNCHANGED <<rowVars, volume, prov, req>>
      BY <1>4 DEF PostgresUp, StoppedOutside
    <3>2. CASE PostgresUp(t)
      <4>. QED  BY <3>1, <3>2, <1>0 DEF PostgresUp, Gone, Container
    <3>3. CASE StoppedOutside(t)
      <4>1. ctr[t].state = "running" /\ ctr' = [ctr EXCEPT ![t].state = "exited", ![t].ready = FALSE]
        BY <3>3 DEF StoppedOutside, IsRunning, Halted
      <4>. QED  BY <3>1, <4>1, <1>0 DEF Gone, Container
    <3>. QED  BY <1>4, <3>2, <3>3
  <2>2. Steady(s)
    BY <2>1 DEF Steady, rowVars, InGap, Undisturbed, IdsOrdered
  <2>. QED  BY <2>2, SteadyKeeps
<1>5. ASSUME NEW t \in Servers, NEW r \in Reqs, UserRequest(r, t) \/ Poll(r, t) PROVE Undisturbed(s)'
  <2>1. /\ \A u \in Reqs \ {r} : req'[u] = req[u]
        /\ req[r].pc = "idle"
        /\ req'[r].srv = t /\ req'[r].cid = cid[t]
        /\ req'[r].pc \in {"docker", "mark", "stop", "inspect"}
        /\ UNCHANGED <<rowVars, dockerVars, prov>>
    BY <1>5, ReadSlot
  <2>2. cid[s] \in Nat
    BY <1>0
  <2>3. ASSUME NEW u \in Reqs
        PROVE  /\ req'[u].srv = s => req'[u].cid <= cid[s]
               /\ InGap(u, s)' <=> InGap(u, s)
               /\ InGap(u, s) => req'[u].pc = req[u].pc /\ req'[u].gen = req[u].gen
               /\ req[u].srv = s /\ req[u].op = "delete" /\ req[u].pc = "rowdel" => req'[u] = req[u]
    BY <2>1, <2>2 DEF InGap, Undisturbed, IdsOrdered
  <2>4. Steady(s)
    BY <2>1, <2>3 DEF Steady, rowVars, dockerVars, Gone
  <2>. QED  BY <2>4, SteadyKeeps
<1>6. ASSUME NEW r \in Reqs, Handling(r) PROVE Undisturbed(s)'
  <2>1. CASE req[r].srv # s
    <3>1. /\ \A t \in Reqs \ {r} : req'[t] = req[t]
          /\ Rests(r) \/ Advances(r)
          /\ prov' = prov /\ Untouched(s)
      BY <1>6, <2>1, HandlingSlot
    <3>2. \A t \in Reqs : Elsewhere(t, s)
      BY <2>1, <3>1 DEF Elsewhere
    <3>3. Steady(s)
      BY <3>1, <3>2, UntouchedSteady
    <3>. QED  BY <3>3, SteadyKeeps
  <2>2. CASE req[r].srv = s
    BY <1>6, <2>2, GapHandlers, SteadyHandlers, SteadyKeeps DEF Handling
  <2>. QED  BY <2>1, <2>2
<1>7. CASE Crash
  <2>1. ~InFlight(s) /\ UNCHANGED <<rowVars, dockerVars>>
    BY <1>7, <1>0 DEF Crash
  <2>2. prov[s].pc = "idle" /\ prov'[s].pc = "idle" /\ prov'[s].gen = prov[s].gen
        /\ \A r \in Reqs : req'[r] = Idle
    BY <1>7, <2>1, <1>0 DEF Crash, InFlight, Provision
  <2>3. \A r \in Reqs : req[r].srv = s => req[r].pc = "idle"
    BY <2>1 DEF InFlight
  <2>4. Untouched(s)
    BY <2>1 DEF Untouched, rowVars, dockerVars
  <2>5. cid[s] \in Nat /\ Idle.cid = 0 /\ Idle.pc = "idle"
    BY <1>0, IdleType
  <2>6. prov'[s] = prov[s]
    BY <1>7, <2>2, <1>0 DEF Crash, Provision
  <2>7. Steady(s)
    BY <2>2, <2>3, <2>4, <2>5, <2>6 DEF Steady, Untouched, Gone, Present, InGap
  <2>. QED  BY <2>7, SteadyKeeps
<1>8. CASE UNCHANGED vars
  BY <1>8, <1>1 DEF vars, Untouched
<1>. QED  BY <1>2, <1>3, <1>4, <1>5, <1>6, <1>7, <1>8 DEF Next

(* At the start nothing exists; the budget is whole and nobody is upset.    *)
LEMMA HandoverInit == Init => HandedOver
<1>. SUFFICES ASSUME Init PROVE HandedOver
  OBVIOUS
<1>1. /\ \A r \in Reqs : req[r] = Idle
      /\ Idle.pc = "idle" /\ Idle.cid = 0
  BY IdleType DEF Init
<1>2. RequestRoute
  BY <1>1 DEF RequestRoute
<1>3. ASSUME NEW s \in Servers PROVE Undisturbed(s)
  <2>1. /\ status[s] = "absent" /\ cid[s] = 0 /\ ctr[s].gen = 0 /\ ctr[s].state = "none"
        /\ prov[s].pc = "idle"
    BY DEF Init
  <2>2. \A r \in Reqs : ~InGap(r, s)
    BY <1>1 DEF InGap
  <2>3. IdsOrdered(s) /\ ProvisionAlone(s)
    BY <1>1, <2>1 DEF IdsOrdered, ProvisionAlone, Gone
  <2>4. GapExclusive(s) /\ BackedAt(s) /\ KeptAt(s)
    BY <2>1, <2>2 DEF GapExclusive, BackedAt, KeptAt, Present, Live
  <2>. QED  BY <2>3, <2>4 DEF Undisturbed
<1>. QED  BY <1>2, <1>3 DEF HandedOver

(* A server whose operation was cut short stays marked.                     *)
LEMMA UpsetForGood ==
    ASSUME TypeOK, [Next]_vars, NEW s \in Servers, upset[s]
    PROVE  upset'[s]
<1>0. upset \in [Servers -> BOOLEAN]
  BY DEF TypeOK
<1>1. ASSUME NEW t \in Servers, NoFault \/ Fault(t) \/ (Upset(t) /\ budget' = budget) PROVE upset'[s]
  BY <1>1, <1>0 DEF NoFault, Fault, Upset
<1>2. ASSUME NEW t \in Servers, Provisioning(t) PROVE upset'[s]
  <2>1. NoFault \/ Fault(t) \/ (Upset(t) /\ budget' = budget)
    BY <1>2 DEF Provisioning, ProvGet, ProvVolume, ProvCreate, ProvSetContainerID, ProvWaitHealthy,
       ProvReady, ProvSettings, ProvRestart, ProvExtension, ProvFinish, Outcome, CreateContainer
  <2>. QED  BY <1>1, <2>1
<1>3. ASSUME NEW r \in Reqs, Handling(r) PROVE upset'[s]
  <2>0. req[r].srv \in Servers
    BY DEF TypeOK, Request
  <2>1. \/ NoFault \/ Fault(req[r].srv) \/ (Upset(req[r].srv) /\ budget' = budget)
    BY <1>3, SMTT(40) DEF Handling, Mark, Inspect, DockerStart, DockerStop, DockerRestart, SaveStatus,
       RemoveContainer, RemoveVolume, DeleteRow, RecreateContainer, SetContainerID, UpdateHostPort,
       Settle, Outcome, CreateContainer
  <2>. QED  BY <1>1, <2>0, <2>1
<1>4. CASE Crash
  BY <1>4, <1>0 DEF Crash
<1>5. CASE UNCHANGED upset
  BY <1>5
<1>6. ASSUME NEW t \in Servers,
             \/ \E p \in Ports : Create(t, p)
             \/ PostgresUp(t) \/ StoppedOutside(t)
             \/ \E r \in Reqs : UserRequest(r, t) \/ Poll(r, t)
      PROVE  UNCHANGED upset
  BY <1>6 DEF Create, PostgresUp, StoppedOutside, Charged, UserRequest, StartStop, ChangePort,
     Delete, Poll, NoFault
<1>. QED  BY <1>2, <1>3, <1>4, <1>5, <1>6 DEF Next, vars

(* The invariant itself.                                                    *)
THEOREM HandoverInvariant == Spec => []HandedOver
<1>1. Init => HandedOver
  BY HandoverInit
<1>2. TypeOK /\ HandedOver /\ [Next]_vars => HandedOver'
  <2>. SUFFICES ASSUME TypeOK, HandedOver, [Next]_vars PROVE HandedOver'
    OBVIOUS
  <2>1. RequestRoute'
    BY RouteKept DEF HandedOver
  <2>2. ASSUME NEW s \in Servers, ~upset'[s] PROVE Undisturbed(s)'
    <3>1. ~upset[s]
      BY <2>2, UpsetForGood
    <3>. QED  BY <2>2, <3>1, HandoverStep DEF HandedOver
  <2>. QED  BY <2>1, <2>2 DEF HandedOver
<1>. QED  BY <1>1, <1>2, TypeCorrect, PTL DEF Spec

(* The row of a server nothing was cut short on names a container Docker    *)
(* has, outside the gap of the one request that is replacing it.            *)
THEOREM RowsAreBacked == Spec => []ContainerBacked
<1>1. HandedOver => ContainerBacked
  BY DEF HandedOver, Undisturbed, BackedAt, ContainerBacked
<1>. QED  BY <1>1, HandoverInvariant, PTL

(* No port change, in any race, costs a server its data volume.             *)
THEOREM VolumesAreKept == Spec => []DataKept
<1>1. HandedOver => DataKept
  BY DEF HandedOver, Undisturbed, KeptAt, DataKept
<1>. QED  BY <1>1, HandoverInvariant, PTL

(* A delete that saw the container takes its row only after every container *)
(* of the server, one a racing port change may have created included.       *)
THEOREM DeletesAreClean == Spec => []DeleteLeavesNoContainer
<1>1. TypeOK /\ HandedOver => DeleteLeavesNoContainer
  <2>. SUFFICES ASSUME TypeOK, HandedOver, NEW r \in Reqs,
                       req[r].op = "delete", req[r].pc = "rowdel", req[r].cid # 0, ~upset[req[r].srv]
                PROVE  ctr[req[r].srv].state = "none"
    BY DEF DeleteLeavesNoContainer
  <2>1. req[r].srv \in Servers /\ InGap(r, req[r].srv)
    BY DEF TypeOK, Request, InGap
  <2>. QED  BY <2>1 DEF HandedOver, Undisturbed, GapExclusive, Gone
<1>. QED  BY <1>1, TypeCorrect, HandoverInvariant, PTL

-----------------------------------------------------------------------------
(* Published after tuning.  Nothing is excused here: a server whose          *)
(* operations were cut short is not published untuned either.  What could go *)
(* wrong is that the volume provision has configured is removed and a new    *)
(* one, with default settings, comes up under the same name in time for the  *)
(* checks that go by name.                                                   *)

\* A request for which the container is gone and which may make the next one or
\* remove the volume
Holding(r, s) == req[r].srv = s /\ req[r].pc \in {"create", "rmvol"}

\* Until provision has stored the first id no request knows one.
Nameless(s) ==
    status[s] = "absent" \/ prov[s].pc \in {"get", "volume", "create", "setcid"} =>
        cid[s] = 0 /\ \A r \in Reqs : req[r].srv = s => req[r].cid = 0

Mounted(s) == ~Gone(s) => volume[s]

\* Only one request can have removed the container.
OneHolder(s) ==
    \A r \in Reqs : Holding(r, s) => Gone(s) /\ \A t \in Reqs : Holding(t, s) => t = r

Finishing == {"wait2", "ready2", "extension", "save"}

\* Once provision wrote the settings they are in the volume, or there is no
\* volume and nobody is about to make one.
Tuned(s) ==
    /\ prov[s].pc \in {"restart"} \cup Finishing /\ ~volume[s] =>
          \A r \in Reqs : req[r].srv = s => req[r].pc # "create"
    /\ prov[s].pc = "restart" /\ volume[s] => conf[s] \in {"written", "active"}
    /\ prov[s].pc \in Finishing /\ volume[s] => conf[s] = "active"

TuningAt(s) == Nameless(s) /\ Mounted(s) /\ OneHolder(s) /\ Tuned(s)

TuningInv == RequestRoute /\ \A s \in Servers : TuningAt(s)

\* What happens to one server does nothing to the settings of another.
LEMMA TuningElsewhere ==
    ASSUME NEW s \in Servers, TuningAt(s), Untouched(s), conf'[s] = conf[s], prov'[s] = prov[s],
           \A t \in Reqs : Elsewhere(t, s)
    PROVE  TuningAt(s)'
<1>1. \A t \in Reqs : /\ req'[t].srv = s => req'[t].cid = 0 \/ req'[t] = req[t]
                      /\ req'[t].srv = s /\ req'[t].pc \in {"create", "rmvol"} => req'[t] = req[t]
  BY IdleType DEF Elsewhere, Rests, Advances
<1>2. Nameless(s)' /\ Mounted(s)'
  BY <1>1 DEF TuningAt, Nameless, Mounted, Untouched, Gone
<1>3. OneHolder(s)'
  BY <1>1 DEF TuningAt, OneHolder, Holding, Untouched, Gone
<1>4. Tuned(s)'
  BY <1>1 DEF TuningAt, Tuned, Untouched, Finishing
<1>. QED  BY <1>2, <1>3, <1>4 DEF TuningAt

\* A step of one request that leaves prov, and the id of the row if somebody
\* could not know it
LEMMA TuningByRequest ==
    ASSUME TypeOK, NEW s \in Servers, NEW r \in Reqs, TuningAt(s), prov' = prov,
           \A t \in Reqs \ {r} : req'[t] = req[t],
           req'[r].srv = s => req'[r].cid = 0 \/ (req[r].srv = s /\ req'[r].cid = req[r].cid) \/ req'[r].cid = cid[s],
           status'[s] = "absent" => status[s] = "absent",
           cid'[s] = cid[s] \/ (req[r].srv = s /\ req[r].cid # 0 /\ status'[s] # "absent"),
           Mounted(s)',
           Gone(s)' \/ ~Gone(s) \/ (Holding(r, s) /\ ~Holding(r, s)'),
           Holding(r, s)' => Gone(s)' /\ (~Gone(s) \/ Holding(r, s)),
           volume'[s] => volume[s] \/ (req[r].srv = s /\ req[r].pc = "create"),
           volume[s] => volume'[s] \/ Holding(r, s),
           volume[s] /\ volume'[s] => conf'[s] = conf[s] \/ (conf[s] = "written" /\ conf'[s] = "active"),
           req'[r].srv = s /\ req'[r].pc = "create" => volume'[s]
    PROVE  TuningAt(s)'
<1>1. Nameless(s)'
  BY DEF TuningAt, Nameless
<1>2. OneHolder(s)'
  BY DEF TuningAt, OneHolder, Holding, Gone
<1>3. Tuned(s)'
  BY DEF TuningAt, Tuned, OneHolder, Holding, Finishing
<1>. QED  BY <1>1, <1>2, <1>3 DEF TuningAt

\* Handlers, on their own server
LEMMA TuningHandled ==
    ASSUME TypeOK, RequestRoute, NEW r \in Reqs, NEW s \in Servers, req[r].srv = s, TuningAt(s), Handling(r)
    PROVE  TuningAt(s)'
<1>0. /\ req \in [Reqs -> Request] /\ status \in [Servers -> Status] /\ cid \in [Servers -> Nat]
      /\ ctr \in [Servers -> Container] /\ volume \in [Servers -> BOOLEAN]
      /\ conf \in [Servers -> {"none", "written", "active"}] /\ req[r] \in Request
  BY DEF TypeOK
<1>1. /\ \A t \in Reqs \ {r} : req'[t] = req[t]
      /\ Rests(r) \/ Advances(r)
      /\ prov' = prov
  BY HandlingSlot
<1>2. req'[r].srv = s => req'[r].cid = 0 \/ (req[r].srv = s /\ req'[r].cid = req[r].cid) \/ req'[r].cid = cid[s]
  BY <1>1, IdleType DEF Rests, Advances
<1>3. Idle.pc = "idle"
  BY IdleType
<1>4. Gone(s) \/ volume[s]
  BY DEF TuningAt, Mounted
<1>5. Holding(r, s) => Gone(s)
  BY DEF TuningAt, OneHolder
<1> USE <1>0, <1>3
<1>6. CASE Mark(r) \/ Inspect(r) \/ SaveStatus(r) \/ UpdateHostPort(r)
  <2>1. UNCHANGED <<ctr, volume, conf, cid>> /\ ~Holding(r, s) /\ ~Holding(r, s)' /\ (status'[s] = "absent" => status[s] = "absent")
    BY <1>6 DEF Mark, Inspect, SaveStatus, UpdateHostPort, Outcome, To, Finish, SaveNext, SetStatus,
       rowVars, dockerVars, Holding, Present, Live, RequestRoute, Request
  <2>. QED  BY <1>1, <1>2, <1>4, <2>1, TuningByRequest DEF Mounted, Gone, Holding
<1>7. CASE DockerStart(r) \/ DockerRestart(r)
  <2>1. UNCHANGED <<status, volume, cid>> /\ ~Holding(r, s) /\ ~Holding(r, s)'
    BY <1>7 DEF DockerStart, DockerRestart, Outcome, To, Finish, SaveNext, Boot, rowVars, dockerVars, Holding, RequestRoute, Request
  <2>2. /\ (Gone(s)' <=> Gone(s))
        /\ conf'[s] = conf[s] \/ (conf[s] = "written" /\ conf'[s] = "active")
    <3>1. UNCHANGED dockerVars \/ (Exists(s, req[r].cid) /\ Boot(s))
      BY <1>7 DEF DockerStart, DockerRestart, Outcome
    <3>2. CASE UNCHANGED dockerVars
      BY <3>2 DEF dockerVars, Gone
    <3>3. CASE Exists(s, req[r].cid) /\ Boot(s)
      BY <3>3 DEF Boot, Booted, Gone, Exists, Container
    <3>. QED  BY <3>1, <3>2, <3>3
  <2>. QED  BY <1>1, <1>2, <1>4, <2>1, <2>2, TuningByRequest DEF Mounted, Holding
<1>8. CASE DockerStop(r) \/ Settle(r)
  <2>1. UNCHANGED <<status, volume, cid, conf>> /\ ~Holding(r, s) /\ ~Holding(r, s)'
    BY <1>8 DEF DockerStop, Settle, Outcome, To, Finish, rowVars, Holding, RequestRoute, Request
  <2>2. Gone(s)' <=> Gone(s)
    BY <1>8 DEF DockerStop, Settle, Outcome, Halted, Gone, IsRunning, Container
  <2>. QED  BY <1>1, <1>2, <1>4, <2>1, <2>2, TuningByRequest DEF Mounted, Holding
<1>9. CASE RemoveContainer(r)
  <2>1. UNCHANGED <<status, volume, cid, conf>> /\ ~Holding(r, s)
    BY <1>9 DEF RemoveContainer, rowVars, Holding
  <2>2. \/ Gone(s)' /\ ~Gone(s)
        \/ ctr' = ctr /\ ~Holding(r, s)'
    <3>1. \/ Exists(s, req[r].cid) /\ ctr' = [ctr EXCEPT ![s].state = "none", ![s].ready = FALSE]
          \/ UNCHANGED ctr /\ (Finish(r) \/ SaveNext(r, "error"))
      BY <1>9 DEF RemoveContainer, Outcome
    <3>2. CASE Exists(s, req[r].cid) /\ ctr' = [ctr EXCEPT ![s].state = "none", ![s].ready = FALSE]
      BY <3>2 DEF Exists, Gone, Container
    <3>3. CASE UNCHANGED ctr /\ (Finish(r) \/ SaveNext(r, "error"))
      BY <3>3 DEF Finish, SaveNext, Holding, Request
    <3>. QED  BY <3>1, <3>2, <3>3
  <2>. QED  BY <1>1, <1>2, <1>4, <2>1, <2>2, TuningByRequest DEF Mounted, Gone, Holding
<1>10. CASE RemoveVolume(r)
  <2>1. UNCHANGED <<status, ctr, cid>> /\ Holding(r, s) /\ ~Holding(r, s)' /\ (volume'[s] => volume[s] /\ conf'[s] = conf[s])
    <3>1. \/ volume' = [volume EXCEPT ![s] = FALSE] /\ To(r, "rowdel")
          \/ SaveNext(r, "error") /\ UNCHANGED <<volume, conf>>
      BY <1>10 DEF RemoveVolume, Outcome
    <3>2. req'[r].pc \in {"rowdel", "save"} /\ (volume'[s] => volume[s] /\ conf'[s] = conf[s])
      BY <3>1 DEF To, SaveNext, Request
    <3>. QED  BY <1>10, <3>2 DEF RemoveVolume, rowVars, Holding
  <2>2. Gone(s)' /\ Gone(s)
    BY <1>5, <2>1 DEF Gone
  <2>. QED  BY <1>1, <1>2, <2>1, <2>2, TuningByRequest DEF Mounted, Holding
<1>11. CASE DeleteRow(r)
  <2>1. UNCHANGED <<ctr, volume, conf, cid>> /\ ~Holding(r, s) /\ ~Holding(r, s)' /\ (status'[s] = "absent" => status[s] = "absent")
    BY <1>11 DEF DeleteRow, Outcome, Finish, dockerVars, Holding
  <2>. QED  BY <1>1, <1>2, <1>4, <2>1, TuningByRequest DEF Mounted, Gone, Holding
<1>12. CASE RecreateContainer(r)
  <2>1. UNCHANGED <<status, cid>> /\ Holding(r, s) /\ req[r].pc = "create" /\ ~Holding(r, s)'
    <3>1. req' = [req EXCEPT ![r].pc = "setcid", ![r].gen = ctr[s].gen + 1] \/ SaveNext(r, "error")
      BY Zenon, <1>12 DEF RecreateContainer, CreateContainer
    <3>2. req'[r].pc \in {"setcid", "save"}
      BY <3>1 DEF SaveNext, Request
    <3>. QED  BY <1>12, <3>2 DEF RecreateContainer, rowVars, Holding
  <2>2. \/ UNCHANGED dockerVars
        \/ volume'[s] /\ (conf'[s] = conf[s] \/ (conf[s] = "written" /\ conf'[s] = "active"))
    BY <1>12 DEF RecreateContainer, CreateContainer, NewContainer, Booted
  <2>. QED  BY <1>1, <1>2, <1>4, <2>1, <2>2, TuningByRequest DEF Mounted, Gone, Holding, dockerVars
<1>13. CASE SetContainerID(r)
  <2>1. UNCHANGED <<status, ctr, volume, conf>> /\ ~Holding(r, s) /\ ~Holding(r, s)' /\ req[r].cid # 0
    BY <1>13 DEF SetContainerID, Outcome, To, Finish, dockerVars, Holding, RequestRoute, Request
  <2>2. cid'[s] = cid[s] \/ status'[s] # "absent"
    BY <1>13, <2>1 DEF SetContainerID, Outcome, Present, Live
  <2>. QED  BY <1>1, <1>2, <1>4, <2>1, <2>2, TuningByRequest DEF Mounted, Gone, Holding
<1>. QED  BY <1>6, <1>7, <1>8, <1>9, <1>10, <1>11, <1>12, <1>13 DEF Handling

\* A step of provision that leaves the requests alone
LEMMA TuningProvisioned ==
    ASSUME TypeOK, RequestRoute, NEW s \in Servers, TuningAt(s), Provisioning(s)
    PROVE  TuningAt(s)'
<1>0. /\ status \in [Servers -> Status] /\ cid \in [Servers -> Nat] /\ prov \in [Servers -> Provision]
      /\ ctr \in [Servers -> Container] /\ volume \in [Servers -> BOOLEAN]
      /\ conf \in [Servers -> {"none", "written", "active"}]
  BY DEF TypeOK
<1>1. Gone(s) \/ volume[s]
  BY DEF TuningAt, Mounted
<1>2. req' = req
  BY DEF Provisioning, ProvGet, ProvVolume, ProvCreate, ProvSetContainerID, ProvWaitHealthy, ProvReady,
     ProvSettings, ProvRestart, ProvExtension, ProvFinish
<1>3. ASSUME UNCHANGED dockerVars, cid'[s] = cid[s], status'[s] = status[s] \/ (Present(s) /\ Present(s)'),
             prov'[s].pc \in {"get", "volume", "create", "setcid"} => prov[s].pc \in {"get", "volume", "create", "setcid"},
             prov'[s].pc = "restart" => prov[s].pc = "restart",
             prov'[s].pc \in Finishing => prov[s].pc \in Finishing
      PROVE  TuningAt(s)'
  BY <1>2, <1>3 DEF TuningAt, Nameless, Mounted, OneHolder, Holding, Tuned, Gone, dockerVars, Present, Live
<1>4. CASE ProvGet(s) \/ ProvFinish(s)
  <2>1. /\ UNCHANGED dockerVars /\ cid'[s] = cid[s] /\ (status'[s] = status[s] \/ (Present(s) /\ Present(s)'))
        /\ prov[s].pc = "get" \/ prov'[s].pc = "idle"
    BY <1>0, <1>4 DEF ProvGet, ProvFinish, Outcome, ProvTo, Provision, SetStatus, rowVars, Present, Live
  <2>2. prov'[s].pc \in {"volume", "idle"}
    BY <1>0, <1>4 DEF ProvGet, ProvFinish, Outcome, ProvTo, Provision
  <2>. QED  BY <1>3, <2>1, <2>2 DEF Finishing
<1>5. CASE \/ ProvWaitHealthy(s, "wait1", "ready1") \/ ProvReady(s, "ready1", "settings")
           \/ ProvWaitHealthy(s, "wait2", "ready2") \/ ProvReady(s, "ready2", "extension")
           \/ ProvExtension(s)
  <2>1. UNCHANGED <<status, cid, ctr, volume, conf>>
    BY <1>5 DEF ProvWaitHealthy, ProvReady, ProvExtension, rowVars, dockerVars
  <2>2. \/ prov'[s].pc \in {"ready1", "settings", "fail"}
        \/ prov[s].pc \in Finishing /\ prov'[s].pc \in Finishing
    BY <1>0, <1>5 DEF ProvWaitHealthy, ProvReady, ProvExtension, Outcome, ProvTo, Provision, Finishing
  <2>. QED  BY <1>3, <2>1, <2>2 DEF Finishing, dockerVars
<1>6. CASE ProvVolume(s)
  <2>1. /\ prov[s].pc = "volume" /\ UNCHANGED <<status, cid, ctr>>
        /\ prov'[s].pc \in {"create", "fail"} /\ (volume[s] => volume'[s])
    BY <1>0, <1>6 DEF ProvVolume, Outcome, ProvTo, Provision, rowVars
  <2>. QED  BY <1>2, <2>1 DEF TuningAt, Nameless, Mounted, OneHolder, Holding, Tuned, Gone, Finishing
<1>7. CASE ProvCreate(s)
  <2>1. prov[s].pc = "create" /\ UNCHANGED <<status, cid>>
    BY <1>7 DEF ProvCreate, rowVars
  <2>2. \A r \in Reqs : ~Holding(r, s)
    BY <2>1 DEF TuningAt, Nameless, Holding, RequestRoute
  <2>3. prov'[s].pc \in {"setcid", "fail"}
    <3>1. prov' = [prov EXCEPT ![s] = [pc |-> "setcid", gen |-> ctr[s].gen + 1]] \/ ProvTo(s, "fail")
      BY Zenon, <1>7 DEF ProvCreate, CreateContainer
    <3>. QED  BY <1>0, <3>1 DEF ProvTo, Provision
  <2>4. UNCHANGED dockerVars \/ volume'[s]
    BY <1>0, <1>7 DEF ProvCreate, CreateContainer, NewContainer
  <2>. QED  BY <1>1, <1>2, <2>1, <2>2, <2>3, <2>4
         DEF TuningAt, Nameless, Mounted, OneHolder, Holding, Tuned, Gone, Finishing, dockerVars
<1>8. CASE ProvSetContainerID(s)
  <2>1. /\ UNCHANGED dockerVars /\ status' = status /\ prov'[s].pc = "wait1"
        /\ cid'[s] = cid[s] \/ status[s] # "absent"
    BY <1>0, <1>8 DEF ProvSetContainerID, Outcome, ProvTo, Provision, Present, Live
  <2>. QED  BY <1>2, <2>1 DEF TuningAt, Nameless, Mounted, OneHolder, Holding, Tuned, Gone, Finishing, dockerVars
<1>9. CASE ProvSettings(s)
  <2>1. UNCHANGED <<status, cid, ctr, volume>>
    BY <1>9 DEF ProvSettings, rowVars
  <2>2. \/ prov'[s].pc = "fail"
        \/ prov'[s].pc = "restart" /\ Accepts(s) /\ conf'[s] = "written"
    BY <1>0, <1>9 DEF ProvSettings, Outcome, ProvTo, Provision
  <2>3. Accepts(s) => volume[s]
    BY <1>1 DEF Accepts, IsRunning, Gone
  <2>. QED  BY <1>2, <2>1, <2>2, <2>3 DEF TuningAt, Nameless, Mounted, OneHolder, Holding, Tuned, Gone, Finishing
<1>10. CASE ProvRestart(s)
  <2>1. UNCHANGED <<status, cid>> /\ prov[s].pc = "restart"
    BY <1>10 DEF ProvRestart, rowVars
  <2>2. \/ prov'[s].pc = "fail" /\ UNCHANGED dockerVars
        \/ prov'[s].pc = "wait2" /\ Boot(s) /\ Exists(s, prov[s].gen)
    BY <1>0, <1>10 DEF ProvRestart, Outcome, ProvTo, Provision
  <2>3. CASE prov'[s].pc = "fail" /\ UNCHANGED dockerVars
    BY <1>3, <2>1, <2>3 DEF Finishing
  <2>4. CASE prov'[s].pc = "wait2" /\ Boot(s) /\ Exists(s, prov[s].gen)
    <3>1. ~Gone(s) /\ volume[s] /\ conf[s] \in {"written", "active"}
      BY <1>1, <2>1, <2>4 DEF Exists, Gone, TuningAt, Tuned
    <3>2. ~Gone(s)' /\ volume' = volume /\ conf'[s] = "active"
      BY <1>0, <2>4, <3>1 DEF Boot, Booted, Gone
    <3>. QED  BY <1>2, <2>1, <2>4, <3>1, <3>2 DEF TuningAt, Nameless, Mounted, OneHolder, Holding, Tuned, Finishing
  <2>. QED  BY <2>2, <2>3, <2>4
<1>. QED  BY <1>4, <1>5, <1>6, <1>7, <1>8, <1>9, <1>10 DEF Provisioning

LEMMA TuningStep == TypeOK /\ TuningInv /\ [Next]_vars => TuningInv'
<1>. SUFFICES ASSUME TypeOK, TuningInv, [Next]_vars PROVE TuningInv'
  OBVIOUS
<1>0. /\ status \in [Servers -> Status] /\ cid \in [Servers -> Nat] /\ prov \in [Servers -> Provision]
      /\ ctr \in [Servers -> Container] /\ volume \in [Servers -> BOOLEAN] /\ req \in [Reqs -> Request]
      /\ conf \in [Servers -> {"none", "written", "active"}]
  BY DEF TypeOK
<1>1. RequestRoute /\ RequestRoute'
  BY RouteKept DEF TuningInv
<1>. SUFFICES ASSUME NEW s \in Servers PROVE TuningAt(s)'
  BY <1>1 DEF TuningInv
<1>2. TuningAt(s)
  BY DEF TuningInv
<1>3. ASSUME NEW t \in Servers, NEW p \in Ports, Create(t, p) PROVE TuningAt(s)'
  <2>1. UNCHANGED <<cid, ctr, volume, conf, req>>
    BY <1>3 DEF Create, dockerVars
  <2>2. \/ prov'[s] = prov[s] /\ (status'[s] = status[s])
        \/ status[s] = "absent" /\ prov'[s].pc = "get"
    BY <1>0, <1>3 DEF Create
  <2>. QED  BY <1>2, <2>1, <2>2 DEF TuningAt, Nameless, Mounted, OneHolder, Holding, Tuned, Gone, Finishing
<1>4. ASSUME NEW t \in Servers, Provisioning(t) PROVE TuningAt(s)'
  <2>1. CASE t = s
    BY <1>1, <1>2, <1>4, <2>1, TuningProvisioned
  <2>2. CASE t # s
    <3>1. Untouched(s) /\ conf'[s] = conf[s] /\ prov'[s] = prov[s] /\ req' = req
      BY <1>0, <1>4, <2>2 DEF Provisioning, ProvGet, ProvVolume, ProvCreate, ProvSetContainerID, ProvWaitHealthy,
         ProvReady, ProvSettings, ProvRestart, ProvExtension, ProvFinish, Outcome, ProvTo, Provision, SetStatus, CreateContainer,
         NewContainer, Boot, Booted, rowVars, dockerVars, Untouched
    <3>. QED  BY <1>2, <3>1, TuningElsewhere DEF Elsewhere
  <2>. QED  BY <2>1, <2>2
<1>5. ASSUME NEW t \in Servers, PostgresUp(t) \/ StoppedOutside(t) PROVE TuningAt(s)'
  <2>1. UNCHANGED <<status, cid, volume, conf, prov, req>>
    BY <1>5 DEF PostgresUp, StoppedOutside, rowVars
  <2>2. Gone(s)' <=> Gone(s)
    BY <1>0, <1>5, SMTT(40) DEF PostgresUp, StoppedOutside, Halted, IsRunning, Gone, Container
  <2>. QED  BY <1>2, <2>1, <2>2 DEF TuningAt, Nameless, Mounted, OneHolder, Holding, Tuned
<1>6. ASSUME NEW t \in Servers, NEW r \in Reqs, UserRequest(r, t) \/ Poll(r, t) PROVE TuningAt(s)'
  <2>1. /\ \A u \in Reqs \ {r} : req'[u] = req[u]
        /\ req'[r].srv = t /\ req'[r].cid = cid[t] /\ req'[r].pc \notin {"create", "rmvol"}
        /\ UNCHANGED <<rowVars, dockerVars, prov>>
    BY <1>6, ReadSlot
  <2>2. Nameless(s)'
    BY <1>2, <2>1 DEF TuningAt, Nameless, rowVars
  <2>3. Mounted(s)' /\ OneHolder(s)' /\ Tuned(s)'
    BY <1>2, <2>1 DEF TuningAt, Mounted, OneHolder, Holding, Tuned, Gone, rowVars, dockerVars
  <2>. QED  BY <2>2, <2>3 DEF TuningAt
<1>7. ASSUME NEW r \in Reqs, Handling(r) PROVE TuningAt(s)'
  <2>1. CASE req[r].srv = s
    BY <1>1, <1>2, <1>7, <2>1, TuningHandled
  <2>2. CASE req[r].srv # s
    <3>1. Untouched(s) /\ prov' = prov /\ \A t \in Reqs : Elsewhere(t, s)
      BY <1>7, <2>2, HandlingSlot DEF Elsewhere
    <3>2. conf'[s] = conf[s]
      BY <1>0, <1>7, <2>2, SMTT(40) DEF Handling, Mark, Inspect, DockerStart, DockerStop, DockerRestart, SaveStatus, RemoveContainer,
         RemoveVolume, DeleteRow, RecreateContainer, SetContainerID, UpdateHostPort, Settle, Outcome, CreateContainer,
         NewContainer, Boot, Booted, dockerVars
    <3>. QED  BY <1>2, <3>1, <3>2, TuningElsewhere
  <2>. QED  BY <2>1, <2>2
<1>8. CASE Crash
  <2>1. /\ UNCHANGED <<rowVars, dockerVars>> /\ prov'[s].pc = "idle"
        /\ \A r \in Reqs : req'[r].cid = 0 /\ req'[r].pc = "idle"
    BY <1>0, <1>8, IdleType DEF Crash, Provision
  <2>. QED  BY <1>2, <2>1 DEF TuningAt, Nameless, Mounted, OneHolder, Holding, Tuned, Gone, Finishing, rowVars, dockerVars
<1>9. CASE UNCHANGED vars
  BY <1>2, <1>9 DEF vars, TuningAt, Nameless, Mounted, OneHolder, Holding, Tuned, Gone
<1>. QED  BY <1>3, <1>4, <1>5, <1>6, <1>7, <1>8, <1>9 DEF Next

\* provision publishes a server only with its preset settings and preloaded
\* libraries in effect, also on a server whose requests were cut short.
THEOREM PublishedTuned == Spec => []PublishedAfterTuning
<1>1. Init => TuningInv
  BY IdleType DEF Init, TuningInv, TuningAt, Nameless, Mounted, OneHolder, Holding, Tuned, Gone, RequestRoute, Finishing
<1>2. TuningInv => PublishedAfterTuning
  BY DEF TuningInv, TuningAt, Tuned, Finishing, PublishedAfterTuning
<1>. QED  BY <1>1, <1>2, TuningStep, TypeCorrect, PTL DEF Spec

=============================================================================

---------------------------- MODULE Pooling_proofs ----------------------------
(***************************************************************************)
(* Row, role and pooler of a server agree: PasswordsAgree and              *)
(* PoolerFollowsRow of Pooling, for any servers, requests and ports.       *)
(*                                                                         *)
(* The properties excuse a server while certain requests are at work on it *)
(* and for ever once a handler was cut short or overtaken.  The invariant  *)
(* says what these requests have in hand: what they read, the password and *)
(* the container that nobody else knows of yet, and what they still have   *)
(* to undo or to record.                                                   *)
(***************************************************************************)
EXTENDS Pooling, WellFoundedInduction, TLAPS

-----------------------------------------------------------------------------
(* The largest port in use *)

\* A set of naturals has a least element.
LEMMA Least ==
    ASSUME NEW T, T \subseteq Nat, T # {}
    PROVE  \E m \in T : \A k \in T : m <= k
<1> DEFINE R == OpToRel(<, Nat)
<1>1. IsWellFoundedOn(R, Nat)
  BY NatLessThanWellFounded
<1>2. \A x, y \in Nat : <<x, y>> \in R <=> x < y
  BY DEF OpToRel
<1> HIDE DEF R
<1>3. PICK m \in T : \A k \in T : <<k, m>> \notin R
  BY <1>1, WFMin
<1>4. \A k \in T : m <= k
  <2>1. TAKE k \in T
  <2>2. m \in Nat /\ k \in Nat /\ ~(k < m)
    BY <1>2, <1>3
  <2> QED  BY <2>2
<1> QED  BY <1>4

\* A bounded one has a largest.
LEMMA Largest ==
    ASSUME NEW S, NEW n \in Nat, S \subseteq 0 .. n, S # {}
    PROVE  \E m \in S : \A k \in S : k <= m
<1> DEFINE T == {d \in 0 .. n : n - d \in S}
<1>1. \A k \in S : n - k \in T /\ k \in 0 .. n
  <2>1. TAKE k \in S
  <2>2. n - k \in 0 .. n /\ n - (n - k) = k
    OBVIOUS
  <2> QED  BY <2>2
<1>2. T \subseteq Nat /\ T # {}
  <2>1. T \subseteq Nat
    OBVIOUS
  <2> QED  BY <1>1, <2>1
<1>3. PICK d \in T : \A e \in T : d <= e
  BY <1>2, Least
<1>4. n - d \in S /\ d \in 0 .. n
  BY <1>3
<1> HIDE DEF T
<1>5. \A k \in S : k <= n - d
  <2>1. TAKE k \in S
  <2>2. d <= n - k /\ k \in 0 .. n
    BY <1>1, <1>3
  <2> QED  BY <1>4, <2>2
<1> QED  BY <1>4, <1>5
-----------------------------------------------------------------------------
(* The invariant *)

Ports == PortRange \cup {0}
RowRecords == [there : BOOLEAN, port : Ports, pw : Nat, cid : Nat, pport : Ports]
PoolerRecords == [id : Nat, pw : Nat, port : Nat]
Requests ==
    [op : Ops \cup {"none"}, srv : Servers \cup {None},
     pc : {"idle", "alloc", "insert", "make", "health", "set", "undo", "remove",
           "clear", "connect", "alter", "update", "revert", "drop", "delrow"},
     seen : Nat, copy : RowRecords, port : Ports, own : Nat, new : Nat, gone : BOOLEAN]

\* Where a request may be, by its operation
PlaceOf(q) ==
    \/ q = Idle
    \/ q.srv \in Servers /\ q.op \in {"create", "enable"} /\ q.pc = "alloc"
    \/ q.srv \in Servers /\ q.op = "create" /\ q.pc = "insert" /\ q.port # 0
    \/ q.srv \in Servers /\ q.op = "enable" /\ q.pc \in {"make", "health", "set", "undo"} /\ q.port # 0
    \/ q.srv \in Servers /\ q.op = "disable" /\ q.pc \in {"remove", "clear"}
    \/ q.srv \in Servers /\ q.op = "delete" /\ q.pc \in {"remove", "delrow"}
    \/ q.srv \in Servers /\ q.op = "rotate" /\ q.pc \in {"connect", "alter", "update", "revert", "drop", "make", "set"}

Shape ==
    /\ row \in [Servers -> RowRecords] /\ version \in [Servers -> Nat] /\ pg \in [Servers -> Nat]
    /\ pooler \in [Servers -> PoolerRecords] /\ last \in Nat /\ budget \in Nat
    /\ req \in [Slots -> Requests] /\ overtaken \subseteq Servers /\ cut \subseteq Servers
    /\ \A r \in Slots : PlaceOf(req[r])
    /\ \A r \in Slots : req[r].pc # "idle" /\ req[r].op # "create" => version[req[r].srv] # 0
    /\ \A s \in Servers : ~row[s].there \/ version[s] = 0 => row[s] = NoRow
    /\ \A s \in Servers : row[s].there => row[s].port # 0

\* Passwords and ids of containers are numbered in the order they are made.
Old ==
    /\ \A s \in Servers : row[s].pw <= last /\ row[s].cid <= last /\ pooler[s].id <= last
    /\ \A r \in Slots : req[r].copy.pw <= last /\ req[r].copy.cid <= last /\ req[r].own <= last /\ req[r].new <= last

Between(q) == q.pc \in {"update", "revert"}
Rotating(q) == q.pc = "alter" \/ Between(q)
Owns(q) == q.pc \in {"health", "set", "undo"}
Rebuilding(q) == q.op = "rotate" /\ q.pc \in {"drop", "make", "set"}
Replacing(q) == (q.op = "rotate" /\ q.pc \in {"make", "set"}) \/ q.pc \in {"clear", "delrow"}

\* The password of a rotation is in no row and no copy until the UPDATE.
NewIsNew(q) ==
    Rotating(req[q]) =>
        /\ req[q].new # 0 /\ \A s \in Servers : row[s].pw # req[q].new
        /\ \A r \in Slots : req[r].copy.pw # req[q].new
        /\ \A r \in Slots \ {q} : Rotating(req[r]) => req[r].new # req[q].new

\* The container a request made is there, and in no row and no copy until it is
\* recorded.
OwnIsNew(q) ==
    Owns(req[q]) =>
        /\ req[q].own # 0 /\ \A s \in Servers : row[s].cid # req[q].own
        /\ \A r \in Slots : req[r].copy.cid # req[q].own
        /\ \A r \in Slots \ {q} : Owns(req[r]) => req[r].own # req[q].own
        /\ pooler[req[q].srv].id = req[q].own
        /\ req[q].op = "rotate" => pooler[req[q].srv].pw = req[q].new /\ pooler[req[q].srv].port = req[q].copy.pport
        /\ req[q].op = "enable" => pooler[req[q].srv].pw = req[q].copy.pw /\ pooler[req[q].srv].port = req[q].port

\* A copy with the version of the row is the row, but for a password the request
\* has just written.
Copied(q) ==
    req[q].pc # "idle" =>
        /\ req[q].seen <= version[req[q].srv]
        /\ req[q].seen = version[req[q].srv] /\ req[q].srv \notin overtaken =>
              row[req[q].srv] = IF Rebuilding(req[q]) THEN [req[q].copy EXCEPT !.pw = req[q].new] ELSE req[q].copy

\* The container a request removed does not come back.
Removed(q) ==
    req[q].pc \in {"clear", "delrow"} /\ req[q].srv \notin cut =>
        req[q].copy.cid = 0 \/ pooler[req[q].srv].id # req[q].copy.cid

\* One rotation at a time stands between ALTER ROLE and the UPDATE, and knows
\* both passwords.
OnePassword(s) ==
    s \notin overtaken \cup cut /\ row[s].there =>
        /\ (\A q \in Slots : req[q].srv = s => ~Between(req[q])) => pg[s] = row[s].pw
        /\ \A q \in Slots : req[q].srv = s /\ Between(req[q]) =>
              /\ pg[s] = req[q].new /\ row[s].pw = req[q].copy.pw
              /\ \A r \in Slots : req[r].srv = s /\ Between(req[r]) => r = q

\* The pooler of the row is there, unless a request is about to change the row.
Backed(s) ==
    s \notin overtaken \cup cut /\ row[s].there /\ row[s].cid # 0
          /\ (\A q \in Slots : req[q].srv = s => ~Replacing(req[q])) =>
        /\ pooler[s].id = row[s].cid /\ pooler[s].port = row[s].pport
        /\ (\A q \in Slots : req[q].srv = s => req[q].pc # "drop") => pooler[s].pw = row[s].pw

\* Any other container has a request at work that made it.
Accounted(s) ==
    s \notin overtaken \cup cut /\ pooler[s].id \notin {0, row[s].cid} =>
        \E q \in Slots : req[q].srv = s /\ Owns(req[q])

PoolingInv ==
    /\ Shape /\ Old /\ PortsDistinct
    /\ \A q \in Slots : NewIsNew(q) /\ OwnIsNew(q) /\ Copied(q) /\ Removed(q)
    /\ \A s \in Servers : OnePassword(s) /\ Backed(s) /\ Accounted(s)

LEMMA InitialInv == Init => PoolingInv
<1> SUFFICES ASSUME Init PROVE PoolingInv
  OBVIOUS
<1> USE PoolingAssumption DEF Init
<1>1. Idle \in Requests /\ NoRow \in RowRecords /\ NoPooler \in PoolerRecords
  BY DEF Idle, NoRow, NoPooler, Requests, RowRecords, PoolerRecords, Ports
<1>2. Shape
  BY <1>1 DEF Shape, PlaceOf, Idle, NoRow
<1>3. Old /\ PortsDistinct
  BY DEF Old, PortsDistinct, Idle, NoRow, NoPooler
<1>4. \A q \in Slots : NewIsNew(q) /\ OwnIsNew(q) /\ Copied(q) /\ Removed(q)
  BY DEF NewIsNew, OwnIsNew, Copied, Removed, Rotating, Between, Owns, Idle
<1>5. \A s \in Servers : OnePassword(s) /\ Backed(s) /\ Accounted(s)
  BY DEF OnePassword, Backed, Accounted, NoRow, NoPooler
<1> QED  BY <1>2, <1>3, <1>4, <1>5 DEF PoolingInv

LEMMA PortNumbers == \E end \in Nat : PortRange \subseteq 1 .. end /\ Ports \subseteq 0 .. end
BY PoolingAssumption DEF Ports

LEMMA MaxPort ==
    ASSUME Shape
    PROVE  /\ MaxHostPort \in Nat
           /\ \A s \in Servers : row[s].port <= MaxHostPort /\ row[s].pport <= MaxHostPort
<1> DEFINE hosts == {row[s].port : s \in Servers}
           poolers == {row[s].pport : s \in Servers}
           used == {0} \cup hosts \cup poolers
<1>1. PICK end \in Nat : Ports \subseteq 0 .. end
  BY PortNumbers
<1>2. \A s \in Servers : row[s].port \in Ports /\ row[s].pport \in Ports
  BY DEF Shape, RowRecords
<1>3. hosts \subseteq 0 .. end /\ poolers \subseteq 0 .. end
  BY <1>1, <1>2
<1>4. used \subseteq 0 .. end /\ used # {}
  BY <1>3
<1>5. PICK m \in used : \A k \in used : k <= m
  BY <1>4, Largest
<1>6. \A s \in Servers : row[s].port <= m /\ row[s].pport <= m
  BY <1>5
<1>7. MaxHostPort \in used /\ \A s \in Servers : row[s].port <= MaxHostPort /\ row[s].pport <= MaxHostPort
  BY <1>5, <1>6 DEF MaxHostPort
<1> QED  BY <1>4, <1>7, SMTT(40)

\* A port just allocated is nobody's.
LEMMA FreshPort ==
    ASSUME Shape, NextPort \in PortRange
    PROVE  \A s \in Servers : row[s].port # NextPort /\ row[s].pport # NextPort
<1>1. NextPort \in Nat
  BY PortNumbers
<1>2. \A s \in Servers : row[s].port \in Ports /\ row[s].pport \in Ports
  BY DEF Shape, RowRecords
<1>3. \A s \in Servers : row[s].port \in Nat /\ row[s].pport \in Nat
  <2>1. PICK end \in Nat : Ports \subseteq 0 .. end
    BY PortNumbers
  <2>2. Ports \subseteq Nat
    BY <2>1
  <2> QED  BY <1>2, <2>2
<1>4. MaxHostPort < NextPort
  BY <1>1, MaxPort DEF NextPort
<1>5. ASSUME NEW s \in Servers PROVE row[s].port # NextPort /\ row[s].pport # NextPort
  <2>1. MaxHostPort \in Nat /\ row[s].port <= MaxHostPort /\ row[s].pport <= MaxHostPort
    BY MaxPort
  <2> QED  BY <1>1, <1>3, <1>4, <2>1
<1> QED  BY <1>5

-----------------------------------------------------------------------------
(* Steps of one request that change no store *)

StoresKept == UNCHANGED <<row, version, pg, pooler>>
Marked(s) ==
    /\ overtaken' \in {overtaken, overtaken \cup {s}} /\ cut' \in {cut, cut \cup {s}}
    /\ last' \in {last, last + 1} /\ budget' \in Nat

\* A request may go away when nobody counts on it any more.
LEMMA Ended ==
    ASSUME PoolingInv, NEW r \in Slots, StoresKept, Marked(req[r].srv), req[r].srv \in Servers,
           req' = [req EXCEPT ![r] = Idle],
           \/ req[r].srv \in cut'
           \/ ~Between(req[r]) /\ ~Owns(req[r]) /\ ~Replacing(req[r]) /\ req[r].pc # "drop"
    PROVE  PoolingInv'
<1> USE DEF PoolingInv, StoresKept, Marked
<1>1. /\ \A q \in Slots \ {r} : req'[q] = req[q]
      /\ req'[r] = Idle /\ Idle.pc = "idle" /\ Idle.srv = None /\ Idle.op = "none"
      /\ Idle.copy.pw = 0 /\ Idle.copy.cid = 0 /\ Idle.own = 0 /\ Idle.new = 0
  BY DEF Shape, Idle, NoRow
<1>2. Shape'
  <2>1. Idle \in Requests
    BY DEF Idle, NoRow, Requests, RowRecords, Ports
  <2> QED  BY <1>1, <2>1 DEF Shape, PlaceOf
<1>3. Old' /\ PortsDistinct'
  <2>1. Old'  BY <1>1 DEF Old, Shape, RowRecords, PoolerRecords, Requests
  <2>2. PortsDistinct'  BY DEF PortsDistinct
  <2> QED  BY <2>1, <2>2
<1>4. ASSUME NEW q \in Slots PROVE NewIsNew(q)' /\ OwnIsNew(q)' /\ Copied(q)' /\ Removed(q)'
  <2>1. CASE q = r
    BY <1>1, <2>1 DEF NewIsNew, OwnIsNew, Copied, Removed, Rotating, Between, Owns
  <2>2. CASE q # r
    <3>1. NewIsNew(q)'  BY <1>1, <2>2 DEF NewIsNew, Rotating, Between
    <3>2. OwnIsNew(q)'  BY <1>1, <2>2 DEF OwnIsNew, Owns
    <3>3. Copied(q)' /\ Removed(q)'  BY <1>1, <2>2 DEF Copied, Removed
    <3> QED  BY <3>1, <3>2, <3>3
  <2> QED  BY <2>1, <2>2
<1>5. ASSUME NEW s \in Servers PROVE OnePassword(s)' /\ Backed(s)' /\ Accounted(s)'
  <2>1. s # None
    BY PoolingAssumption
  <2>2. OnePassword(s)'  BY <1>1, <2>1 DEF OnePassword, Between
  <2>3. Backed(s)'  BY <1>1, <2>1 DEF Backed, Replacing
  <2>4. Accounted(s)'  BY <1>1, <2>1 DEF Accounted, Owns
  <2> QED  BY <2>2, <2>3, <2>4
<1> QED  BY <1>2, <1>3, <1>4, <1>5

\* The next step of a request that keeps what it had in hand
MayBecome(q, x) ==
    /\ q.pc # "idle" /\ x.pc # "idle" /\ PlaceOf(x) /\ q.srv \in Servers
    /\ x.srv = q.srv /\ x.op = q.op /\ x.seen = q.seen /\ x.copy = q.copy /\ x.own = q.own /\ x.new = q.new
    /\ (Owns(x) <=> Owns(q)) /\ (Owns(x) => x.port = q.port)
    /\ (Rotating(x) => Rotating(q)) /\ (Between(x) <=> Between(q)) /\ (Rebuilding(x) <=> Rebuilding(q))
    /\ (Replacing(q) => Replacing(x)) /\ (x.pc = "drop" <=> q.pc = "drop")

LEMMA Moved ==
    ASSUME PoolingInv, NEW r \in Slots, NEW x \in Requests, StoresKept, Marked(req[r].srv),
           req' = [req EXCEPT ![r] = x], MayBecome(req[r], x),
           x.pc \in {"clear", "delrow"} /\ x.srv \notin cut' => x.copy.cid = 0 \/ pooler[x.srv].id # x.copy.cid
    PROVE  PoolingInv'
<1> USE DEF PoolingInv, StoresKept, Marked, MayBecome
<1>1. (\A q \in Slots \ {r} : req'[q] = req[q]) /\ req'[r] = x
  BY DEF Shape
<1>2. Shape'
  BY <1>1 DEF Shape
<1>3. Old' /\ PortsDistinct'
  <2>1. Old'  BY <1>1 DEF Old, Shape, RowRecords, PoolerRecords, Requests
  <2>2. PortsDistinct'  BY DEF PortsDistinct
  <2> QED  BY <2>1, <2>2
<1>4. ASSUME NEW q \in Slots PROVE NewIsNew(q)' /\ OwnIsNew(q)' /\ Copied(q)' /\ Removed(q)'
  <2>1. NewIsNew(q)'  BY <1>1 DEF NewIsNew
  <2>2. OwnIsNew(q)'  BY <1>1 DEF OwnIsNew
  <2>3. Copied(q)'  BY <1>1 DEF Copied
  <2>4. Removed(q)'  BY <1>1 DEF Removed
  <2> QED  BY <2>1, <2>2, <2>3, <2>4
<1>5. ASSUME NEW s \in Servers PROVE OnePassword(s)' /\ Backed(s)' /\ Accounted(s)'
  <2>2. OnePassword(s)'  BY <1>1 DEF OnePassword
  <2>3. Backed(s)'  BY <1>1 DEF Backed
  <2>4. Accounted(s)'  BY <1>1 DEF Accounted
  <2> QED  BY <2>2, <2>3, <2>4
<1> QED  BY <1>2, <1>3, <1>4, <1>5

LEMMA GoneStep == ASSUME PoolingInv, NEW r \in Slots, ClientGone(r) PROVE PoolingInv'
<1> USE DEF ClientGone, PoolingInv, Fault, rows
<1>1. PICK x : x = [req[r] EXCEPT !.gone = TRUE]
  OBVIOUS
<1>2. req[r] \in Requests /\ PlaceOf(req[r]) /\ req[r] # Idle /\ req' = [req EXCEPT ![r] = x]
  BY <1>1 DEF Shape, Idle
<1>3. x \in Requests /\ MayBecome(req[r], x) /\ x.pc = req[r].pc
  BY <1>1, <1>2, ZenonT(40) DEF Requests, MayBecome, PlaceOf, Owns, Rotating, Between, Rebuilding, Replacing, Idle
<1>4. StoresKept /\ Marked(req[r].srv) /\ Removed(r)
  BY DEF StoresKept, Marked, Shape
<1> QED  BY <1>2, <1>3, <1>4, Moved, ZenonT(40) DEF Removed, MayBecome

LEMMA AllocateStep == ASSUME PoolingInv, NEW r \in Slots, AllocatePort(r) PROVE PoolingInv'
<1> USE DEF AllocatePort, PoolingInv, rows
<1>1. req[r].srv \in Servers /\ req[r].op \in {"create", "enable"} /\ req[r] \in Requests
  BY DEF Shape, PlaceOf, Idle
<1>2. StoresKept /\ Marked(req[r].srv)
  BY DEF StoresKept, Marked, Call, Fault, Smooth, Shape
<1>3. CASE End(r)
  BY <1>1, <1>2, <1>3, Ended DEF End, Between, Owns, Replacing
<1>4. CASE NextPort \in PortRange /\
           req' = [req EXCEPT ![r].port = NextPort, ![r].pc = IF req[r].op = "create" THEN "insert" ELSE "make"]
  <2>1. PICK x : x = [req[r] EXCEPT !.port = NextPort, !.pc = IF req[r].op = "create" THEN "insert" ELSE "make"]
    OBVIOUS
  <2>2. NextPort \in Ports /\ NextPort # 0
    BY <1>4, PortNumbers DEF Ports
  <2>3. x \in Requests /\ MayBecome(req[r], x) /\ x.pc \in {"insert", "make"}
    BY <1>1, <2>1, <2>2 DEF Requests, MayBecome, PlaceOf, Owns, Rotating, Between, Rebuilding, Replacing
  <2>4. req' = [req EXCEPT ![r] = x]
    BY <1>4, <2>1 DEF Shape
  <2> QED  BY <1>2, <2>3, <2>4, Moved
<1> QED  BY <1>3, <1>4 DEF Call

LEMMA HealthStep == ASSUME PoolingInv, NEW r \in Slots, WaitHealthy(r) PROVE PoolingInv'
<1> USE DEF WaitHealthy, PoolingInv, rows
<1>1. req[r] \in Requests /\ req[r].srv \in Servers /\ req[r].op = "enable" /\ PlaceOf(req[r])
  BY DEF Shape, PlaceOf, Idle
<1>2. PICK p \in {"set", "undo"} : req' = [req EXCEPT ![r].pc = p]
  BY DEF Call, Goto
<1>3. PICK x : x = [req[r] EXCEPT !.pc = p]
  OBVIOUS
<1>4. x \in Requests /\ MayBecome(req[r], x) /\ x.pc = p
  BY <1>1, <1>3 DEF Requests, MayBecome, PlaceOf, Owns, Rotating, Between, Rebuilding, Replacing, Idle
<1>5. StoresKept /\ Marked(req[r].srv) /\ req' = [req EXCEPT ![r] = x]
  BY <1>2, <1>3 DEF StoresKept, Marked, Shape, Call, Fault, Smooth
<1> QED  BY <1>4, <1>5, Moved

-----------------------------------------------------------------------------
(* Steps of one request that write to the row *)

Recorded(q, x, s) ==
    \/ x = Idle
    \/ /\ q.op = "rotate" /\ x.op = "rotate" /\ x.pc = "drop" /\ x.srv = s /\ x.seen = version[s] + 1
       /\ x.copy = q.copy /\ x.own = q.own /\ x.new = q.new
       /\ s \notin overtaken' => row'[s] = [x.copy EXCEPT !.pw = x.new]

LEMMA Written ==
    ASSUME PoolingInv, NEW r \in Slots, NEW s \in Servers, req[r].srv = s, req[r].pc # "idle",
           NEW record \in RowRecords, Write(r, s, record),
           record.there \/ record = NoRow, record.there => record.port # 0,
           record.pw <= last', record.cid <= last', req[r].op = "create" \/ version[s] # 0,
           \A q \in Slots \ {r} : /\ Rotating(req[q]) => record.pw # req[q].new
                                  /\ Owns(req[q]) => record.cid # req[q].own,
           NEW x \in Requests, PlaceOf(x), Recorded(req[r], x, s), req' = [req EXCEPT ![r] = x],
           pg' \in [Servers -> Nat], \A t \in Servers \ {s} : pg'[t] = pg[t],
           UNCHANGED <<pooler, cut>>, last' \in {last, last + 1}, budget' \in Nat,
           s \notin overtaken' \cup cut => OnePassword(s)' /\ Backed(s)' /\ Accounted(s)',
           PortsDistinct'
    PROVE  PoolingInv'
<1> USE DEF PoolingInv, Write
<1>1. (\A q \in Slots \ {r} : req'[q] = req[q]) /\ req'[r] = x
  BY DEF Shape
<1>2. /\ \A t \in Servers \ {s} : row'[t] = row[t] /\ version'[t] = version[t]
      /\ row'[s] = record /\ version'[s] = version[s] + 1 /\ version[s] \in Nat
      /\ overtaken' \in {overtaken, overtaken \cup {s}}
  BY DEF Shape
<1>3. /\ x = Idle \/ (x.pc = "drop" /\ x.op = "rotate" /\ x.srv = s)
      /\ x.copy = req[r].copy \/ (x.copy.pw = 0 /\ x.copy.cid = 0)
      /\ x.own \in {0, req[r].own} /\ x.new \in {0, req[r].new}
      /\ ~Rotating(x) /\ ~Between(x) /\ ~Owns(x) /\ ~Replacing(x) /\ x.pc \notin {"clear", "delrow"}
  BY DEF Recorded, Idle, NoRow, Rotating, Between, Owns, Replacing
<1>4. Shape'
  <2>1. row' \in [Servers -> RowRecords] /\ version' \in [Servers -> Nat] /\ req' \in [Slots -> Requests]
    BY DEF Shape
  <2>2. \A q \in Slots : PlaceOf(req[q])' /\ (req'[q].pc # "idle" /\ req'[q].op # "create" => version'[req'[q].srv] # 0)
    BY <1>1, <1>2, <1>3 DEF Shape, Idle
  <2>3. \A t \in Servers : /\ ~row'[t].there \/ version'[t] = 0 => row'[t] = NoRow
                           /\ row'[t].there => row'[t].port # 0
    BY <1>2 DEF Shape
  <2> QED  BY <1>2, <2>1, <2>2, <2>3 DEF Shape
<1>5. Old'
  BY <1>1, <1>2, <1>3 DEF Old, Shape, RowRecords, PoolerRecords, Requests
<1>6. ASSUME NEW q \in Slots PROVE NewIsNew(q)' /\ OwnIsNew(q)' /\ Copied(q)' /\ Removed(q)'
  <2>1. CASE q = r
    <3>1. NewIsNew(q)' /\ OwnIsNew(q)' /\ Removed(q)'
      BY <1>1, <1>3, <2>1 DEF NewIsNew, OwnIsNew, Removed
    <3>2. Copied(q)'
      BY <1>1, <1>2, <2>1 DEF Copied, Recorded, Rebuilding, Idle
    <3> QED  BY <3>1, <3>2
  <2>2. CASE q # r
    <3>1. NewIsNew(q)'  BY <1>1, <1>2, <1>3, <2>2 DEF NewIsNew
    <3>2. OwnIsNew(q)'  BY <1>1, <1>2, <1>3, <2>2 DEF OwnIsNew
    <3>3. Copied(q)'
      <4>1. req[q] \in Requests /\ req[q].seen \in Nat /\ (req[q].pc # "idle" => req[q].srv \in Servers)
        BY DEF Shape, Requests, PlaceOf, Idle
      <4>2. CASE req[q].srv = s
        <5>0. req[q].pc # "idle" => req[q].seen <= version[s]
          BY <4>2 DEF Copied
        <5>1. req[q].pc # "idle" => req[q].seen <= version'[s] /\ req[q].seen # version'[s]
          BY ONLY <1>2, <4>1, <5>0
        <5> QED  BY <1>1, <1>2, <2>2, <4>1, <4>2, <5>1 DEF Copied
      <4>3. CASE req[q].srv # s
        BY <1>1, <1>2, <2>2, <4>1, <4>3, SMTT(40) DEF Copied
      <4> QED  BY <4>2, <4>3
    <3>4. Removed(q)'  BY <1>1, <2>2 DEF Removed
    <3> QED  BY <3>1, <3>2, <3>3, <3>4
  <2> QED  BY <2>1, <2>2
<1>7. ASSUME NEW t \in Servers PROVE OnePassword(t)' /\ Backed(t)' /\ Accounted(t)'
  <2>1. CASE t = s
    BY <1>2, <2>1 DEF OnePassword, Backed, Accounted
  <2>2. CASE t # s
    <3>1. x.srv # t /\ req[r].srv # t
      BY <1>3, <2>2, PoolingAssumption DEF Idle
    <3>2. OnePassword(t)'  BY <1>1, <1>2, <2>2, <3>1 DEF OnePassword
    <3>3. Backed(t)'  BY <1>1, <1>2, <2>2, <3>1 DEF Backed
    <3>4. Accounted(t)'  BY <1>1, <1>2, <2>2, <3>1 DEF Accounted
    <3> QED  BY <3>2, <3>3, <3>4
  <2> QED  BY <2>1, <2>2
<1> QED  BY <1>4, <1>5, <1>6, <1>7

-----------------------------------------------------------------------------
(* Steps of one request that make or remove a container *)

Worked(q, x, b) ==
    \/ x = Idle
    \/ /\ x.pc # "idle" /\ x.srv = q.srv /\ x.op = q.op /\ x.seen = q.seen /\ x.copy = q.copy /\ x.new = q.new
       /\ x.port = q.port /\ (Rebuilding(x) <=> Rebuilding(q)) /\ ~Rotating(x) /\ x.own \in {q.own, last'}
       /\ Owns(x) => /\ x.own = last + 1 /\ last' = last + 1
                     /\ b = [id |-> x.own, pw |-> IF x.op = "rotate" THEN x.new ELSE x.copy.pw,
                             port |-> IF x.op = "rotate" THEN x.copy.pport ELSE x.port]

LEMMA Boxed ==
    ASSUME PoolingInv, NEW r \in Slots, NEW s \in Servers, req[r].srv = s, req[r].pc # "idle",
           NEW b \in PoolerRecords, pooler' = [pooler EXCEPT ![s] = b], b.id \in {0, last'}, b.id # 0 => last' = last + 1,
           \A q \in Slots \ {r} : req[q].srv = s => ~Owns(req[q]),
           NEW x \in Requests, PlaceOf(x), Worked(req[r], x, b), req' = [req EXCEPT ![r] = x],
           UNCHANGED <<row, version, pg, overtaken>>, cut' \in {cut, cut \cup {s}},
           last' \in {last, last + 1}, budget' \in Nat, ~Between(req[r]),
           s \notin overtaken \cup cut' => Backed(s)' /\ Accounted(s)'
    PROVE  PoolingInv'
<1> USE DEF PoolingInv
<1>1. (\A q \in Slots \ {r} : req'[q] = req[q]) /\ req'[r] = x
  BY DEF Shape
<1>2. /\ \A t \in Servers \ {s} : pooler'[t] = pooler[t]
      /\ pooler'[s] = b /\ b.id \in Nat
  BY DEF Shape, PoolerRecords
<1>3. /\ x = Idle \/ (x.pc # "idle" /\ x.srv = s)
      /\ x.copy = req[r].copy \/ (x.copy.pw = 0 /\ x.copy.cid = 0)
      /\ x.own \in {0, req[r].own, last'} /\ x.new \in {0, req[r].new} /\ ~Rotating(x) /\ ~Between(x)
  BY DEF Worked, Idle, NoRow, Rotating, Between
<1>4. Shape'
  BY <1>1, <1>3 DEF Shape, Worked, Idle
<1>5. Old' /\ PortsDistinct'
  <2>1. Old'  BY <1>1, <1>2, <1>3 DEF Old, Shape, RowRecords, PoolerRecords, Requests
  <2>2. PortsDistinct'  BY DEF PortsDistinct
  <2> QED  BY <2>1, <2>2
<1>6. ASSUME NEW q \in Slots PROVE NewIsNew(q)' /\ OwnIsNew(q)' /\ Copied(q)' /\ Removed(q)'
  <2>1. NewIsNew(q)'  BY <1>1, <1>3 DEF NewIsNew
  <2>2. Copied(q)'  BY <1>1, <1>3 DEF Copied, Worked, Idle
  <2>3. Removed(q)'
    <3>1. req[q].copy.cid \in Nat /\ last \in Nat /\ req[q].copy.cid <= last
      BY DEF Old, Shape, Requests, RowRecords
    <3> QED  BY <1>1, <1>2, <1>3, <3>1 DEF Removed, Worked, Idle
  <2>4. OwnIsNew(q)'
    <3>1. CASE q = r
      <4>1. /\ \A t \in Servers : row[t].cid # last + 1
            /\ \A p \in Slots : req[p].copy.cid # last + 1 /\ req[p].own # last + 1
        BY DEF Old, Shape, Requests, RowRecords
      <4>2. Owns(x) => /\ x.own = last + 1 /\ last + 1 # 0 /\ x.op \in {"enable", "rotate"} /\ x.copy = req[r].copy
                       /\ b = [id |-> x.own, pw |-> IF x.op = "rotate" THEN x.new ELSE x.copy.pw,
                               port |-> IF x.op = "rotate" THEN x.copy.pport ELSE x.port]
        BY DEF Worked, Owns, Idle, PlaceOf, Shape
      <4> QED  BY <1>1, <1>2, <1>3, <3>1, <4>1, <4>2 DEF OwnIsNew, Idle, Owns
    <3>2. CASE q # r
      <4>1. Owns(req[q]) => req[q].own # last + 1 /\ req[q].srv \in Servers \ {s}
        BY <3>2 DEF Old, Shape, Requests, PlaceOf, Idle, Owns
      <4>2. Owns(x) => x.own = last + 1
        BY DEF Worked, Idle, Owns
      <4> QED  BY <1>1, <1>2, <1>3, <3>2, <4>1, <4>2 DEF OwnIsNew
    <3> QED  BY <3>1, <3>2
  <2> QED  BY <2>1, <2>2, <2>3, <2>4
<1>7. ASSUME NEW t \in Servers PROVE OnePassword(t)' /\ Backed(t)' /\ Accounted(t)'
  <2>1. OnePassword(t)'
    BY <1>1, <1>3 DEF OnePassword
  <2>2. CASE t = s
    BY <2>1, <2>2 DEF Backed, Accounted
  <2>3. CASE t # s
    <3>1. x.srv # t /\ req[r].srv # t
      BY <1>3, <2>3, PoolingAssumption DEF Idle
    <3>2. Backed(t)'  BY <1>1, <1>2, <2>3, <3>1 DEF Backed
    <3>3. Accounted(t)'  BY <1>1, <1>2, <2>3, <3>1 DEF Accounted
    <3> QED  BY <2>1, <3>2, <3>3
  <2> QED  BY <2>2, <2>3
<1> QED  BY <1>4, <1>5, <1>6, <1>7

-----------------------------------------------------------------------------
(* Creating, enabling and disabling *)

\* What a request that is not overtaken by its own write read is the row.
LEMMA CopyIsRow ==
    ASSUME PoolingInv, NEW r \in Slots, NEW s \in Servers, req[r].srv = s, req[r].pc # "idle",
           version[s] = req[r].seen, s \notin overtaken
    PROVE  row[s] = IF Rebuilding(req[r]) THEN [req[r].copy EXCEPT !.pw = req[r].new] ELSE req[r].copy
BY DEF PoolingInv, Copied

\* A record whose ports are nobody's keeps the ports distinct,
LEMMA OwnPorts ==
    ASSUME PoolingInv, NEW s \in Servers, overtaken' \in {overtaken, overtaken \cup {s}}, NEW record \in RowRecords,
           row' = [row EXCEPT ![s] = record],
           s \notin overtaken' /\ record.there =>
              /\ record.port # record.pport
              /\ \A t \in Servers \ overtaken : row[t].there =>
                    record.port # row[t].pport /\ row[t].port # record.pport
    PROVE  PortsDistinct'
<1>1. \A t \in Servers : row'[t] = IF t = s THEN record ELSE row[t]
  BY DEF PoolingInv, Shape
<1>2. ASSUME NEW t \in Servers \ overtaken', NEW u \in Servers \ overtaken', row'[t].there, row'[u].there
      PROVE  row'[t].port # row'[u].pport
  <2>1. t \notin overtaken /\ u \notin overtaken
    OBVIOUS
  <2>2. row[t].there /\ row[u].there => row[t].port # row[u].pport
    BY <2>1 DEF PoolingInv, PortsDistinct
  <2> QED  BY <1>1, <1>2, <2>1, <2>2
<1> QED  BY <1>2 DEF PortsDistinct

\* and so does one that keeps its port, and its pooler's or none.
LEMMA SamePorts ==
    ASSUME PoolingInv, NEW s \in Servers, overtaken' \in {overtaken, overtaken \cup {s}}, NEW record \in RowRecords,
           row' = [row EXCEPT ![s] = record],
           s \notin overtaken' /\ record.there =>
              row[s].there /\ record.port = row[s].port /\ record.pport \in {0, row[s].pport}
    PROVE  PortsDistinct'
<1>1. \A t \in Servers : row[t].there => row[t].port # 0
  BY DEF PoolingInv, Shape
<1>2. \A t, u \in Servers \ overtaken : row[t].there /\ row[u].there => row[t].port # row[u].pport
  BY DEF PoolingInv, PortsDistinct
<1> QED  BY <1>1, <1>2, OwnPorts

LEMMA InsertStep ==
    ASSUME PoolingInv, NEW r \in Slots, NEW s \in Servers, req[r].srv = s, InsertServer(r)
    PROVE  PoolingInv'
<1> USE DEF InsertServer
<1>1. req[r].op = "create" /\ req[r] \in Requests /\ req[r].pc = "insert"
  BY DEF PoolingInv, Shape, PlaceOf, Idle
<1>2. CASE UNCHANGED <<rows, pg, last>>
  <2>1. StoresKept /\ Marked(s)
    BY <1>2 DEF StoresKept, Marked, rows, Call, Fault, Smooth, PoolingInv, Shape
  <2> QED  BY <1>1, <2>1, Ended DEF End, Between, Owns, Replacing
<1>3. CASE /\ ~row[s].there /\ version[s] = 0 /\ \A t \in Servers : row[t].port # req[r].port
           /\ Write(r, s, [NoRow EXCEPT !.there = TRUE, !.port = req[r].port, !.pw = last + 1])
           /\ pg' = [pg EXCEPT ![s] = last + 1] /\ last' = last + 1
  <2>1. PICK record : record = [NoRow EXCEPT !.there = TRUE, !.port = req[r].port, !.pw = last + 1]
    OBVIOUS
  <2>2. row[s] = NoRow /\ last \in Nat /\ req[r].port \in Ports
    BY <1>1, <1>3 DEF PoolingInv, Shape, Requests
  <2>3. /\ record \in RowRecords /\ record.there /\ record.port = req[r].port /\ record.pw = last + 1
        /\ record.cid = 0 /\ record.pport = 0 /\ record.port # 0
    <3>1. record = [there |-> TRUE, port |-> req[r].port, pw |-> last + 1, cid |-> 0, pport |-> 0]
      BY <2>1 DEF NoRow
    <3>2. req[r].port # 0
      BY <1>1 DEF PoolingInv, Shape, PlaceOf, Idle
    <3> QED  BY <2>2, <3>1, <3>2 DEF RowRecords, Ports
  <2>4. /\ Write(r, s, record) /\ row' = [row EXCEPT ![s] = record] /\ row'[s] = record
        /\ \A t \in Servers \ {s} : row'[t] = row[t]
    BY <1>1, <1>3, <2>1 DEF Write, PoolingInv, Shape
  <2>5. /\ pg' \in [Servers -> Nat] /\ pg'[s] = last + 1 /\ \A t \in Servers \ {s} : pg'[t] = pg[t]
    BY <1>1, <1>3, <2>2 DEF PoolingInv, Shape
  <2>6. \A q \in Slots \ {r} : /\ Rotating(req[q]) => record.pw # req[q].new
                               /\ Owns(req[q]) => record.cid # req[q].own
    BY <2>2, <2>3 DEF PoolingInv, Old, OwnIsNew, Shape, Requests
  <2>7. req' = [req EXCEPT ![r] = Idle] /\ UNCHANGED <<pooler, cut>> /\ budget' \in Nat
    BY DEF End, Call, Fault, Smooth, PoolingInv, Shape
  <2>8. \A q \in Slots : req[q].srv = s /\ req[q].pc # "idle" => req[q].op = "create" /\ req[q].pc \in {"alloc", "insert"}
    BY <1>3 DEF PoolingInv, Shape, PlaceOf, Idle
  <2>9. OnePassword(s)' /\ Backed(s)'
    <3>1. \A q \in Slots : req'[q] = IF q = r THEN Idle ELSE req[q]
      BY <2>7 DEF PoolingInv, Shape
    <3>2. \A q \in Slots : req'[q].srv = s => ~Between(req'[q])
      BY <2>8, <3>1 DEF Between, Idle
    <3> QED  BY <2>3, <2>4, <2>5, <3>2 DEF OnePassword, Backed
  <2>10. s \notin overtaken' \cup cut => Accounted(s)'
    <3>1. s \notin overtaken' \cup cut => pooler[s].id = 0
      BY <1>1, <2>2, <2>4, <2>8 DEF PoolingInv, Accounted, Owns, NoRow, Write
    <3> QED  BY <2>7, <3>1 DEF Accounted
  <2>11. PortsDistinct'
    <3>1. s \notin overtaken' => NextPort = record.port /\ NextPort \in PortRange
      BY <1>1, <2>2, <2>3, <2>4 DEF Write, Ports
    <3>2. s \notin overtaken' => \A t \in Servers : row[t].pport # record.port
      BY <3>1, FreshPort DEF PoolingInv
    <3>3. \A t \in Servers : row[t].there => row[t].port # 0
      BY DEF PoolingInv, Shape
    <3>4. overtaken' \in {overtaken, overtaken \cup {s}}
      BY <2>4 DEF Write
    <3>5. s \notin overtaken' /\ record.there =>
             /\ record.port # record.pport
             /\ \A t \in Servers \ overtaken : row[t].there =>
                   record.port # row[t].pport /\ row[t].port # record.pport
      BY <2>3, <3>2, <3>3
    <3> HIDE DEF InsertServer
    <3> QED  BY <2>3, <2>4, <3>4, <3>5, OwnPorts
  <2>12. Idle \in Requests /\ PlaceOf(Idle) /\ Recorded(req[r], Idle, s)
    BY DEF Idle, NoRow, Requests, RowRecords, Ports, PlaceOf, Recorded
  <2>13. record.pw <= last' /\ record.cid <= last'
    BY <1>3, <2>2, <2>3
  <2> QED  BY <1>1, <1>3, <2>3, <2>4, <2>5, <2>6, <2>7, <2>9, <2>10, <2>11, <2>12, <2>13, Written, ZenonT(40)
<1> QED  BY <1>2, <1>3 DEF Call

LEMMA MakeStep ==
    ASSUME PoolingInv, NEW r \in Slots, NEW s \in Servers, req[r].srv = s, MakePooler(r) \/ RemakePooler(r)
    PROVE  PoolingInv'
<1> DEFINE pw == IF req[r].op = "rotate" THEN req[r].new ELSE req[r].copy.pw
           port == IF req[r].op = "rotate" THEN req[r].copy.pport ELSE req[r].port
           made == [id |-> last + 1, pw |-> pw, port |-> port]
           stopped == [id |-> last + 1, pw |-> pw, port |-> 0]
<1> USE DEF MakePooler, RemakePooler
<1>1. /\ req[r].op \in {"enable", "rotate"} /\ req[r] \in Requests /\ req[r].pc = "make"
      /\ req[r].op = "enable" => req[r].port # 0
  BY DEF PoolingInv, Shape, PlaceOf, Idle
<1>2. last \in Nat /\ pw \in Nat /\ port \in Ports /\ Ports \subseteq Nat
  BY <1>1, PortNumbers DEF PoolingInv, Shape, Requests, RowRecords
<1>3. made \in PoolerRecords /\ stopped \in PoolerRecords
  BY <1>2 DEF PoolerRecords
<1>4. UNCHANGED <<row, version, pg, overtaken>> /\ budget' \in Nat /\ last' \in {last, last + 1}
  BY DEF rows, Make, Fault, Smooth, PoolingInv, Shape
<1>5. CASE UNCHANGED <<pooler, last>> /\ End(r) /\ IF req[r].op = "enable" THEN NoHarm ELSE Harm(s)
  <2>1. StoresKept /\ Marked(s)
    BY <1>4, <1>5 DEF StoresKept, Marked, Harm, NoHarm
  <2>2. s \in cut' \/ ~Replacing(req[r])
    BY <1>1, <1>5 DEF Harm, Replacing
  <2> QED  BY <1>1, <1>5, <2>1, <2>2, Ended DEF End, Between, Owns
<1>6. ASSUME pooler[s].id = 0 PROVE \A q \in Slots \ {r} : req[q].srv = s => ~Owns(req[q])
  BY <1>6 DEF PoolingInv, OwnIsNew
<1>7. CASE /\ pooler[s].id = 0 /\ pooler' = [pooler EXCEPT ![s] = stopped] /\ last' = last + 1 /\ End(r) /\ Harm(s)
  <2>1. Idle \in Requests /\ PlaceOf(Idle) /\ Worked(req[r], Idle, stopped) /\ req' = [req EXCEPT ![r] = Idle]
    BY <1>7 DEF Idle, NoRow, Requests, RowRecords, Ports, PlaceOf, Worked, End
  <2>2. s \in cut' /\ cut' \in {cut, cut \cup {s}} /\ ~Between(req[r]) /\ req[r].pc # "idle"
    BY <1>1, <1>7 DEF Harm, Between
  <2>3. stopped.id = last + 1 /\ last + 1 # 0
    BY <1>2
  <2> HIDE DEF stopped, pw, port
  <2> QED  BY <1>3, <1>4, <1>6, <1>7, <2>1, <2>2, <2>3, Boxed
<1>8. CASE /\ pooler[s].id = 0 /\ pooler' = [pooler EXCEPT ![s] = made] /\ last' = last + 1 /\ NoHarm
           /\ req' = [req EXCEPT ![r].pc = IF req[r].op = "enable" THEN "health" ELSE "set", ![r].own = last + 1]
  <2>1. PICK x : x = [req[r] EXCEPT !.pc = IF req[r].op = "enable" THEN "health" ELSE "set", !.own = last + 1]
    OBVIOUS
  <2>2. /\ x \in Requests /\ x.pc = (IF req[r].op = "enable" THEN "health" ELSE "set") /\ x.own = last + 1
        /\ x.srv = req[r].srv /\ x.op = req[r].op /\ x.seen = req[r].seen /\ x.copy = req[r].copy
        /\ x.new = req[r].new /\ x.port = req[r].port
    <3>1. (IF req[r].op = "enable" THEN "health" ELSE "set") \in {"health", "set"} /\ last + 1 \in Nat
      BY <1>2
    <3> QED  BY <1>1, <2>1, <3>1 DEF Requests
  <2>3. PlaceOf(x) /\ Worked(req[r], x, made) /\ Owns(x)
    BY <1>1, <1>8, <2>2 DEF PlaceOf, Worked, Rebuilding, Rotating, Between, Owns
  <2>4. req' = [req EXCEPT ![r] = x] /\ req'[r] = x
    BY <1>8, <2>1 DEF PoolingInv, Shape
  <2>5. ~Between(req[r]) /\ req[r].pc # "idle" /\ made.id = last + 1 /\ last + 1 # 0 /\ cut' = cut
    BY <1>1, <1>2, <1>8 DEF Between, NoHarm
  <2>6. Accounted(s)'
    BY <2>2, <2>3, <2>4 DEF Accounted
  <2>7. s \notin overtaken \cup cut' => Backed(s)'
    <3>1. CASE req[r].op = "rotate"
      BY <2>2, <2>4, <3>1 DEF Backed, Replacing
    <3>2. CASE req[r].op = "enable"
      <4>1. \A q \in Slots : Replacing(req'[q]) <=> Replacing(req[q])
        BY <1>1, <2>2, <2>4, <3>2 DEF Replacing, PoolingInv, Shape
      <4>2. \A q \in Slots : req'[q].srv = req[q].srv
        BY <2>2, <2>4 DEF PoolingInv, Shape
      <4> QED  BY <1>4, <1>8, <2>5, <4>1, <4>2, ZenonT(40) DEF Backed, PoolingInv
    <3> QED  BY <1>1, <3>1, <3>2
  <2> HIDE DEF made, pw, port
  <2> QED  BY <1>3, <1>4, <1>6, <1>8, <2>2, <2>3, <2>4, <2>5, <2>6, <2>7, Boxed
<1> QED  BY <1>1, <1>5, <1>7, <1>8 DEF Make

LEMMA SetStep ==
    ASSUME PoolingInv, NEW r \in Slots, NEW s \in Servers, req[r].srv = s, SetPooler(r)
    PROVE  PoolingInv'
<1> USE DEF SetPooler
<1>1. req[r].op = "enable" /\ req[r] \in Requests /\ PlaceOf(req[r]) /\ req[r].port # 0 /\ req[r].pc = "set"
  BY DEF PoolingInv, Shape, PlaceOf, Idle
<1>2. UNCHANGED <<pg, pooler, last, cut>> /\ budget' \in Nat
  BY DEF Call, Fault, Smooth, PoolingInv, Shape
<1>3. CASE UNCHANGED rows /\ Goto(r, "undo")
  <2>1. PICK x : x = [req[r] EXCEPT !.pc = "undo"]
    OBVIOUS
  <2>2. x \in Requests /\ MayBecome(req[r], x) /\ x.pc = "undo"
    BY <1>1, <2>1 DEF Requests, MayBecome, PlaceOf, Owns, Rotating, Between, Rebuilding, Replacing, Idle
  <2>3. StoresKept /\ Marked(req[r].srv) /\ req' = [req EXCEPT ![r] = x]
    BY <1>2, <1>3, <2>1 DEF StoresKept, Marked, PoolingInv, Shape, Goto, rows
  <2> QED  BY <2>2, <2>3, Moved
<1>4. CASE Write(r, s, [row[s] EXCEPT !.cid = req[r].own, !.pport = req[r].port]) /\ End(r) /\ row[s].there
  <2>1. PICK record : record = [row[s] EXCEPT !.cid = req[r].own, !.pport = req[r].port]
    OBVIOUS
  <2>2. row[s] \in RowRecords /\ req[r].own \in Nat /\ req[r].port \in Ports
    BY <1>1 DEF PoolingInv, Shape, Requests
  <2>3. /\ record \in RowRecords /\ record.there /\ record.port = row[s].port /\ record.pw = row[s].pw
        /\ record.cid = req[r].own /\ record.pport = req[r].port /\ record.port # 0
    BY <1>4, <2>1, <2>2 DEF RowRecords, PoolingInv, Shape
  <2>4. /\ Write(r, s, record) /\ row' = [row EXCEPT ![s] = record] /\ row'[s] = record
        /\ overtaken' \in {overtaken, overtaken \cup {s}}
        /\ s \notin overtaken' => version[s] = req[r].seen /\ s \notin overtaken /\ req[r].port = NextPort
    BY <1>1, <1>4, <2>1 DEF Write, PoolingInv, Shape
  <2>5. \A q \in Slots \ {r} : /\ Rotating(req[q]) => record.pw # req[q].new
                               /\ Owns(req[q]) => record.cid # req[q].own
    BY <1>1, <2>3 DEF PoolingInv, NewIsNew, OwnIsNew, Owns
  <2>6. req' = [req EXCEPT ![r] = Idle] /\ \A q \in Slots : req'[q] = IF q = r THEN Idle ELSE req[q]
    BY <1>4 DEF End, PoolingInv, Shape
  <2>7. /\ pooler[s].id = req[r].own /\ pooler[s].pw = req[r].copy.pw /\ pooler[s].port = req[r].port
        /\ s \notin overtaken' => row[s] = req[r].copy
    BY <1>1, <2>4, CopyIsRow, ZenonT(40) DEF PoolingInv, OwnIsNew, Owns, Rebuilding
  <2>8. s \notin overtaken' \cup cut => OnePassword(s)'
    <3>1. \A q \in Slots : (req'[q].srv = s /\ Between(req'[q])) <=> (req[q].srv = s /\ Between(req[q]))
      BY <1>1, <2>6 DEF Between, Idle
    <3> QED  BY <1>1, <1>2, <1>4, <2>3, <2>4, <2>6, <3>1 DEF OnePassword, PoolingInv, Between, Idle
  <2>9. s \notin overtaken' \cup cut => Backed(s)' /\ Accounted(s)'
    BY <1>2, <2>3, <2>4, <2>7 DEF Backed, Accounted
  <2>10. PortsDistinct'
    <3>1. NextPort \in PortRange /\ req[r].port = NextPort => \A t \in Servers : row[t].port # req[r].port
      BY FreshPort DEF PoolingInv
    <3>2. s \notin overtaken' => \A t \in Servers : row[t].port # record.pport
      BY <1>1, <2>2, <2>3, <2>4, <3>1 DEF Ports
    <3>3. s \notin overtaken' /\ record.there =>
             /\ record.port # record.pport
             /\ \A t \in Servers \ overtaken : row[t].there =>
                   record.port # row[t].pport /\ row[t].port # record.pport
      BY <1>4, <2>3, <2>4, <3>2 DEF PoolingInv, PortsDistinct
    <3> QED  BY <2>3, <2>4, <3>3, OwnPorts
  <2>11. Idle \in Requests /\ PlaceOf(Idle) /\ Recorded(req[r], Idle, s)
    BY DEF Idle, NoRow, Requests, RowRecords, Ports, PlaceOf, Recorded
  <2>12. record.pw <= last' /\ record.cid <= last'
    BY <1>2, <2>3 DEF PoolingInv, Old
  <2>13. version[s] # 0 /\ req[r].pc # "idle" /\ pg' \in [Servers -> Nat] /\ \A t \in Servers \ {s} : pg'[t] = pg[t]
    BY <1>1, <1>2 DEF PoolingInv, Shape
  <2> QED  BY <1>2, <2>3, <2>4, <2>5, <2>6, <2>8, <2>9, <2>10, <2>11, <2>12, <2>13, Written, ZenonT(40)
<1> QED  BY <1>3, <1>4 DEF Call

\* What a request makes of itself when it removed the container
LEMMA RemovedStep ==
    ASSUME PoolingInv, NEW r \in Slots, NEW s \in Servers, req[r].srv = s, req[r].pc # "idle",
           Remove(s), UNCHANGED <<row, version, pg, overtaken, cut, last>>, budget' \in Nat,
           ~Between(req[r]), \A q \in Slots \ {r} : req[q].srv = s /\ Owns(req[q]) => pooler[s].id # req[q].own,
           NEW x \in Requests, PlaceOf(x), x = Idle \/ Worked(req[r], x, NoPooler), req' = [req EXCEPT ![r] = x],
           s \notin overtaken \cup cut => Backed(s)'
    PROVE  PoolingInv'
<1>1. NoPooler \in PoolerRecords /\ NoPooler.id = 0
  BY DEF NoPooler, PoolerRecords
<1>2. pooler' = [pooler EXCEPT ![s] = NoPooler] /\ pooler'[s].id = 0
  BY <1>1 DEF Remove, PoolingInv, Shape
<1>3. \A q \in Slots \ {r} : req[q].srv = s => ~Owns(req[q])
  BY DEF PoolingInv, OwnIsNew
<1>4. Accounted(s)'
  BY <1>2 DEF Accounted
<1>5. Worked(req[r], x, NoPooler)
  BY DEF Worked
<1> HIDE DEF NoPooler
<1> QED  BY <1>1, <1>2, <1>3, <1>4, <1>5, Boxed

LEMMA UndoStep ==
    ASSUME PoolingInv, NEW r \in Slots, NEW s \in Servers, req[r].srv = s, UndoPooler(r)
    PROVE  PoolingInv'
<1> USE DEF UndoPooler
<1>1. req[r].op = "enable" /\ req[r] \in Requests /\ req[r].pc = "undo"
  BY DEF PoolingInv, Shape, PlaceOf, Idle
<1>2. Owns(req[r]) /\ pooler[s].id = req[r].own /\ row[s].cid # req[r].own
  BY <1>1 DEF PoolingInv, OwnIsNew, Owns
<1>3. UNCHANGED <<row, version, pg, overtaken, last>> /\ budget' \in Nat /\ req' = [req EXCEPT ![r] = Idle]
  BY DEF rows, End, Call, Fault, Smooth, PoolingInv, Shape
<1>4. CASE UNCHANGED pooler /\ IF pooler[s].id = req[r].own THEN Harm(s) ELSE NoHarm
  <2>1. s \in cut' /\ StoresKept /\ Marked(s)
    BY <1>2, <1>3, <1>4 DEF Harm, StoresKept, Marked
  <2> QED  BY <1>3, <2>1, Ended
<1>5. CASE Remove(s) /\ NoHarm
  <2>1. \A q \in Slots \ {r} : req[q].srv = s /\ Owns(req[q]) => pooler[s].id # req[q].own
    BY <1>2 DEF PoolingInv, OwnIsNew
  <2>2. Idle \in Requests /\ PlaceOf(Idle)
    BY DEF Idle, NoRow, Requests, RowRecords, Ports, PlaceOf
  <2>3. s \notin overtaken \cup cut => Backed(s)'
    <3>1. \A q \in Slots : req'[q] = IF q = r THEN Idle ELSE req[q]
      BY <1>3 DEF PoolingInv, Shape
    <3>2. (\A q \in Slots : req'[q].srv = s => ~Replacing(req'[q])) => \A q \in Slots : req[q].srv = s => ~Replacing(req[q])
      BY <1>1, <3>1 DEF Replacing
    <3>3. ~Replacing(req[r])
      BY <1>1 DEF Replacing
    <3> QED  BY <1>2, <1>3, <3>1, <3>2, <3>3 DEF Backed, PoolingInv
  <2> QED  BY <1>1, <1>3, <1>5, <2>1, <2>2, <2>3, RemovedStep DEF NoHarm, Between
<1> QED  BY <1>4, <1>5 DEF Call

\* The container of the copy is nobody's new one.
LEMMA CopyNotOwned ==
    ASSUME PoolingInv, NEW r \in Slots, NEW s \in Servers, pooler[s].id = req[r].copy.cid
    PROVE  \A q \in Slots \ {r} : req[q].srv = s /\ Owns(req[q]) => pooler[s].id # req[q].own
BY DEF PoolingInv, OwnIsNew

LEMMA RemoveStep ==
    ASSUME PoolingInv, NEW r \in Slots, NEW s \in Servers, req[r].srv = s, RemovePooler(r)
    PROVE  PoolingInv'
<1> DEFINE after == IF req[r].op = "delete" THEN "delrow" ELSE "clear"
<1> USE DEF RemovePooler
<1>1. req[r].op \in {"disable", "delete"} /\ req[r] \in Requests /\ req[r].pc = "remove"
  BY DEF PoolingInv, Shape, PlaceOf, Idle
<1>2. UNCHANGED <<row, version, pg, overtaken, last>> /\ budget' \in Nat
  BY DEF rows, Fault, Smooth, PoolingInv, Shape
<1>3. PICK x : x = [req[r] EXCEPT !.pc = after]
  OBVIOUS
<1>4. /\ x \in Requests /\ x.pc = after /\ x.srv = s /\ x.op = req[r].op /\ x.seen = req[r].seen
      /\ x.copy = req[r].copy /\ x.port = req[r].port /\ x.own = req[r].own /\ x.new = req[r].new
  BY <1>1, <1>3 DEF Requests
<1>5. PlaceOf(x) /\ MayBecome(req[r], x) /\ Worked(req[r], x, NoPooler) /\ Replacing(x)
  BY <1>1, <1>4 DEF PlaceOf, MayBecome, Worked, Owns, Rotating, Between, Rebuilding, Replacing
<1>6. CASE Goto(r, after) /\ (\/ pooler[s].id = req[r].copy.cid /\ Remove(s) /\ NoHarm
                              \/ UNCHANGED pooler /\ ((pooler[s].id # req[r].copy.cid /\ NoHarm) \/ Harm(s)))
  <2>1. req' = [req EXCEPT ![r] = x] /\ req'[r] = x
    BY <1>3, <1>6 DEF Goto, PoolingInv, Shape
  <2>2. CASE pooler[s].id = req[r].copy.cid /\ Remove(s) /\ NoHarm
    <3>1. Backed(s)'
      BY <1>4, <1>5, <2>1 DEF Backed
    <3> QED  BY <1>1, <1>2, <1>4, <1>5, <2>1, <2>2, <3>1, CopyNotOwned, RemovedStep DEF NoHarm, Between
  <2>3. CASE UNCHANGED pooler /\ ((pooler[s].id # req[r].copy.cid /\ NoHarm) \/ Harm(s))
    <3>1. StoresKept /\ Marked(s) /\ (s \notin cut' => pooler[s].id # req[r].copy.cid)
      BY <1>2, <2>3 DEF StoresKept, Marked, Harm, NoHarm
    <3> QED  BY <1>4, <1>5, <2>1, <3>1, Moved
  <2> QED  BY <1>6, <2>2, <2>3
<1>7. CASE End(r) /\ NoHarm /\ UNCHANGED pooler
  <2>1. StoresKept /\ Marked(s)
    BY <1>2, <1>7 DEF StoresKept, Marked, NoHarm
  <2> QED  BY <1>1, <1>7, <2>1, Ended DEF End, Between, Owns, Replacing
<1> QED  BY <1>1, <1>6, <1>7

LEMMA DropStep ==
    ASSUME PoolingInv, NEW r \in Slots, NEW s \in Servers, req[r].srv = s, DropPooler(r)
    PROVE  PoolingInv'
<1> USE DEF DropPooler
<1>1. req[r].op = "rotate" /\ req[r] \in Requests /\ req[r].pc = "drop"
  BY DEF PoolingInv, Shape, PlaceOf, Idle
<1>2. UNCHANGED <<row, version, pg, overtaken, last>> /\ budget' \in Nat
  BY DEF rows, Call, Fault, Smooth, PoolingInv, Shape
<1>3. CASE UNCHANGED pooler /\ End(r) /\ Harm(s)
  <2>1. s \in cut' /\ StoresKept /\ Marked(s)
    BY <1>2, <1>3 DEF Harm, StoresKept, Marked
  <2> QED  BY <1>3, <2>1, Ended DEF End
<1>4. CASE pooler[s].id = req[r].copy.cid /\ Remove(s) /\ Goto(r, "make") /\ NoHarm
  <2>1. PICK x : x = [req[r] EXCEPT !.pc = "make"]
    OBVIOUS
  <2>2. /\ x \in Requests /\ x.pc = "make" /\ x.srv = s /\ x.op = req[r].op /\ x.seen = req[r].seen
        /\ x.copy = req[r].copy /\ x.port = req[r].port /\ x.own = req[r].own /\ x.new = req[r].new
    BY <1>1, <2>1 DEF Requests
  <2>3. PlaceOf(x) /\ Worked(req[r], x, NoPooler) /\ Replacing(x)
    BY <1>1, <2>2 DEF PlaceOf, Worked, Owns, Rotating, Between, Rebuilding, Replacing
  <2>4. req' = [req EXCEPT ![r] = x] /\ req'[r] = x
    BY <1>4, <2>1 DEF Goto, PoolingInv, Shape
  <2>5. Backed(s)'
    BY <2>2, <2>3, <2>4 DEF Backed
  <2> QED  BY <1>1, <1>2, <1>4, <2>2, <2>3, <2>4, <2>5, CopyNotOwned, RemovedStep DEF NoHarm, Between
<1> QED  BY <1>3, <1>4 DEF Call

\* A request that removed the container leaves none unaccounted for.
LEMMA NoneLeft ==
    ASSUME PoolingInv, NEW r \in Slots, NEW s \in Servers, req[r].srv = s, req[r].pc \in {"clear", "delrow"},
           version[s] = req[r].seen, s \notin overtaken \cup cut, row'[s].cid = 0, pooler' = pooler,
           s \notin overtaken', cut' = cut, req' = [req EXCEPT ![r] = Idle]
    PROVE  Accounted(s)'
<1>1. row[s] = req[r].copy
  BY CopyIsRow DEF Rebuilding, PoolingInv, Shape, PlaceOf, Idle
<1>2. row[s].cid = 0 \/ pooler[s].id # row[s].cid
  BY <1>1 DEF PoolingInv, Removed
<1>3. \A q \in Slots : req[q].srv = s /\ Owns(req[q]) => req'[q] = req[q]
  BY DEF PoolingInv, Shape, Owns
<1> QED  BY <1>2, <1>3 DEF PoolingInv, Accounted

LEMMA ClearStep ==
    ASSUME PoolingInv, NEW r \in Slots, NEW s \in Servers, req[r].srv = s, ClearPooler(r)
    PROVE  PoolingInv'
<1> USE DEF ClearPooler
<1>1. req[r].op = "disable" /\ req[r] \in Requests /\ req[r].pc = "clear"
  BY DEF PoolingInv, Shape, PlaceOf, Idle
<1>2. UNCHANGED <<pg, pooler, last>> /\ budget' \in Nat /\ req' = [req EXCEPT ![r] = Idle]
  BY DEF Call, Fault, Smooth, End, PoolingInv, Shape
<1>3. CASE UNCHANGED rows /\ Harm(s)
  <2>1. s \in cut' /\ StoresKept /\ Marked(s)
    BY <1>2, <1>3 DEF Harm, StoresKept, Marked, rows
  <2> QED  BY <1>2, <2>1, Ended
<1>4. CASE row[s].there /\ Write(r, s, [row[s] EXCEPT !.cid = 0, !.pport = 0]) /\ NoHarm
  <2>1. PICK record : record = [row[s] EXCEPT !.cid = 0, !.pport = 0]
    OBVIOUS
  <2>2. /\ record \in RowRecords /\ record.there /\ record.port = row[s].port /\ record.pw = row[s].pw
        /\ record.cid = 0 /\ record.pport = 0 /\ record.port # 0
    <3>1. row[s] \in RowRecords /\ row[s].port # 0 /\ 0 \in Ports
      BY <1>4 DEF PoolingInv, Shape, Ports
    <3> QED  BY <1>4, <2>1, <3>1 DEF RowRecords
  <2>3. /\ Write(r, s, record) /\ row' = [row EXCEPT ![s] = record] /\ row'[s] = record
        /\ overtaken' \in {overtaken, overtaken \cup {s}}
        /\ s \notin overtaken' => version[s] = req[r].seen /\ s \notin overtaken
    BY <1>4, <2>1 DEF Write, PoolingInv, Shape
  <2>4. \A q \in Slots \ {r} : /\ Rotating(req[q]) => record.pw # req[q].new
                               /\ Owns(req[q]) => record.cid # req[q].own
    BY <2>2 DEF PoolingInv, NewIsNew, OwnIsNew
  <2>5. \A q \in Slots : req'[q] = IF q = r THEN Idle ELSE req[q]
    BY <1>2 DEF PoolingInv, Shape
  <2>6. s \notin overtaken' \cup cut => OnePassword(s)'
    <3>1. \A q \in Slots : (req'[q].srv = s /\ Between(req'[q])) <=> (req[q].srv = s /\ Between(req[q]))
      BY <1>1, <2>5 DEF Between, Idle
    <3> QED  BY <1>1, <1>2, <1>4, <2>2, <2>3, <2>5, <3>1 DEF OnePassword, PoolingInv, Between, Idle
  <2>7. s \notin overtaken' \cup cut => Backed(s)' /\ Accounted(s)'
    BY <1>1, <1>2, <1>4, <2>2, <2>3, NoneLeft DEF Backed, NoHarm
  <2>8. PortsDistinct'
    BY <1>4, <2>2, <2>3, SamePorts
  <2>9. Idle \in Requests /\ PlaceOf(Idle) /\ Recorded(req[r], Idle, s)
    BY DEF Idle, NoRow, Requests, RowRecords, Ports, PlaceOf, Recorded
  <2>10. record.pw <= last' /\ record.cid <= last'
    BY <1>2, <2>2 DEF PoolingInv, Old, Shape
  <2>11. version[s] # 0 /\ req[r].pc # "idle" /\ pg' \in [Servers -> Nat] /\ \A t \in Servers \ {s} : pg'[t] = pg[t]
    BY <1>1, <1>2 DEF PoolingInv, Shape
  <2> QED  BY <1>2, <1>4, <2>2, <2>3, <2>4, <2>6, <2>7, <2>8, <2>9, <2>10, <2>11, Written DEF NoHarm
<1> QED  BY <1>3, <1>4 DEF Call

LEMMA DeleteStep ==
    ASSUME PoolingInv, NEW r \in Slots, NEW s \in Servers, req[r].srv = s, DeleteServer(r)
    PROVE  PoolingInv'
<1> USE DEF DeleteServer
<1>1. req[r].op = "delete" /\ req[r] \in Requests /\ req[r].pc = "delrow"
  BY DEF PoolingInv, Shape, PlaceOf, Idle
<1>2. UNCHANGED <<pg, pooler, last>> /\ budget' \in Nat /\ req' = [req EXCEPT ![r] = Idle]
  BY DEF Call, Fault, Smooth, End, PoolingInv, Shape
<1>3. CASE UNCHANGED rows /\ Harm(s)
  <2>1. s \in cut' /\ StoresKept /\ Marked(s)
    BY <1>2, <1>3 DEF Harm, StoresKept, Marked, rows
  <2> QED  BY <1>2, <2>1, Ended
<1>4. CASE Write(r, s, NoRow) /\ NoHarm
  <2>1. /\ NoRow \in RowRecords /\ ~NoRow.there /\ NoRow.pw = 0 /\ NoRow.cid = 0
        /\ Idle \in Requests /\ PlaceOf(Idle) /\ Recorded(req[r], Idle, s)
    BY DEF Idle, NoRow, Requests, RowRecords, Ports, PlaceOf, Recorded
  <2>2. PICK record \in RowRecords : record = NoRow
    BY <2>1
  <2>3. /\ Write(r, s, record) /\ row' = [row EXCEPT ![s] = record] /\ row'[s] = record
        /\ overtaken' \in {overtaken, overtaken \cup {s}}
        /\ s \notin overtaken' => version[s] = req[r].seen /\ s \notin overtaken
    BY <1>4, <2>2 DEF Write, PoolingInv, Shape
  <2>4. \A q \in Slots \ {r} : /\ Rotating(req[q]) => record.pw # req[q].new
                               /\ Owns(req[q]) => record.cid # req[q].own
    BY <2>1, <2>2 DEF PoolingInv, NewIsNew, OwnIsNew
  <2>5. s \notin overtaken' \cup cut => OnePassword(s)' /\ Backed(s)' /\ Accounted(s)'
    BY <1>1, <1>2, <1>4, <2>1, <2>2, <2>3, NoneLeft DEF OnePassword, Backed, NoHarm
  <2>6. PortsDistinct'
    BY <2>1, <2>2, <2>3, SamePorts
  <2>7. record.pw <= last' /\ record.cid <= last' /\ ~record.there
    BY <1>2, <2>1, <2>2 DEF PoolingInv, Shape
  <2>8. version[s] # 0 /\ req[r].pc # "idle" /\ pg' \in [Servers -> Nat] /\ \A t \in Servers \ {s} : pg'[t] = pg[t]
    BY <1>1, <1>2 DEF PoolingInv, Shape
  <2> QED  BY <1>2, <1>4, <2>1, <2>2, <2>3, <2>4, <2>5, <2>6, <2>7, <2>8, Written DEF NoHarm
<1> QED  BY <1>3, <1>4 DEF Call

-----------------------------------------------------------------------------
(* Rotating *)

LEMMA ResetStep ==
    ASSUME PoolingInv, NEW r \in Slots, NEW s \in Servers, req[r].srv = s, ResetPooler(r)
    PROVE  PoolingInv'
<1> USE DEF ResetPooler
<1>1. req[r].op = "rotate" /\ req[r] \in Requests /\ req[r].pc = "set"
  BY DEF PoolingInv, Shape, PlaceOf, Idle
<1>2. UNCHANGED <<pg, pooler, last>> /\ budget' \in Nat /\ req' = [req EXCEPT ![r] = Idle]
  BY DEF Call, Fault, Smooth, End, PoolingInv, Shape
<1>3. CASE UNCHANGED rows /\ Harm(s)
  <2>1. s \in cut' /\ StoresKept /\ Marked(s)
    BY <1>2, <1>3 DEF Harm, StoresKept, Marked, rows
  <2> QED  BY <1>2, <2>1, Ended
<1>4. CASE row[s].there /\ Write(r, s, [row[s] EXCEPT !.cid = req[r].own, !.pport = req[r].copy.pport]) /\ NoHarm
  <2>1. PICK record : record = [row[s] EXCEPT !.cid = req[r].own, !.pport = req[r].copy.pport]
    OBVIOUS
  <2>2. /\ record \in RowRecords /\ record.there /\ record.port = row[s].port /\ record.pw = row[s].pw
        /\ record.cid = req[r].own /\ record.pport = req[r].copy.pport /\ record.port # 0
    <3>1. row[s] \in RowRecords /\ row[s].port # 0 /\ req[r].own \in Nat /\ req[r].copy.pport \in Ports
      BY <1>1, <1>4 DEF PoolingInv, Shape, Requests, RowRecords
    <3> QED  BY <1>4, <2>1, <3>1 DEF RowRecords
  <2>3. /\ Write(r, s, record) /\ row' = [row EXCEPT ![s] = record] /\ row'[s] = record
        /\ overtaken' \in {overtaken, overtaken \cup {s}}
        /\ s \notin overtaken' => version[s] = req[r].seen /\ s \notin overtaken
    BY <1>4, <2>1 DEF Write, PoolingInv, Shape
  <2>4. \A q \in Slots \ {r} : /\ Rotating(req[q]) => record.pw # req[q].new
                               /\ Owns(req[q]) => record.cid # req[q].own
    BY <1>1, <2>2 DEF PoolingInv, NewIsNew, OwnIsNew, Owns
  <2>5. \A q \in Slots : req'[q] = IF q = r THEN Idle ELSE req[q]
    BY <1>2 DEF PoolingInv, Shape
  <2>6. /\ pooler[s].id = req[r].own /\ pooler[s].pw = req[r].new /\ pooler[s].port = req[r].copy.pport
        /\ s \notin overtaken' => row[s].pw = req[r].new /\ row[s].pport = req[r].copy.pport
    <3>1. pooler[s].id = req[r].own /\ pooler[s].pw = req[r].new /\ pooler[s].port = req[r].copy.pport
      BY <1>1 DEF PoolingInv, OwnIsNew, Owns
    <3>2. s \notin overtaken' => row[s] = [req[r].copy EXCEPT !.pw = req[r].new]
      BY <1>1, <2>3, CopyIsRow DEF Rebuilding
    <3>3. req[r].copy \in RowRecords
      BY <1>1 DEF Requests
    <3> QED  BY <3>1, <3>2, <3>3 DEF RowRecords
  <2>7. s \notin overtaken' \cup cut => OnePassword(s)'
    <3>1. \A q \in Slots : (req'[q].srv = s /\ Between(req'[q])) <=> (req[q].srv = s /\ Between(req[q]))
      BY <1>1, <2>5 DEF Between, Idle
    <3> QED  BY <1>1, <1>2, <1>4, <2>2, <2>3, <2>5, <3>1 DEF OnePassword, PoolingInv, Between, Idle
  <2>8. s \notin overtaken' \cup cut => Backed(s)' /\ Accounted(s)'
    BY <1>2, <2>2, <2>3, <2>6 DEF Backed, Accounted
  <2>9. PortsDistinct'
    BY <1>4, <2>2, <2>3, <2>6, SamePorts, ZenonT(40)
  <2>10. Idle \in Requests /\ PlaceOf(Idle) /\ Recorded(req[r], Idle, s)
    BY DEF Idle, NoRow, Requests, RowRecords, Ports, PlaceOf, Recorded
  <2>11. record.pw <= last' /\ record.cid <= last'
    BY <1>2, <2>2 DEF PoolingInv, Old
  <2>12. version[s] # 0 /\ req[r].pc # "idle" /\ pg' \in [Servers -> Nat] /\ \A t \in Servers \ {s} : pg'[t] = pg[t]
    BY <1>1, <1>2 DEF PoolingInv, Shape
  <2> QED  BY <1>2, <1>4, <2>2, <2>3, <2>4, <2>7, <2>8, <2>9, <2>10, <2>11, <2>12, Written, ZenonT(40) DEF NoHarm
<1> QED  BY <1>3, <1>4 DEF Call

LEMMA UpdateStep ==
    ASSUME PoolingInv, NEW r \in Slots, NEW s \in Servers, req[r].srv = s, UpdatePassword(r)
    PROVE  PoolingInv'
<1> USE DEF UpdatePassword
<1>1. req[r].op = "rotate" /\ req[r] \in Requests /\ req[r].pc = "update" /\ Between(req[r]) /\ Rotating(req[r])
  BY DEF PoolingInv, Shape, PlaceOf, Idle, Between, Rotating
<1>2. UNCHANGED <<pg, pooler, last, cut>> /\ budget' \in Nat
  BY DEF Call, Fault, Smooth, PoolingInv, Shape
<1>3. CASE UNCHANGED rows /\ Goto(r, "revert")
  <2>1. PICK x : x = [req[r] EXCEPT !.pc = "revert"]
    OBVIOUS
  <2>2. x \in Requests /\ MayBecome(req[r], x) /\ x.pc = "revert"
    BY <1>1, <2>1 DEF Requests, MayBecome, PlaceOf, Owns, Rotating, Between, Rebuilding, Replacing, Idle
  <2>3. StoresKept /\ Marked(s) /\ req' = [req EXCEPT ![r] = x]
    BY <1>2, <1>3, <2>1 DEF StoresKept, Marked, PoolingInv, Shape, Goto, rows
  <2> QED  BY <2>2, <2>3, Moved
<1>4. CASE /\ row[s].there /\ Write(r, s, [row[s] EXCEPT !.pw = req[r].new])
           /\ IF req[r].copy.cid # 0
              THEN req' = [req EXCEPT ![r].pc = "drop", ![r].seen = version[s] + 1]
              ELSE End(r)
  <2>1. PICK record : record = [row[s] EXCEPT !.pw = req[r].new]
    OBVIOUS
  <2>2. /\ record \in RowRecords /\ record.there /\ record.port = row[s].port /\ record.pw = req[r].new
        /\ record.cid = row[s].cid /\ record.pport = row[s].pport /\ record.port # 0
    <3>1. row[s] \in RowRecords /\ row[s].port # 0 /\ req[r].new \in Nat
      BY <1>1, <1>4 DEF PoolingInv, Shape, Requests
    <3> QED  BY <1>4, <2>1, <3>1 DEF RowRecords
  <2>3. /\ Write(r, s, record) /\ row' = [row EXCEPT ![s] = record] /\ row'[s] = record
        /\ overtaken' \in {overtaken, overtaken \cup {s}}
        /\ s \notin overtaken' => version[s] = req[r].seen /\ s \notin overtaken
    BY <1>4, <2>1 DEF Write, PoolingInv, Shape
  <2>4. \A q \in Slots \ {r} : /\ Rotating(req[q]) => record.pw # req[q].new
                               /\ Owns(req[q]) => record.cid # req[q].own
    BY <1>1, <2>2 DEF PoolingInv, NewIsNew, OwnIsNew
  <2>5. s \notin overtaken' => row[s] = req[r].copy /\ record = [req[r].copy EXCEPT !.pw = req[r].new]
    BY <1>1, <2>1, <2>3, CopyIsRow DEF Rebuilding
  <2>6. PICK x \in Requests : /\ req' = [req EXCEPT ![r] = x] /\ PlaceOf(x) /\ Recorded(req[r], x, s)
                              /\ ~Between(x) /\ ~Owns(x) /\ ~Replacing(x)
                              /\ req[r].copy.cid # 0 => x.pc = "drop" /\ x.srv = s
    <3>1. CASE req[r].copy.cid # 0
      <4>1. PICK x : x = [req[r] EXCEPT !.pc = "drop", !.seen = version[s] + 1]
        OBVIOUS
      <4>2. version[s] + 1 \in Nat
        BY DEF PoolingInv, Shape
      <4>3. /\ x \in Requests /\ x.pc = "drop" /\ x.srv = s /\ x.op = "rotate" /\ x.seen = version[s] + 1
            /\ x.copy = req[r].copy /\ x.own = req[r].own /\ x.new = req[r].new
        BY <1>1, <4>1, <4>2 DEF Requests
      <4>4. PlaceOf(x) /\ Recorded(req[r], x, s) /\ ~Between(x) /\ ~Owns(x) /\ ~Replacing(x)
        BY <1>1, <2>3, <2>5, <4>3 DEF PlaceOf, Recorded, Between, Owns, Replacing
      <4>5. req' = [req EXCEPT ![r] = x]
        BY <1>4, <3>1, <4>1 DEF PoolingInv, Shape
      <4> QED  BY <4>3, <4>4, <4>5
    <3>2. CASE req[r].copy.cid = 0
      BY <1>4, <3>2 DEF End, Idle, NoRow, Requests, RowRecords, Ports, PlaceOf, Recorded, Between, Owns, Replacing
    <3> QED  BY <3>1, <3>2
  <2>7. \A q \in Slots : req'[q] = IF q = r THEN x ELSE req[q]
    BY <2>6 DEF PoolingInv, Shape
  <2>8. s \notin overtaken' \cup cut => OnePassword(s)'
    <3>1. s \notin overtaken' \cup cut => /\ pg[s] = req[r].new
                                          /\ \A q \in Slots : req[q].srv = s /\ Between(req[q]) => q = r
      BY <1>1, <1>4, <2>3 DEF PoolingInv, OnePassword
    <3>2. s \notin overtaken' \cup cut => \A q \in Slots : req'[q].srv = s => ~Between(req'[q])
      BY <2>6, <2>7, <3>1
    <3> QED  BY <1>2, <2>2, <2>3, <3>1, <3>2 DEF OnePassword
  <2>9. s \notin overtaken' \cup cut => Backed(s)'
    <3>1. CASE req[r].copy.cid = 0
      BY <2>2, <2>3, <2>5, <3>1 DEF Backed
    <3>2. CASE req[r].copy.cid # 0
      <4>1. req'[r].srv = s /\ req'[r].pc = "drop" /\ ~Replacing(req[r])
        BY <1>1, <2>6, <2>7, <3>2 DEF Replacing
      <4>2. (\A q \in Slots : req'[q].srv = s => ~Replacing(req'[q])) => \A q \in Slots : req[q].srv = s => ~Replacing(req[q])
        BY <2>7, <4>1
      <4> QED  BY <1>2, <1>4, <2>2, <2>3, <4>1, <4>2 DEF Backed, PoolingInv
    <3> QED  BY <3>1, <3>2
  <2>10. s \notin overtaken' \cup cut => Accounted(s)'
    <3>1. \A q \in Slots : req[q].srv = s /\ Owns(req[q]) => req'[q] = req[q]
      BY <1>1, <2>7 DEF Owns
    <3> QED  BY <1>2, <2>2, <2>3, <3>1 DEF Accounted, PoolingInv
  <2>11. PortsDistinct'
    BY <1>4, <2>2, <2>3, SamePorts
  <2>12. record.pw <= last' /\ record.cid <= last'
    BY <1>2, <2>2 DEF PoolingInv, Old
  <2>13. version[s] # 0 /\ req[r].pc # "idle" /\ pg' \in [Servers -> Nat] /\ \A t \in Servers \ {s} : pg'[t] = pg[t]
    BY <1>1, <1>2 DEF PoolingInv, Shape
  <2> QED  BY <1>2, <2>2, <2>3, <2>4, <2>6, <2>8, <2>9, <2>10, <2>11, <2>12, <2>13, Written, ZenonT(40)
<1> QED  BY <1>3, <1>4 DEF Call

LEMMA ConnectStep ==
    ASSUME PoolingInv, NEW r \in Slots, NEW s \in Servers, req[r].srv = s, Connect(r)
    PROVE  PoolingInv'
<1> USE DEF Connect
<1>1. req[r].op = "rotate" /\ req[r] \in Requests /\ req[r].pc = "connect" /\ last \in Nat
  BY DEF PoolingInv, Shape, PlaceOf, Idle
<1>2. StoresKept /\ UNCHANGED <<overtaken, cut>> /\ budget' \in Nat
  BY DEF StoresKept, rows, Call, Fault, Smooth, PoolingInv, Shape
<1>3. CASE End(r) /\ UNCHANGED last
  BY <1>1, <1>2, <1>3, Ended DEF End, Marked, Between, Owns, Replacing
<1>4. CASE req' = [req EXCEPT ![r].pc = "alter", ![r].new = last + 1] /\ last' = last + 1
  <2>1. PICK x : x = [req[r] EXCEPT !.pc = "alter", !.new = last + 1]
    OBVIOUS
  <2>2. /\ x \in Requests /\ x.pc = "alter" /\ x.new = last + 1 /\ x.srv = s /\ x.op = "rotate"
        /\ x.seen = req[r].seen /\ x.copy = req[r].copy /\ x.own = req[r].own
    <3>1. last + 1 \in Nat
      BY <1>1
    <3> QED  BY <1>1, <2>1, <3>1 DEF Requests
  <2>3. (\A q \in Slots \ {r} : req'[q] = req[q]) /\ req'[r] = x
    BY <1>4, <2>1 DEF PoolingInv, Shape
  <2>4. Shape'
    <3>1. req' \in [Slots -> Requests] /\ PlaceOf(x)
      BY <1>4, <2>1, <2>2 DEF PoolingInv, Shape, PlaceOf
    <3> QED  BY <1>1, <1>2, <1>4, <2>2, <2>3, <3>1 DEF PoolingInv, Shape, StoresKept
  <2>5. Old' /\ PortsDistinct'
    <3>1. Old'
      BY <1>1, <1>2, <1>4, <2>2, <2>3 DEF PoolingInv, Old, Shape, RowRecords, PoolerRecords, Requests, StoresKept
    <3> QED  BY <1>2, <3>1 DEF PoolingInv, PortsDistinct, StoresKept
  <2>6. /\ \A t \in Servers : row[t].pw # last + 1
        /\ \A q \in Slots : req[q].copy.pw # last + 1 /\ req[q].new # last + 1
    BY <1>1 DEF PoolingInv, Old, Shape, RowRecords, Requests
  <2>7. ASSUME NEW q \in Slots PROVE NewIsNew(q)' /\ OwnIsNew(q)' /\ Copied(q)' /\ Removed(q)'
    <3>1. NewIsNew(q)'
      <4>1. CASE q = r
        BY <1>1, <1>2, <2>2, <2>3, <2>6, <4>1 DEF NewIsNew, StoresKept
      <4>2. CASE q # r
        BY <1>2, <2>2, <2>3, <2>6, <4>2 DEF PoolingInv, NewIsNew, StoresKept
      <4> QED  BY <4>1, <4>2
    <3>2. OwnIsNew(q)'  BY <1>1, <1>2, <2>2, <2>3 DEF PoolingInv, OwnIsNew, Owns, StoresKept
    <3>3. Copied(q)'
      <4>1. ~Rebuilding(x) /\ ~Rebuilding(req[r]) /\ req[r].pc # "idle"
        BY <1>1, <2>2 DEF Rebuilding
      <4>2. Copied(q)
        BY DEF PoolingInv
      <4>3. CASE q = r
        BY <1>2, <2>2, <2>3, <4>1, <4>2, <4>3 DEF Copied, StoresKept
      <4>4. CASE q # r
        BY <1>2, <2>3, <4>2, <4>4 DEF Copied, StoresKept
      <4> QED  BY <4>3, <4>4
    <3>4. Removed(q)'  BY <1>1, <1>2, <2>2, <2>3 DEF PoolingInv, Removed, StoresKept
    <3> QED  BY <3>1, <3>2, <3>3, <3>4
  <2>8. ASSUME NEW t \in Servers PROVE OnePassword(t)' /\ Backed(t)' /\ Accounted(t)'
    <3>1. /\ ~Between(x) /\ ~Replacing(x) /\ ~Owns(x) /\ x.pc # "drop"
          /\ ~Between(req[r]) /\ ~Replacing(req[r]) /\ ~Owns(req[r]) /\ req[r].pc # "drop"
      BY <1>1, <2>2 DEF Between, Replacing, Owns
    <3>2. OnePassword(t)'  BY <1>2, <2>2, <2>3, <3>1 DEF PoolingInv, OnePassword, StoresKept
    <3>3. Backed(t)'  BY <1>2, <2>2, <2>3, <3>1 DEF PoolingInv, Backed, StoresKept
    <3>4. Accounted(t)'  BY <1>2, <2>2, <2>3, <3>1 DEF PoolingInv, Accounted, StoresKept
    <3> QED  BY <3>2, <3>3, <3>4
  <2> QED  BY <2>4, <2>5, <2>7, <2>8 DEF PoolingInv
<1> QED  BY <1>3, <1>4 DEF Call

\* A step that changes the password of the role
LEMMA Altered ==
    ASSUME PoolingInv, NEW r \in Slots, NEW s \in Servers, req[r].srv = s,
           req[r].op = "rotate", req[r].pc \in {"alter", "revert"},
           UNCHANGED <<row, version, pooler, last>>, budget' \in Nat,
           overtaken' \in {overtaken, overtaken \cup {s}}, cut' \in {cut, cut \cup {s}},
           pg' \in [Servers -> Nat], \A t \in Servers \ {s} : pg'[t] = pg[t],
           NEW x \in Requests, PlaceOf(x), req' = [req EXCEPT ![r] = x],
           x = Idle \/ (req[r].pc = "alter" /\ x = [req[r] EXCEPT !.pc = "update"]),
           s \notin overtaken' \cup cut' => OnePassword(s)'
    PROVE  PoolingInv'
<1> USE DEF PoolingInv
<1>1. (\A q \in Slots \ {r} : req'[q] = req[q]) /\ req'[r] = x /\ req[r] \in Requests
  BY DEF Shape
<1>2. /\ \/ x = Idle
         \/ /\ x.pc = "update" /\ req[r].pc = "alter" /\ x.srv = s /\ x.op = "rotate" /\ x.seen = req[r].seen
            /\ x.copy = req[r].copy /\ x.own = req[r].own /\ x.new = req[r].new
      /\ x.copy = req[r].copy \/ (x.copy.pw = 0 /\ x.copy.cid = 0)
      /\ x.own \in {0, req[r].own} /\ x.new \in {0, req[r].new} /\ (Rotating(x) => x.new = req[r].new)
      /\ ~Owns(x) /\ ~Replacing(x) /\ ~Rebuilding(x) /\ x.pc # "drop" /\ x.pc \notin {"clear", "delrow"}
      /\ ~Owns(req[r]) /\ ~Replacing(req[r]) /\ req[r].pc # "drop" /\ ~Rebuilding(req[r]) /\ Rotating(req[r])
  BY <1>1 DEF Requests, Idle, NoRow, Rotating, Between, Owns, Replacing, Rebuilding
<1>3. Shape'
  BY <1>1, <1>2 DEF Shape, Idle
<1>4. Old' /\ PortsDistinct'
  <2>1. Old'  BY <1>1, <1>2 DEF Old, Shape, RowRecords, PoolerRecords, Requests
  <2>2. PortsDistinct'  BY DEF PortsDistinct
  <2> QED  BY <2>1, <2>2
<1>5. ASSUME NEW q \in Slots PROVE NewIsNew(q)' /\ OwnIsNew(q)' /\ Copied(q)' /\ Removed(q)'
  <2>1. NewIsNew(q)'  BY <1>1, <1>2 DEF NewIsNew
  <2>2. OwnIsNew(q)'  BY <1>1, <1>2 DEF OwnIsNew
  <2>3. Copied(q)'  BY <1>1, <1>2 DEF Copied, Idle
  <2>4. Removed(q)'  BY <1>1, <1>2 DEF Removed
  <2> QED  BY <2>1, <2>2, <2>3, <2>4
<1>6. ASSUME NEW t \in Servers PROVE OnePassword(t)' /\ Backed(t)' /\ Accounted(t)'
  <2>1. Backed(t)'  BY <1>1, <1>2, PoolingAssumption DEF Backed, Idle
  <2>2. Accounted(t)'  BY <1>1, <1>2 DEF Accounted
  <2>3. OnePassword(t)'
    <3>1. CASE t = s
      BY <3>1 DEF OnePassword
    <3>2. CASE t # s
      <4>1. x.srv # t
        BY <1>2, <3>2, PoolingAssumption DEF Idle
      <4> QED  BY <1>1, <3>2, <4>1 DEF OnePassword
    <3> QED  BY <3>1, <3>2
  <2> QED  BY <2>1, <2>2, <2>3
<1> QED  BY <1>3, <1>4, <1>5, <1>6

LEMMA AlterStep ==
    ASSUME PoolingInv, NEW r \in Slots, NEW s \in Servers, req[r].srv = s, AlterRole(r)
    PROVE  PoolingInv'
<1> DEFINE altered == /\ pg' = [pg EXCEPT ![s] = req[r].new]
                      /\ overtaken' = IF pg[s] = req[r].copy.pw THEN overtaken ELSE overtaken \cup {s}
<1> USE DEF AlterRole
<1>1. req[r].op = "rotate" /\ req[r] \in Requests /\ req[r].pc = "alter" /\ req[r].new \in Nat
  BY DEF PoolingInv, Shape, PlaceOf, Idle, Requests
<1>2. UNCHANGED <<row, version, pooler, last>> /\ budget' \in Nat
  BY DEF Call, Fault, Smooth, PoolingInv, Shape
<1>3. Idle \in Requests /\ PlaceOf(Idle)
  BY DEF Idle, NoRow, Requests, RowRecords, Ports, PlaceOf
<1>4. ASSUME altered
      PROVE  /\ pg' \in [Servers -> Nat] /\ pg'[s] = req[r].new /\ \A t \in Servers \ {s} : pg'[t] = pg[t]
             /\ overtaken' \in {overtaken, overtaken \cup {s}}
             /\ s \notin overtaken' => s \notin overtaken /\ pg[s] = req[r].copy.pw
  BY <1>1, <1>4 DEF PoolingInv, Shape
<1>5. CASE End(r) /\ UNCHANGED <<pg, overtaken, cut>>
  <2>1. StoresKept /\ Marked(s)
    BY <1>2, <1>5 DEF StoresKept, Marked
  <2> QED  BY <1>1, <1>5, <2>1, Ended DEF End, Between, Owns, Replacing
<1>6. CASE End(r) /\ altered /\ Harm(s)
  <2>1. s \in cut' /\ cut' \in {cut, cut \cup {s}}
    BY <1>6 DEF Harm
  <2> QED  BY <1>1, <1>2, <1>3, <1>4, <1>6, <2>1, Altered DEF End
<1>7. CASE row[s].there /\ altered /\ Goto(r, "update") /\ NoHarm
  <2>1. PICK x : x = [req[r] EXCEPT !.pc = "update"]
    OBVIOUS
  <2>2. x \in Requests /\ x.pc = "update" /\ x.srv = s /\ x.op = "rotate" /\ x.new = req[r].new /\ x.copy = req[r].copy
    BY <1>1, <2>1 DEF Requests
  <2>3. req' = [req EXCEPT ![r] = x] /\ PlaceOf(x) /\ \A q \in Slots : req'[q] = IF q = r THEN x ELSE req[q]
    BY <1>7, <2>1, <2>2 DEF Goto, PlaceOf, PoolingInv, Shape
  <2>4. s \notin overtaken' \cup cut' => OnePassword(s)'
    <3>1. SUFFICES ASSUME s \notin overtaken' \cup cut' PROVE OnePassword(s)'
      OBVIOUS
    <3>2. pg[s] = req[r].copy.pw /\ s \notin overtaken \cup cut
      BY <1>4, <1>7, <3>1 DEF NoHarm
    <3>3. ASSUME NEW q \in Slots, req[q].srv = s, Between(req[q]) PROVE FALSE
      <4>1. pg[s] = req[q].new
        BY <1>7, <3>2, <3>3 DEF PoolingInv, OnePassword
      <4>2. req[r].copy.pw # req[q].new
        BY <3>3 DEF PoolingInv, NewIsNew, Rotating
      <4> QED  BY <3>2, <4>1, <4>2
    <3>4. row[s].pw = req[r].copy.pw
      BY <1>7, <3>2, <3>3 DEF PoolingInv, OnePassword
    <3>5. \A q \in Slots : req'[q].srv = s /\ Between(req'[q]) => q = r
      BY <2>3, <3>3
    <3>6. Between(req'[r])
      BY <2>2, <2>3 DEF Between
    <3>7. pg'[s] = req'[r].new /\ row'[s].pw = req'[r].copy.pw /\ req'[r].srv = s
      BY <1>2, <1>4, <1>7, <2>2, <2>3, <3>4
    <3> QED  BY <3>5, <3>6, <3>7 DEF OnePassword
  <2> QED  BY <1>1, <1>2, <1>4, <1>7, <2>1, <2>2, <2>3, <2>4, Altered DEF NoHarm
<1> QED  BY <1>5, <1>6, <1>7 DEF Call

LEMMA RevertStep ==
    ASSUME PoolingInv, NEW r \in Slots, NEW s \in Servers, req[r].srv = s, Revert(r)
    PROVE  PoolingInv'
<1> USE DEF Revert
<1>1. req[r].op = "rotate" /\ req[r] \in Requests /\ req[r].pc = "revert" /\ req[r].copy.pw \in Nat /\ Between(req[r])
  BY DEF PoolingInv, Shape, PlaceOf, Idle, Requests, RowRecords, Between
<1>2. UNCHANGED <<row, version, overtaken, pooler, last>> /\ budget' \in Nat /\ req' = [req EXCEPT ![r] = Idle]
  BY DEF rows, Call, Fault, Smooth, End, PoolingInv, Shape
<1>3. CASE UNCHANGED pg /\ Harm(s)
  <2>1. s \in cut' /\ StoresKept /\ Marked(s)
    BY <1>2, <1>3 DEF Harm, StoresKept, Marked
  <2> QED  BY <1>2, <2>1, Ended
<1>4. CASE row[s].there /\ pg' = [pg EXCEPT ![s] = req[r].copy.pw] /\ NoHarm
  <2>1. Idle \in Requests /\ PlaceOf(Idle) /\ ~Between(Idle)
    BY DEF Idle, NoRow, Requests, RowRecords, Ports, PlaceOf, Between
  <2>2. /\ pg' \in [Servers -> Nat] /\ pg'[s] = req[r].copy.pw /\ \A t \in Servers \ {s} : pg'[t] = pg[t]
    BY <1>1, <1>4 DEF PoolingInv, Shape
  <2>3. \A q \in Slots : req'[q] = IF q = r THEN Idle ELSE req[q]
    BY <1>2 DEF PoolingInv, Shape
  <2>4. s \notin overtaken \cup cut => OnePassword(s)'
    <3>1. s \notin overtaken \cup cut => /\ row[s].pw = req[r].copy.pw
                                         /\ \A q \in Slots : req[q].srv = s /\ Between(req[q]) => q = r
      BY <1>1, <1>4 DEF PoolingInv, OnePassword
    <3>2. s \notin overtaken \cup cut => \A q \in Slots : req'[q].srv = s => ~Between(req'[q])
      BY <2>1, <2>3, <3>1
    <3> QED  BY <1>2, <2>2, <3>1, <3>2 DEF OnePassword
  <2> QED  BY <1>1, <1>2, <1>4, <2>1, <2>2, <2>4, Altered DEF NoHarm
<1> QED  BY <1>3, <1>4 DEF Call

-----------------------------------------------------------------------------
(* Beginning, and losing every request *)

LEMMA RequestStep ==
    ASSUME PoolingInv, NEW r \in Slots, NEW s \in Servers, NEW op \in Ops, Request(r, op, s)
    PROVE  PoolingInv'
<1> DEFINE first == CASE op = "rotate" -> "connect"
                      [] op = "delete" -> IF Enabled(s) THEN "remove" ELSE "delrow"
                      [] op = "disable" -> "remove"
                      [] OTHER -> "alloc"
<1> USE DEF Request
<1>1. /\ req[r] = Idle /\ version[s] \in Nat /\ row[s] \in RowRecords
      /\ StoresKept /\ UNCHANGED <<overtaken, last, cut>> /\ budget' \in Nat
  BY DEF PoolingInv, Shape, PlaceOf, StoresKept, rows, Fault
<1>2. op \in {"create", "enable", "disable", "rotate", "delete"} /\ (op # "create" => row[s].there)
  OBVIOUS
<1>3. PICK p : p = first
  OBVIOUS
<1>4. p \in {"connect", "remove", "delrow", "alloc"}
  BY <1>2, <1>3
<1>5. PICK x : x = [Idle EXCEPT !.op = op, !.srv = s, !.seen = version[s], !.copy = row[s], !.pc = p]
  OBVIOUS
<1>6. req' = [req EXCEPT ![r] = x]
  BY <1>3, <1>5
<1>7. /\ x.op = op /\ x.srv = s /\ x.pc = p /\ x.seen = version[s] /\ x.copy = row[s]
      /\ x.port = 0 /\ x.own = 0 /\ x.new = 0
  BY <1>5 DEF Idle
<1>8. x \in Requests /\ PlaceOf(x) /\ (p = "delrow" => row[s].cid = 0)
  <2>1. x \in Requests
    <3>1. Idle \in Requests
      BY DEF Idle, NoRow, Requests, RowRecords, Ports
    <3> QED  BY <1>1, <1>4, <1>5, <3>1 DEF Requests
  <2>2. PlaceOf(x) /\ (p = "delrow" => row[s].cid = 0)
    BY <1>2, <1>3, <1>7 DEF PlaceOf, Enabled
  <2> QED  BY <2>1, <2>2
<1>9. (\A q \in Slots \ {r} : req'[q] = req[q]) /\ req'[r] = x
  BY <1>6 DEF PoolingInv, Shape
<1>10. /\ ~Between(x) /\ ~Rotating(x) /\ ~Owns(x) /\ ~Rebuilding(x) /\ x.pc # "drop" /\ x.pc # "idle" /\ x.pc # "clear"
       /\ ~Between(req[r]) /\ ~Owns(req[r]) /\ ~Replacing(req[r]) /\ req[r].pc # "drop"
  BY <1>1, <1>4, <1>7 DEF Between, Rotating, Owns, Rebuilding, Replacing, Idle
<1> HIDE DEF Request, first
<1>11. Shape'
  BY <1>1, <1>2, <1>6, <1>7, <1>8, <1>9 DEF PoolingInv, Shape, StoresKept, NoRow
<1>12. Old' /\ PortsDistinct'
  <2>1. Old'  BY <1>1, <1>7, <1>9 DEF PoolingInv, Old, Shape, StoresKept
  <2> QED  BY <1>1, <2>1 DEF PoolingInv, PortsDistinct, StoresKept
<1>13. ASSUME NEW q \in Slots PROVE NewIsNew(q)' /\ OwnIsNew(q)' /\ Copied(q)' /\ Removed(q)'
  <2>0. NewIsNew(q) /\ OwnIsNew(q) /\ Copied(q) /\ Removed(q)
    BY DEF PoolingInv
  <2>1. NewIsNew(q)'  BY <1>1, <1>7, <1>9, <1>10, <2>0 DEF NewIsNew, StoresKept
  <2>2. OwnIsNew(q)'  BY <1>1, <1>7, <1>9, <1>10, <2>0 DEF OwnIsNew, StoresKept
  <2>3. Copied(q)'
    <3>1. CASE q = r
      BY <1>1, <1>7, <1>9, <1>10, <3>1 DEF Copied, StoresKept
    <3>2. CASE q # r
      BY <1>1, <1>9, <2>0, <3>2 DEF Copied, StoresKept
    <3> QED  BY <3>1, <3>2
  <2>4. Removed(q)'  BY <1>1, <1>7, <1>8, <1>9, <1>10, <2>0 DEF Removed, StoresKept
  <2> QED  BY <2>1, <2>2, <2>3, <2>4
<1>14. ASSUME NEW t \in Servers PROVE OnePassword(t)' /\ Backed(t)' /\ Accounted(t)'
  <2>0. OnePassword(t) /\ Backed(t) /\ Accounted(t) /\ req[r].srv # t
    BY <1>1, PoolingAssumption DEF PoolingInv, Idle
  <2>1. OnePassword(t)'  BY <1>1, <1>9, <1>10, <2>0 DEF OnePassword, StoresKept
  <2>2. Backed(t)'  BY <1>1, <1>9, <1>10, <2>0 DEF Backed, StoresKept
  <2>3. Accounted(t)'  BY <1>1, <1>9, <1>10, <2>0 DEF Accounted, StoresKept
  <2> QED  BY <2>1, <2>2, <2>3
<1> QED  BY <1>11, <1>12, <1>13, <1>14 DEF PoolingInv

\* A restart cuts short every request that would have had to act again.
LEMMA CrashStep == ASSUME PoolingInv, Crash PROVE PoolingInv'
<1> USE DEF Crash
<1>1. /\ StoresKept /\ UNCHANGED <<overtaken, last>> /\ budget' \in Nat
      /\ \A q \in Slots : req'[q] = Idle
  BY DEF PoolingInv, Shape, StoresKept, rows, Fault
<1>2. /\ cut \subseteq cut' /\ cut' \subseteq Servers
      /\ \A q \in Slots : Between(req[q]) \/ Owns(req[q]) \/ Replacing(req[q]) \/ req[q].pc = "drop" => req[q].srv \in cut'
  <2>1. \A q \in Slots : Between(req[q]) \/ Owns(req[q]) \/ Replacing(req[q]) \/ req[q].pc = "drop" =>
           req[q].pc \in {"health", "set", "undo", "clear", "delrow", "update", "revert", "make", "drop"}
    BY DEF Between, Owns, Replacing
  <2>2. \A q \in Slots : req[q].pc # "idle" => req[q].srv \in Servers
    BY DEF PoolingInv, Shape, PlaceOf, Idle
  <2>3. cut \subseteq Servers
    BY DEF PoolingInv, Shape
  <2> QED  BY <2>1, <2>2, <2>3
<1>3. /\ Idle \in Requests /\ PlaceOf(Idle) /\ Idle.pc = "idle" /\ Idle.op = "none" /\ Idle.srv = None
      /\ Idle.copy.pw = 0 /\ Idle.copy.cid = 0 /\ Idle.own = 0 /\ Idle.new = 0
      /\ ~Between(Idle) /\ ~Owns(Idle) /\ ~Rotating(Idle) /\ ~Replacing(Idle)
  BY DEF Idle, NoRow, Requests, RowRecords, Ports, PlaceOf, Between, Owns, Rotating, Replacing
<1>4. Shape'
  <2>1. req' \in [Slots -> Requests]
    BY <1>3
  <2> QED  BY <1>1, <1>2, <1>3, <2>1 DEF PoolingInv, Shape, StoresKept
<1> HIDE DEF Crash
<1>5. Old' /\ PortsDistinct'
  <2>1. Old'  BY <1>1, <1>3 DEF PoolingInv, Old, Shape, StoresKept
  <2> QED  BY <1>1, <2>1 DEF PoolingInv, PortsDistinct, StoresKept
<1>6. ASSUME NEW q \in Slots PROVE NewIsNew(q)' /\ OwnIsNew(q)' /\ Copied(q)' /\ Removed(q)'
  BY <1>1, <1>3 DEF NewIsNew, OwnIsNew, Copied, Removed
<1>7. ASSUME NEW t \in Servers PROVE OnePassword(t)' /\ Backed(t)' /\ Accounted(t)'
  <2>0. OnePassword(t) /\ Backed(t) /\ Accounted(t)
    BY DEF PoolingInv
  <2>1. OnePassword(t)'  BY <1>1, <1>2, <1>3, <2>0 DEF OnePassword, StoresKept
  <2>2. Backed(t)'  BY <1>1, <1>2, <1>3, <2>0 DEF Backed, StoresKept
  <2>3. Accounted(t)'  BY <1>1, <1>2, <2>0 DEF Accounted, StoresKept
  <2> QED  BY <2>1, <2>2, <2>3
<1> QED  BY <1>4, <1>5, <1>6, <1>7 DEF PoolingInv

-----------------------------------------------------------------------------
(* The theorems *)

LEMMA HandleStep ==
    ASSUME PoolingInv, NEW r \in Slots, NEW s \in Servers, req[r].srv = s, Handle(r) PROVE PoolingInv'
BY AllocateStep, InsertStep, MakeStep, HealthStep, SetStep, UndoStep, RemoveStep, ClearStep, DeleteStep,
   ConnectStep, AlterStep, UpdateStep, RevertStep, DropStep, ResetStep DEF Handle

LEMMA StepKeepsInv == PoolingInv /\ [Next]_vars => PoolingInv'
<1> SUFFICES ASSUME PoolingInv, [Next]_vars PROVE PoolingInv'
  OBVIOUS
<1>1. ASSUME NEW r \in Slots, Handle(r) PROVE PoolingInv'
  <2>1. req[r].pc # "idle"
    BY <1>1, ZenonT(40) DEF Handle, AllocatePort, InsertServer, MakePooler, WaitHealthy, SetPooler, UndoPooler, RemovePooler,
       ClearPooler, DeleteServer, Connect, AlterRole, UpdatePassword, Revert, DropPooler, RemakePooler, ResetPooler
  <2>2. req[r].srv \in Servers
    BY <2>1 DEF PoolingInv, Shape, PlaceOf, Idle
  <2> QED  BY <1>1, <2>2, HandleStep
<1>2. CASE UNCHANGED vars
  BY <1>2 DEF vars, PoolingInv, Shape, Old, PortsDistinct, NewIsNew, OwnIsNew, Copied, Removed,
     OnePassword, Backed, Accounted
<1> QED  BY <1>1, <1>2, RequestStep, GoneStep, CrashStep DEF Next

LEMMA InvGivesTypes == PoolingInv => TypeOK
<1> SUFFICES ASSUME PoolingInv PROVE TypeOK
  OBVIOUS
<1>1. Ports \subseteq Nat
  BY PortNumbers
<1>2. RowRecords \subseteq [there : BOOLEAN, port : Nat, pw : Nat, cid : Nat, pport : Nat]
  BY <1>1 DEF RowRecords
<1>3. row \in [Servers -> [there : BOOLEAN, port : Nat, pw : Nat, cid : Nat, pport : Nat]]
  BY <1>2 DEF PoolingInv, Shape
<1>4. \A r \in Slots : req[r] \in
         [op : Ops \cup {"none"}, srv : Servers \cup {None},
          pc : {"idle", "alloc", "insert", "make", "health", "set", "undo", "remove",
                "clear", "connect", "alter", "update", "revert", "drop", "delrow"},
          seen : Nat, copy : [there : BOOLEAN, port : Nat, pw : Nat, cid : Nat, pport : Nat],
          port : Nat, own : Nat, new : Nat, gone : BOOLEAN]
  <2>1. TAKE r \in Slots
  <2>2. req[r] \in Requests
    BY DEF PoolingInv, Shape
  <2> QED  BY <1>1, <1>2, <2>2 DEF Requests
<1> QED  BY <1>3, <1>4 DEF PoolingInv, Shape, TypeOK, PoolerRecords

LEMMA InvGivesPasswords == PoolingInv => PasswordsAgree
<1> SUFFICES ASSUME PoolingInv PROVE PasswordsAgree
  OBVIOUS
<1>1. PasswordAgrees
  BY DEF PoolingInv, PasswordAgrees, OnePassword, Sound, At, Between
<1>2. PoolerPassword
  <2>1. ASSUME NEW s \in Servers, ~At(s, {"update", "revert", "drop", "make", "set", "clear", "delrow"})
        PROVE  \A q \in Slots : req[q].srv = s => ~Replacing(req[q]) /\ req[q].pc # "drop"
    BY <2>1 DEF At, Replacing
  <2> QED  BY <2>1 DEF PoolingInv, PoolerPassword, Backed, Sound, Enabled
<1> QED  BY <1>1, <1>2, InvGivesTypes DEF PasswordsAgree

LEMMA InvGivesPooler == PoolingInv => PoolerFollowsRow
<1> SUFFICES ASSUME PoolingInv PROVE PoolerFollowsRow
  OBVIOUS
<1>1. PoolerBacked
  <2>1. ASSUME NEW s \in Servers, ~At(s, {"make", "set", "clear", "delrow"})
        PROVE  \A q \in Slots : req[q].srv = s => ~Replacing(req[q])
    BY <2>1 DEF At, Replacing
  <2> QED  BY <2>1 DEF PoolingInv, PoolerBacked, Backed, Sound, Enabled
<1>2. NoOrphanPooler
  BY DEF PoolingInv, NoOrphanPooler, Accounted, At, Owns
<1> QED  BY <1>1, <1>2 DEF PoolingInv, PoolerFollowsRow

LEMMA SpecKeepsInv == Spec => []PoolingInv
BY InitialInv, StepKeepsInv, PTL DEF Spec

\* Row, role and pooler of a server hold one password, whatever requests run
\* over each other: a rotation that fails leaves the old one in all three
\* (RotateSuperuserPassword, recreatePooler).
THEOREM RotationKeepsPasswords == Spec => []PasswordsAgree
BY SpecKeepsInv, InvGivesPasswords, PTL

\* A server has the pooler its row names, and no other, on a port no server and
\* no other pooler has (EnablePooling, DisablePooling, Delete, allocatePort).
THEOREM PoolerStaysWithRow == Spec => []PoolerFollowsRow
BY SpecKeepsInv, InvGivesPooler, PTL
=============================================================================

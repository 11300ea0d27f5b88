--------------------------- MODULE Sessions_proofs ---------------------------
(***************************************************************************)
(* A session that somebody ended, that idled or that reached its ceiling   *)
(* admits no request, one that is not over is accepted, an elevation lasts *)
(* stepUpTTL from a password, and only deletions that overlap remove the   *)
(* last admin: for any number of accounts, sessions and requests and any   *)
(* durations.                                                              *)
(***************************************************************************)
EXTENDS Sessions, FiniteSetTheorems, TLAPS

SessionRow == [there : BOOLEAN, user : Users \cup {None}, created : Nat,
               expires : Nat, elevated : Nat, revoked : BOOLEAN]
RequestPC  == {"idle", "insert", "ceiling", "extend", "handle", "acting",
               "elevate", "count", "delete"}
RequestRow == [op : Ops \cup {"none"}, pc : RequestPC, tok : Tokens \cup {None},
               who : Users \cup {None}, other : Tokens \cup {None}, may : BOOLEAN,
               elevated : Nat, count : Nat]

\* The variables without the sessions' link to the accounts.
Typed ==
    /\ now \in 0 .. End /\ budget \in Nat /\ raced \in BOOLEAN
    /\ account \in [Users -> Roles \cup {"none", "gone"}]
    /\ sess \in [Tokens -> SessionRow] /\ req \in [Reqs -> RequestRow]
    /\ used \in [Tokens -> Nat] /\ confirmed \in [Tokens -> Nat]
    /\ ended \subseteq Tokens \cup {None}

Owned == \A t \in Tokens : sess[t].there => Exists(sess[t].user)

LEMMA TypeSplit == TypeOK <=> Typed /\ Owned /\ ended \subseteq Tokens
  BY DEF TypeOK, Typed, Owned, SessionRow, RequestRow, RequestPC

LEMMA IdleType == Idle \in RequestRow /\ Idle.pc = "idle" /\ Idle.op = "none"
  BY DEF Idle, RequestRow, RequestPC

LEMMA FinishType ==
    ASSUME Typed, NEW r \in Reqs, Finish(r)
    PROVE  req' \in [Reqs -> RequestRow]
  BY IdleType DEF Typed, Finish

LEMMA ToType ==
    ASSUME Typed, NEW r \in Reqs, NEW pc \in RequestPC, To(r, pc)
    PROVE  req' \in [Reqs -> RequestRow]
  BY SMTT(40) DEF Typed, To, RequestRow

\* Two fields of a slot written at once.
LEMMA PairType ==
    ASSUME Typed, NEW r \in Reqs, NEW pc \in RequestPC, NEW n \in Nat,
           \/ req' = [req EXCEPT ![r].pc = pc, ![r].elevated = n]
           \/ req' = [req EXCEPT ![r].pc = pc, ![r].count = n]
    PROVE  req' \in [Reqs -> RequestRow]
<1>1. CASE req' = [req EXCEPT ![r].pc = pc, ![r].elevated = n]
  <2>1. req' = [req EXCEPT ![r] = [req[r] EXCEPT !.pc = pc, !.elevated = n]]
    BY <1>1 DEF Typed, RequestRow
  <2> QED  BY <2>1 DEF Typed, RequestRow
<1>2. CASE req' = [req EXCEPT ![r].pc = pc, ![r].count = n]
  <2>1. req' = [req EXCEPT ![r] = [req[r] EXCEPT !.pc = pc, !.count = n]]
    BY <1>2 DEF Typed, RequestRow
  <2> QED  BY <2>1 DEF Typed, RequestRow
<1> QED  BY <1>1, <1>2

LEMMA ExtendedType ==
    ASSUME Typed, NEW t
    PROVE  Extended(t) \in [Tokens -> SessionRow]
<1>1. now \in Nat /\ now + SessionTTL \in Nat
  BY SessionAssumption DEF Typed
<1>2. CASE t \in Tokens
  <2>1. Extended(t) = [sess EXCEPT ![t] = [sess[t] EXCEPT
                         !.expires = IF sess[t].there THEN now + SessionTTL ELSE sess[t].expires]]
    BY <1>2 DEF Extended, Typed
  <2> QED  BY <1>1, <1>2, <2>1 DEF Typed, SessionRow
<1>3. CASE t \notin Tokens
  <2>1. Extended(t) = sess
    BY <1>3 DEF Extended, Typed
  <2> QED  BY <2>1 DEF Typed
<1> QED  BY <1>2, <1>3

LEMMA ElevatedType ==
    ASSUME Typed, NEW t, NEW n \in Nat
    PROVE  [sess EXCEPT ![t].elevated = n] \in [Tokens -> SessionRow]
<1>1. CASE t \in Tokens
  <2>1. [sess[t] EXCEPT !.elevated = n] \in SessionRow
    BY <1>1 DEF Typed, SessionRow
  <2> QED  BY <1>1, <2>1 DEF Typed
<1>2. CASE t \notin Tokens
  BY <1>2 DEF Typed
<1> QED  BY <1>1, <1>2

LEMMA RevokedType ==
    ASSUME Typed, NEW t
    PROVE  Revoked(t) \in [Tokens -> SessionRow]
  BY ZenonT(40) DEF Typed, Revoked, SessionRow

-----------------------------------------------------------------------------
(* Types *)

LEMMA TypeInit == Init => TypeOK
<1> SUFFICES ASSUME Init PROVE Typed /\ Owned /\ ended = {}
  BY TypeSplit
<1>1. NoSession \in SessionRow /\ ~NoSession.there
  BY DEF NoSession, SessionRow
<1>2. now \in 0 .. End
  BY SessionAssumption DEF Init
<1>3. sess \in [Tokens -> SessionRow] /\ \A t \in Tokens : ~sess[t].there
  BY <1>1 DEF Init
<1> QED  BY <1>2, <1>3, IdleType, SessionAssumption DEF Init, Typed, Owned, Roles

\* A statement of a request keeps the types.
LEMMA HandlingTyped ==
    ASSUME Typed, NEW r \in Reqs, Handling(r)
    PROVE  Typed'
<1> USE DEF Typed
<1>1. CASE InsertSession(r)
  <2>1. sess' \in [Tokens -> SessionRow] /\ used' \in [Tokens -> Nat]
    <3>1. CASE UNCHANGED <<sess, used>>
      BY <3>1
    <3>2. CASE \E t \in Tokens :
               /\ sess' = [sess EXCEPT ![t] = [NoSession EXCEPT !.there = TRUE,
                             !.user = req[r].who, !.created = now, !.expires = now + SessionTTL]]
               /\ used' = [used EXCEPT ![t] = now]
      <4>1. /\ req[r].who \in Users \cup {None} /\ now \in Nat /\ now + SessionTTL \in Nat
        BY SessionAssumption DEF RequestRow
      <4>2. [NoSession EXCEPT !.there = TRUE, !.user = req[r].who, !.created = now,
               !.expires = now + SessionTTL] \in SessionRow
        BY <4>1 DEF NoSession, SessionRow
      <4> QED  BY <3>2, <4>1, <4>2
    <3> QED  BY <1>1, <3>1, <3>2 DEF InsertSession
  <2> QED  BY <1>1, <2>1, FinishType DEF InsertSession
<1>2. CASE EndAtCeiling(r)
  BY <1>2, FinishType, RevokedType DEF EndAtCeiling
<1>3. CASE Extend(r)
  <2>1. now \in Nat /\ now + SessionTTL \in Nat
    BY SessionAssumption
  <2>2. Extended(req[r].tok) \in [Tokens -> SessionRow]
    BY ExtendedType
  <2>3. req' \in [Reqs -> RequestRow]
    BY <1>3, FinishType, ToType DEF Extend, RequestPC
  <2> QED  BY <1>3, <2>1, <2>2, <2>3 DEF Extend
<1>4. CASE Danger(r)
  BY <1>4, FinishType, ToType DEF Danger, RequestPC
<1>5. CASE Act(r)
  BY <1>5, FinishType DEF Act
<1>6. CASE StepUp(r)
  <2>1. now \in Nat /\ now + StepUpTTL \in Nat
    BY SessionAssumption
  <2>2. req' \in [Reqs -> RequestRow]
    <3>1. CASE Finish(r)
      BY <3>1, FinishType
    <3>2. CASE req' = [req EXCEPT ![r].pc = "elevate", ![r].elevated = now + StepUpTTL]
      BY <3>2, <2>1, PairType DEF RequestPC
    <3> QED  BY <1>6, <3>1, <3>2 DEF StepUp
  <2> QED  BY <1>6, <2>1, <2>2 DEF StepUp
<1>7. CASE Elevate(r)
  <2>1. CASE sess' = sess
    <3>1. /\ UNCHANGED <<now, account, used, confirmed, ended, raced, budget>>
          /\ req' \in [Reqs -> RequestRow]
      BY <1>7, FinishType DEF Elevate
    <3> QED  BY <2>1, <3>1
  <2>2. CASE sess' = [sess EXCEPT ![req[r].tok].elevated = req[r].elevated]
    <3>1. sess' \in [Tokens -> SessionRow]
      BY <2>2, ElevatedType DEF RequestRow
    <3>2. /\ UNCHANGED <<now, account, used, confirmed, ended, raced, budget>>
          /\ req' \in [Reqs -> RequestRow]
      BY <1>7, FinishType DEF Elevate
    <3> QED  BY <3>1, <3>2
  <2> QED  BY <1>7, <2>1, <2>2 DEF Elevate
<1>8. CASE Revoke(r)
  BY <1>8, FinishType, RevokedType DEF Revoke, RequestRow
<1>9. CASE CreateUser(r)
  BY <1>9, FinishType DEF CreateUser, Roles
<1>10. CASE ReadRole(r)
  BY <1>10, FinishType, ToType DEF ReadRole, RequestPC
<1>11. CASE CountAdmins(r)
  <2>1. Cardinality(Admins) \in Nat
    BY SessionAssumption, FS_Subset, FS_CardinalityType DEF Admins
  <2>2. req' \in [Reqs -> RequestRow]
    <3>1. CASE Finish(r)
      BY <3>1, FinishType
    <3>2. CASE req' = [req EXCEPT ![r].pc = "delete", ![r].count = Cardinality(Admins)]
      BY <3>2, <2>1, PairType DEF RequestPC
    <3> QED  BY <1>11, <3>1, <3>2 DEF CountAdmins
  <2> QED  BY <1>11, <2>2 DEF CountAdmins
<1>12. CASE DeleteUser(r)
  <2>1. \A t \in Tokens : [sess[t] EXCEPT !.there = FALSE] \in SessionRow
    BY ZenonT(40) DEF SessionRow
  <2>2. sess' \in [Tokens -> SessionRow]
    BY <1>12, <2>1 DEF DeleteUser
  <2> QED  BY <1>12, <2>2, FinishType DEF DeleteUser, Roles
<1> QED
  BY <1>1, <1>2, <1>3, <1>4, <1>5, <1>6, <1>7, <1>8, <1>9, <1>10, <1>11, <1>12 DEF Handling

\* So does the SELECT that admits a request.
LEMMA ValidateTyped ==
    ASSUME Typed, NEW r \in Reqs, NEW t \in Tokens, NEW op \in Ops,
           NEW u \in Users \cup {None}, NEW t2 \in Tokens \cup {None}, Validate(r, t, op, u, t2)
    PROVE  Typed'
<1> USE DEF Typed
<1> DEFINE q == [op |-> op, tok |-> t, who |-> u, other |-> t2, count |-> 0,
                 elevated |-> sess[t].elevated, may |-> Allowed(account[sess[t].user], op),
                 pc |-> IF now - sess[t].created > Ceiling THEN "ceiling" ELSE "extend"]
<1>1. Allowed(account[sess[t].user], op) \in BOOLEAN
  BY DEF Allowed
<1>2. q \in RequestRow
  BY <1>1 DEF RequestRow, RequestPC, SessionRow
<1> HIDE DEF q
<1>3. req' = [req EXCEPT ![r] = q]
  BY DEF Validate, q
<1> QED  BY <1>2, <1>3 DEF Validate, Charged

LEMMA RequestTyped ==
    ASSUME Typed, NEW r \in Reqs, NEW t \in Tokens, Request(r, t)
    PROVE  Typed'
<1>1. ASSUME NEW op \in {"read", "danger", "stepup", "logout"}, Validate(r, t, op, None, None)
      PROVE  Typed'
  BY <1>1, ValidateTyped DEF Ops
<1>2. ASSUME NEW t2 \in Tokens, Validate(r, t, "revoke", None, t2) PROVE Typed'
  BY <1>2, ValidateTyped DEF Ops
<1>3. ASSUME NEW u \in Users, NEW op \in {"create", "delete"}, Validate(r, t, op, u, None)
      PROVE  Typed'
  BY <1>3, ValidateTyped DEF Ops
<1> QED  BY <1>1, <1>2, <1>3 DEF Request

LEMMA TypedStep == Typed /\ [Next]_vars => Typed'
<1> SUFFICES ASSUME Typed, [Next]_vars PROVE Typed'
  OBVIOUS
<1> USE DEF Typed
<1>1. ASSUME NEW r \in Reqs, Handling(r) PROVE Typed'
  BY <1>1, HandlingTyped
<1>2. ASSUME NEW r \in Reqs, Abandon(r) PROVE Typed'
  BY <1>2, FinishType DEF Abandon, Charged
<1>3. ASSUME NEW r \in Reqs, NEW u \in Users, Login(r, u) PROVE Typed'
  <2>1. [Idle EXCEPT !.op = "login", !.pc = "insert", !.who = u] \in RequestRow
    BY DEF Idle, RequestRow, RequestPC, Ops
  <2> QED  BY <1>3, <2>1 DEF Login, Charged
<1>5. ASSUME NEW r \in Reqs, NEW t \in Tokens, Request(r, t) PROVE Typed'
  BY <1>5, RequestTyped
<1>6. CASE Sweep
  <2>1. sess' \in [Tokens -> SessionRow]
    BY <1>6, ZenonT(40) DEF Sweep, SessionRow
  <2> QED  BY <1>6, <2>1 DEF Sweep
<1>7. CASE Restart
  <2>1. req' \in [Reqs -> RequestRow]
    BY <1>7, IdleType DEF Restart
  <2>2. account' \in [Users -> Roles \cup {"none", "gone"}]
    BY <1>7 DEF Restart, Roles
  <2> QED  BY <1>7, <2>1, <2>2 DEF Restart, Charged
<1>8. CASE Tick
  BY <1>8, SessionAssumption DEF Tick
<1>9. CASE UNCHANGED vars
  BY <1>9 DEF vars
<1> QED  BY <1>1, <1>2, <1>3, <1>5, <1>6, <1>7, <1>8, <1>9 DEF Next

-----------------------------------------------------------------------------
(* What every step leaves alone, and what the slots of the requests do *)

\* A session keeps the account and the time it was opened with.
Persists(t) ==
    sess[t].user # None => sess'[t].user = sess[t].user /\ sess'[t].created = sess[t].created

LEMMA Persistence ==
    ASSUME Typed, [Next]_vars
    PROVE  now' >= now /\ \A t \in Tokens : Persists(t)
<1> USE DEF Typed, Persists
<1>1. ASSUME sess' = sess, now' = now PROVE now' >= now /\ \A t \in Tokens : Persists(t)
  BY <1>1
<1>2. ASSUME NEW r \in Reqs, InsertSession(r)
      PROVE  now' >= now /\ \A t \in Tokens : Persists(t)
  BY <1>2 DEF InsertSession, NoSession
<1>3. ASSUME NEW r \in Reqs, EndAtCeiling(r) \/ Revoke(r)
      PROVE  now' >= now /\ \A t \in Tokens : Persists(t)
  BY <1>3, SMTT(40) DEF EndAtCeiling, Revoke, Revoked, SessionRow
<1>4. ASSUME NEW r \in Reqs, Extend(r) \/ Elevate(r)
      PROVE  now' >= now /\ \A t \in Tokens : Persists(t)
  BY <1>4 DEF Extend, Elevate, Extended, SessionRow
<1>5. ASSUME NEW r \in Reqs, DeleteUser(r)
      PROVE  now' >= now /\ \A t \in Tokens : Persists(t)
  BY <1>5 DEF DeleteUser, SessionRow
<1>6. CASE Sweep
  BY <1>6 DEF Sweep, SessionRow
<1>7. CASE Tick
  BY <1>7 DEF Tick
<1>8. ASSUME NEW r \in Reqs, Handling(r)
      PROVE  now' >= now /\ \A t \in Tokens : Persists(t)
  <2>1. ASSUME Danger(r) \/ Act(r) \/ StepUp(r) \/ CreateUser(r) \/ ReadRole(r) \/ CountAdmins(r)
        PROVE  sess' = sess /\ now' = now
    BY <2>1 DEF Danger, Act, StepUp, CreateUser, ReadRole, CountAdmins
  <2> QED  BY <1>1, <1>2, <1>3, <1>4, <1>5, <1>8, <2>1 DEF Handling
<1>9. ASSUME NEW r \in Reqs, \/ Abandon(r) \/ \E u \in Users : Login(r, u)
                            \/ \E t \in Tokens : Request(r, t)
      PROVE  sess' = sess /\ now' = now
  BY <1>9, ZenonT(40) DEF Abandon, Login, Request, Validate
<1>10. CASE Restart
  BY <1>1, <1>10 DEF Restart
<1>11. CASE UNCHANGED vars
  BY <1>1, <1>11 DEF vars
<1> QED  BY <1>1, <1>6, <1>7, <1>8, <1>9, <1>10, <1>11 DEF Next

\* A slot that goes on to a later statement of the same request.
Moves(q) ==
    /\ req[q].pc \notin {"idle", "insert", "ceiling"}
    /\ req'[q].op = req[q].op /\ req'[q].tok = req[q].tok
    /\ req'[q].who = req[q].who /\ req'[q].other = req[q].other
    /\ req'[q].pc \in {"handle", "acting", "elevate", "count", "delete"}
    /\ req'[q].pc \in {"count", "delete"} => req[q].op = "delete"

LEMMA SlotKept ==
    ASSUME Typed, Typed', now' >= now, \A t \in Tokens : Persists(t), NEW q \in Reqs,
           Accompanied(q), req'[q] = req[q] \/ req'[q] = Idle \/ Moves(q)
    PROVE  Accompanied(q)'
<1>1. CASE req'[q] = Idle
  BY <1>1 DEF Accompanied, Idle
<1>2. ASSUME NEW t, Opened(t) PROVE Opened(t)'
  BY <1>2 DEF Opened, Persists
<1>3. ASSUME NEW t, Opened(t), now - sess[t].created > Ceiling
      PROVE  now' - sess'[t].created > Ceiling
  BY <1>3, SessionAssumption DEF Opened, Persists, Typed, SessionRow
<1>4. CASE req'[q] = req[q]
  BY <1>2, <1>3, <1>4 DEF Accompanied
<1>5. CASE Moves(q)
  BY <1>2, <1>5 DEF Accompanied, Moves
<1> QED  BY <1>1, <1>4, <1>5

LEMMA HandlingSlot ==
    ASSUME Typed, NEW r \in Reqs, Handling(r), Accompanied(r)
    PROVE  /\ req'[r] = Idle \/ Moves(r)
           /\ \A q \in Reqs \ {r} : req'[q] = req[q]
<1> USE DEF Typed, Finish, To, RequestRow
<1>1. ASSUME InsertSession(r) \/ EndAtCeiling(r) \/ Act(r) \/ Elevate(r) \/ Revoke(r)
               \/ CreateUser(r) \/ DeleteUser(r)
      PROVE  req' = [req EXCEPT ![r] = Idle]
  BY <1>1 DEF InsertSession, EndAtCeiling, Act, Elevate, Revoke, CreateUser, DeleteUser
<1>2. CASE req' = [req EXCEPT ![r] = Idle]
  BY <1>2
<1>3. CASE Extend(r)
  BY <1>3 DEF Extend, Moves
<1>4. CASE Danger(r)
  BY <1>4 DEF Danger, Moves
<1>5. CASE StepUp(r)
  BY <1>5 DEF StepUp, Moves
<1>6. CASE ReadRole(r)
  BY <1>6 DEF ReadRole, Moves
<1>7. CASE CountAdmins(r)
  <2>1. CASE req' = [req EXCEPT ![r].pc = "delete", ![r].count = Cardinality(Admins)]
            /\ req[r].pc = "count"
    <3>1. req' = [req EXCEPT ![r] = [req[r] EXCEPT !.pc = "delete", !.count = Cardinality(Admins)]]
      BY <2>1
    <3>2. req[r].pc = "count" /\ \A q \in Reqs \ {r} : req'[q] = req[q]
      BY <2>1, <3>1
    <3>3. /\ req'[r].pc = "delete" /\ req'[r].op = req[r].op /\ req'[r].tok = req[r].tok
          /\ req'[r].who = req[r].who /\ req'[r].other = req[r].other
      BY <3>1
    <3>4. req[r].op = "delete"
      BY <3>2 DEF Accompanied
    <3> QED  BY <3>2, <3>3, <3>4 DEF Moves
  <2> QED  BY <1>2, <1>7, <2>1 DEF CountAdmins
<1> QED  BY <1>1, <1>2, <1>3, <1>4, <1>5, <1>6, <1>7 DEF Handling

\* The SELECT of ValidateSession finds a session that was opened.
LEMMA AdmittedSlot ==
    ASSUME Typed, NEW r \in Reqs, NEW t \in Tokens, NEW op \in Ops \ {"login"},
           NEW u \in Users \cup {None}, NEW t2 \in Tokens \cup {None},
           Validate(r, t, op, u, t2), Accountable(t),
           op = "delete" => u \in Users, op = "revoke" => Opened(t2)
    PROVE  Accompanied(r)'
<1>1. Opened(t) /\ sess' = sess /\ now' = now
  BY DEF Validate, Live, Opened, Accountable
<1> DEFINE c == IF now - sess[t].created > Ceiling THEN "ceiling" ELSE "extend"
<1>2. /\ req'[r].op = op /\ req'[r].tok = t /\ req'[r].who = u
      /\ req'[r].other = t2 /\ req'[r].pc = c
  BY DEF Validate, Typed
<1> QED  BY <1>1, <1>2 DEF Accompanied, Opened

LEMMA AccompaniedStep ==
    ASSUME Typed, Typed', [Next]_vars, Accounted
    PROVE  \A q \in Reqs : Accompanied(q)'
<1> SUFFICES ASSUME NEW q \in Reqs PROVE Accompanied(q)'
  OBVIOUS
<1>0. Accompanied(q) /\ \A t \in Tokens : Accountable(t)
  BY DEF Accounted
<1>1. now' >= now /\ \A t \in Tokens : Persists(t)
  BY Persistence
<1>2. ASSUME req'[q] = req[q] \/ req'[q] = Idle \/ Moves(q) PROVE Accompanied(q)'
  BY <1>0, <1>1, <1>2, SlotKept
<1>3. ASSUME NEW r \in Reqs, Handling(r) PROVE Accompanied(q)'
  <2>1. Accompanied(r)
    BY DEF Accounted
  <2> QED  BY <1>2, <1>3, <2>1, HandlingSlot
<1>4. ASSUME NEW r \in Reqs, Abandon(r) PROVE Accompanied(q)'
  BY <1>2, <1>4 DEF Abandon, Finish, Typed
<1>5. ASSUME NEW r \in Reqs, NEW u \in Users, Login(r, u) PROVE Accompanied(q)'
  <2>1. CASE q = r
    BY <1>5, <2>1 DEF Login, Typed, Accompanied, Idle
  <2>2. CASE q # r
    BY <1>2, <1>5, <2>2 DEF Login, Typed
  <2> QED  BY <2>1, <2>2
<1>6. ASSUME NEW r \in Reqs, NEW t \in Tokens, Request(r, t) PROVE Accompanied(q)'
  <2>1. Accountable(t)
    BY <1>0
  <2>2. sess' = sess /\ now' = now
    BY <1>6 DEF Request, Validate
  <2>3. CASE q = r
    <3>1. ASSUME NEW op \in {"read", "danger", "stepup", "logout"}, Validate(r, t, op, None, None)
          PROVE  Accompanied(q)'
      BY <2>1, <2>3, <3>1, AdmittedSlot DEF Ops
    <3>2. ASSUME NEW t2 \in Tokens, sess[t2].user # None, Validate(r, t, "revoke", None, t2)
          PROVE  Accompanied(q)'
      BY <2>1, <2>3, <3>2, AdmittedSlot DEF Ops, Opened
    <3>3. ASSUME NEW u \in Users, NEW op \in {"create", "delete"}, Validate(r, t, op, u, None)
          PROVE  Accompanied(q)'
      BY <2>1, <2>3, <3>3, AdmittedSlot DEF Ops
    <3> QED  BY <1>6, <3>1, <3>2, <3>3 DEF Request
  <2>4. CASE q # r
    BY <1>2, <1>6, <2>4 DEF Request, Validate, Typed
  <2> QED  BY <2>3, <2>4
<1>7. CASE Sweep \/ Tick \/ UNCHANGED vars
  BY <1>2, <1>7 DEF Sweep, Tick, vars
<1>8. CASE Restart
  BY <1>2, <1>8 DEF Restart
<1> QED  BY <1>3, <1>4, <1>5, <1>6, <1>7, <1>8 DEF Next

-----------------------------------------------------------------------------
(* Sessions stay accountable *)

LEMMA SessionUntouched ==
    ASSUME NEW t, Accountable(t), sess' = sess, used' = used, ended' = ended, now' = now
    PROVE  Accountable(t)'
  BY DEF Accountable

LEMMA HandlingAccountable ==
    ASSUME Typed, Typed', Accounted, NEW r \in Reqs, Handling(r), NEW t \in Tokens
    PROVE  Accountable(t)'
<1>1. Accountable(t) /\ Accompanied(r)
  BY DEF Accounted
<1>2. /\ sess[t] \in SessionRow /\ now \in Nat /\ now + SessionTTL \in Nat /\ used[t] \in Nat
  BY SessionAssumption DEF Typed
<1> USE DEF Typed
<1>3. ASSUME \/ Danger(r) \/ Act(r) \/ StepUp(r) \/ CreateUser(r) \/ ReadRole(r) \/ CountAdmins(r)
      PROVE  Accountable(t)'
  BY <1>1, <1>3, SessionUntouched DEF Danger, Act, StepUp, CreateUser, ReadRole, CountAdmins
<1>4. CASE InsertSession(r)
  <2>1. req[r].who # None
    BY <1>1, <1>4, SessionAssumption DEF Accompanied, InsertSession
  <2>2. CASE UNCHANGED <<sess, used>>
    BY <1>1, <1>4, <2>2, SessionUntouched DEF InsertSession
  <2>3. ASSUME NEW n \in Tokens, sess[n].user = None,
               sess' = [sess EXCEPT ![n] = [NoSession EXCEPT !.there = TRUE,
                          !.user = req[r].who, !.created = now, !.expires = now + SessionTTL]],
               used' = [used EXCEPT ![n] = now]
        PROVE  Accountable(t)'
    <3>1. ended' = ended /\ now' = now
      BY <1>4 DEF InsertSession
    <3>2. CASE t = n
      <4>1. t \notin ended
        BY <1>1, <2>3, <3>2 DEF Accountable
      <4>2. /\ sess'[t].there /\ sess'[t].user = req[r].who
            /\ sess'[t].expires = now + SessionTTL /\ ~sess'[t].revoked /\ used'[t] = now
        BY <2>3, <3>2 DEF NoSession
      <4> QED  BY <2>1, <3>1, <4>1, <4>2 DEF Accountable
    <3>3. CASE t # n
      BY <1>1, <2>3, <3>1, <3>3 DEF Accountable
    <3> QED  BY <3>2, <3>3
  <2> QED  BY <1>4, <2>2, <2>3 DEF InsertSession
<1>5. CASE EndAtCeiling(r)
  <2>1. Opened(req[r].tok) /\ now - sess[req[r].tok].created > Ceiling
    BY <1>1, <1>5 DEF Accompanied, EndAtCeiling
  <2> QED  BY <1>1, <1>2, <1>5, <2>1 DEF EndAtCeiling, Revoked, Accountable, Opened, SessionRow
<1>6. CASE Extend(r)
  BY <1>1, <1>2, <1>6 DEF Extend, Extended, Accountable, SessionRow
<1>7. CASE Elevate(r)
  BY <1>1, <1>2, <1>7 DEF Elevate, Accountable, SessionRow
<1>8. CASE Revoke(r)
  <2> DEFINE v == IF req[r].op = "logout" THEN req[r].tok ELSE req[r].other
  <2>1. Opened(v)
    BY <1>1, <1>8 DEF Accompanied, Revoke
  <2> HIDE DEF v
  <2>2. sess' = Revoked(v) /\ ended' = ended \cup {v} /\ used' = used /\ now' = now
    BY <1>8 DEF Revoke, v
  <2> QED  BY <1>1, <1>2, <2>1, <2>2 DEF Revoked, Accountable, Opened, SessionRow
<1>9. CASE DeleteUser(r)
  <2>1. req[r].who # None
    BY <1>1, <1>9, SessionAssumption DEF Accompanied, DeleteUser
  <2> DEFINE own == {c \in Tokens : sess[c].user = req[r].who}
  <2>2. /\ sess' = [c \in Tokens |-> IF c \in own THEN [sess[c] EXCEPT !.there = FALSE] ELSE sess[c]]
        /\ ended' = ended \cup own /\ used' = used /\ now' = now
    BY <1>9 DEF DeleteUser
  <2>3. CASE t \in own
    BY <1>1, <1>2, <2>1, <2>2, <2>3 DEF Accountable, SessionRow
  <2>4. CASE t \notin own
    BY <1>1, <1>2, <2>2, <2>4 DEF Accountable
  <2> QED  BY <2>3, <2>4
<1> QED  BY <1>3, <1>4, <1>5, <1>6, <1>7, <1>8, <1>9 DEF Handling

LEMMA AccountableStep ==
    ASSUME Typed, Typed', [Next]_vars, Accounted, NEW t \in Tokens
    PROVE  Accountable(t)'
<1>1. Accountable(t) /\ sess[t] \in SessionRow /\ now \in Nat
  BY SessionAssumption DEF Accounted, Typed
<1>2. ASSUME NEW r \in Reqs, \/ Abandon(r) \/ \E u \in Users : Login(r, u)
                            \/ \E c \in Tokens : Request(r, c)
      PROVE  Accountable(t)'
  BY <1>1, <1>2, SessionUntouched, ZenonT(40) DEF Abandon, Login, Request, Validate
<1>3. CASE Sweep
  <2>1. CASE (sess[t].revoked \/ sess[t].expires < now) /\ now - sess[t].created > Ceiling
    <3>1. sess'[t] = [sess[t] EXCEPT !.there = FALSE]
      BY <1>3, <2>1 DEF Sweep
    <3> QED  BY <1>1, <1>3, <2>1, <3>1 DEF Sweep, Accountable, SessionRow
  <2>2. CASE ~((sess[t].revoked \/ sess[t].expires < now) /\ now - sess[t].created > Ceiling)
    <3>1. sess'[t] = sess[t]
      BY <1>3, <2>2 DEF Sweep
    <3> QED  BY <1>1, <1>3, <3>1 DEF Sweep, Accountable
  <2> QED  BY <2>1, <2>2
<1>4. CASE Restart
  BY <1>1, <1>4, SessionUntouched DEF Restart
<1>5. CASE Tick
  BY <1>1, <1>5, SessionAssumption DEF Tick, Accountable, SessionRow
<1>6. CASE UNCHANGED vars
  BY <1>1, <1>6, SessionUntouched DEF vars
<1> QED  BY <1>2, <1>3, <1>4, <1>5, <1>6, HandlingAccountable DEF Next

\* No session of an account that is not there; only sessions are ever ended.
LEMMA OwnedStep ==
    ASSUME Typed, Typed', [Next]_vars, Accounted, Owned
    PROVE  Owned'
<1> SUFFICES ASSUME NEW t \in Tokens, sess'[t].there PROVE account'[sess'[t].user] \in Roles
  BY DEF Owned, Exists
<1> USE DEF Typed
<1>1. sess[t].there => sess[t].user \in Users /\ Exists(sess[t].user)
  BY DEF Accounted, Accountable, Owned, SessionRow
<1>2. ASSUME sess'[t].there => sess[t].there /\ sess'[t].user = sess[t].user,
             \A u \in Users : Exists(u) => Exists(u)'
      PROVE  account'[sess'[t].user] \in Roles
  BY <1>1, <1>2 DEF Exists
<1>3. ASSUME account' = account PROVE \A u \in Users : Exists(u) => Exists(u)'
  BY <1>3 DEF Exists
<1>4. ASSUME NEW r \in Reqs, InsertSession(r) PROVE account'[sess'[t].user] \in Roles
  <2>1. CASE UNCHANGED <<sess, used>>
    BY <1>2, <1>3, <1>4, <2>1 DEF InsertSession
  <2>2. ASSUME NEW n \in Tokens, Exists(req[r].who),
               sess' = [sess EXCEPT ![n] = [NoSession EXCEPT !.there = TRUE,
                          !.user = req[r].who, !.created = now, !.expires = now + SessionTTL]]
        PROVE  account'[sess'[t].user] \in Roles
    <3>1. account' = account
      BY <1>4 DEF InsertSession
    <3>2. CASE t = n
      BY <2>2, <3>1, <3>2 DEF Exists, NoSession
    <3>3. CASE t # n
      BY <1>1, <2>2, <3>1, <3>3 DEF Exists
    <3> QED  BY <3>2, <3>3
  <2> QED  BY <1>4, <2>1, <2>2 DEF InsertSession
<1>5. ASSUME NEW r \in Reqs, DeleteUser(r) PROVE account'[sess'[t].user] \in Roles
  <2>1. sess[t].user # req[r].who /\ sess'[t] = sess[t]
    BY <1>5 DEF DeleteUser, SessionRow
  <2> QED  BY <1>1, <1>5, <2>1 DEF DeleteUser, Exists
<1>6. ASSUME NEW r \in Reqs, CreateUser(r) PROVE account'[sess'[t].user] \in Roles
  BY <1>1, <1>6 DEF CreateUser, Exists, Roles
<1>7. ASSUME NEW r \in Reqs, EndAtCeiling(r) \/ Extend(r) \/ Elevate(r) \/ Revoke(r)
      PROVE  account'[sess'[t].user] \in Roles
  <2>1. account' = account /\ (sess'[t].there => sess[t].there /\ sess'[t].user = sess[t].user)
    BY <1>7, SMTT(40) DEF EndAtCeiling, Extend, Elevate, Revoke, Revoked, Extended, SessionRow
  <2> QED  BY <1>2, <1>3, <2>1
<1>8. ASSUME NEW r \in Reqs, \/ Danger(r) \/ Act(r) \/ StepUp(r) \/ ReadRole(r) \/ CountAdmins(r)
      PROVE  account' = account /\ sess' = sess
  BY <1>8 DEF Danger, Act, StepUp, ReadRole, CountAdmins
<1>9. CASE Sweep
  <2>1. account' = account /\ (sess'[t].there => sess[t].there /\ sess'[t].user = sess[t].user)
    BY <1>9 DEF Sweep, SessionRow
  <2> QED  BY <1>2, <1>3, <2>1
<1>10. CASE Restart
  BY <1>1, <1>10 DEF Restart, Exists, Roles
<1>11. CASE Tick \/ UNCHANGED vars
  BY <1>2, <1>3, <1>11 DEF Tick, vars
<1>12. ASSUME NEW r \in Reqs, Handling(r) PROVE account'[sess'[t].user] \in Roles
  BY <1>2, <1>3, <1>4, <1>5, <1>6, <1>7, <1>8, <1>12 DEF Handling
<1>13. ASSUME NEW r \in Reqs, \/ Abandon(r) \/ \E u \in Users : Login(r, u)
                             \/ \E c \in Tokens : Request(r, c)
       PROVE  account'[sess'[t].user] \in Roles
  <2>1. account' = account /\ sess' = sess
    BY <1>13, ZenonT(40) DEF Abandon, Login, Request, Validate
  <2> QED  BY <1>2, <1>3, <2>1
<1> QED  BY <1>9, <1>10, <1>11, <1>12, <1>13 DEF Next

LEMMA EndedStep ==
    ASSUME Typed, [Next]_vars, Accounted, ended \subseteq Tokens
    PROVE  ended' \subseteq Tokens
<1>1. ASSUME NEW r \in Reqs, Revoke(r) PROVE ended' \subseteq Tokens
  <2>1. Accompanied(r)
    BY DEF Accounted
  <2> QED  BY <1>1, <2>1 DEF Revoke, Accompanied, Opened
<1>2. ASSUME NEW r \in Reqs, DeleteUser(r) PROVE ended' \subseteq Tokens
  BY <1>2 DEF DeleteUser
<1>3. ASSUME NEW r \in Reqs, Handling(r) PROVE ended' \subseteq Tokens
  BY <1>1, <1>2, <1>3 DEF Handling, InsertSession, EndAtCeiling, Extend, Danger, Act, StepUp,
     Elevate, CreateUser, ReadRole, CountAdmins
<1> QED
  BY <1>3, ZenonT(40) DEF Next, Abandon, Login, Request, Validate, Sweep, Restart, Tick, vars

-----------------------------------------------------------------------------
(* The theorems *)

Inv == TypeOK /\ Accounted

LEMMA InvInit == Init => Inv
<1> SUFFICES ASSUME Init PROVE Accounted
  BY TypeInit DEF Inv
<1>1. \A t \in Tokens : sess[t] = NoSession /\ t \notin ended
  BY DEF Init
<1>2. \A r \in Reqs : req[r] = Idle
  BY DEF Init
<1> QED  BY <1>1, <1>2 DEF Accounted, Accountable, Accompanied, NoSession, Idle

LEMMA InvStep == Inv /\ [Next]_vars => Inv'
<1> SUFFICES ASSUME Inv, [Next]_vars PROVE Inv'
  OBVIOUS
<1>1. Typed /\ Owned /\ ended \subseteq Tokens /\ Accounted
  BY TypeSplit DEF Inv
<1>2. Typed'
  BY <1>1, TypedStep
<1>3. Owned' /\ ended' \subseteq Tokens
  BY <1>1, <1>2, OwnedStep, EndedStep
<1>4. TypeOK'
  BY <1>2, <1>3 DEF TypeOK, Typed, Owned, SessionRow, RequestRow, RequestPC
<1>5. \A t \in Tokens : Accountable(t)'
  BY <1>1, <1>2, AccountableStep
<1>6. \A q \in Reqs : Accompanied(q)'
  BY <1>1, <1>2, AccompaniedStep
<1> QED  BY <1>4, <1>5, <1>6 DEF Inv, Accounted

\* Accounts, sessions and requests keep their types, and every session belongs
\* to an account that is there, also when a login races the deletion of its account.
THEOREM TypeCorrect == Spec => []TypeOK
<1>1. Inv => TypeOK
  BY DEF Inv
<1> QED  BY <1>1, InvInit, InvStep, PTL DEF Spec

\* A session that is over admits no request, however many requests were
\* extending it, elevating it or ending it at the same time.
THEOREM OverSessionsStayOut == Spec => OverStaysOut
<1>1. Inv /\ [Next]_vars => [NoEntryWhenOver]_vars
  <2> SUFFICES ASSUME Inv, [Next]_vars, NEW r \in Reqs,
                      req'[r].pc = "extend", req[r].pc = "idle"
               PROVE  ~Over(req'[r].tok)
    BY DEF NoEntryWhenOver
  <2>1. Typed /\ Accounted
    BY TypeSplit DEF Inv
  <2>2. PICK t \in Tokens : Request(r, t)
    <3>1. ASSUME NEW q \in Reqs, Handling(q) PROVE FALSE
      <4>1. Accompanied(q)
        BY <2>1 DEF Accounted
      <4> QED  BY <2>1, <3>1, <4>1, HandlingSlot DEF Moves, Idle
    <3>2. ASSUME NEW q \in Reqs, Abandon(q) PROVE FALSE
      BY <2>1, <3>2 DEF Abandon, Finish, Typed, Idle
    <3>3. ASSUME NEW q \in Reqs, NEW u \in Users, Login(q, u) PROVE FALSE
      BY <2>1, <3>3 DEF Login, Typed, Idle
    <3>4. ASSUME NEW q \in Reqs, NEW t \in Tokens, Request(q, t), q # r PROVE FALSE
      BY <2>1, <3>4 DEF Request, Validate, Typed
    <3>5. CASE Sweep \/ Restart \/ Tick \/ UNCHANGED vars
      BY <3>5 DEF Sweep, Restart, Tick, vars, Idle
    <3> QED  BY <3>1, <3>2, <3>3, <3>4, <3>5 DEF Next
  <2>3. /\ Live(t) /\ req'[r].tok = t
        /\ req'[r].pc = IF now - sess[t].created > Ceiling THEN "ceiling" ELSE "extend"
    BY <2>1, <2>2 DEF Request, Validate, Typed
  <2>4. Accountable(t) /\ now \in Nat /\ used[t] \in Nat
    BY <2>1, SessionAssumption DEF Accounted, Typed
  <2> QED  BY <2>3, <2>4, SessionAssumption DEF Over, Live, Accountable
<1> QED  BY <1>1, InvInit, InvStep, PTL DEF Spec, OverStaysOut

\* A session that nobody ended, that did not idle for sessionTTL and is within
\* its ceiling is accepted: sweeps and other requests never end it.
THEOREM SessionsInUseStay == Spec => []ContinuousUse
<1>1. Inv => ContinuousUse
  <2> SUFFICES ASSUME Inv, NEW t \in Tokens, sess[t].user # None, ~Over(t) PROVE Live(t)
    BY DEF ContinuousUse
  <2>1. Accountable(t) /\ now \in Nat /\ used[t] \in Nat
    BY TypeSplit, SessionAssumption DEF Inv, Accounted, Typed
  <2> QED  BY <2>1, SessionAssumption DEF Over, Live, Accountable
<1> QED  BY <1>1, InvInit, InvStep, PTL DEF Spec

-----------------------------------------------------------------------------
(* The last admin *)

\* The count a request holds, if it took one, let an admin go.
Counted(r) == req[r].count = 0 \/ Enough(req[r].count)
AdminInv == LastAdminStays /\ \A r \in Reqs : Counted(r)

LEMMA CountedStep ==
    ASSUME Typed, Typed', [Next]_vars, NEW q \in Reqs, Counted(q)
    PROVE  Counted(q)'
<1> USE DEF Typed
<1>1. ASSUME req'[q].count \in {req[q].count, 0} PROVE Counted(q)'
  BY <1>1 DEF Counted, Enough
<1>2. ASSUME NEW r \in Reqs, NEW pc, To(r, pc) \/ Finish(r) PROVE Counted(q)'
  BY <1>1, <1>2 DEF To, Finish, Idle, RequestRow
<1>3. ASSUME NEW r \in Reqs, CountAdmins(r) PROVE Counted(q)'
  <2>1. CASE Finish(r)
    BY <1>2, <2>1
  <2>2. CASE /\ Enough(Cardinality(Admins))
             /\ req' = [req EXCEPT ![r].pc = "delete", ![r].count = Cardinality(Admins)]
    <3>1. req' = [req EXCEPT ![r] = [req[r] EXCEPT !.pc = "delete", !.count = Cardinality(Admins)]]
      BY <2>2
    <3>2. PICK x : x = [req[r] EXCEPT !.pc = "delete", !.count = Cardinality(Admins)]
      OBVIOUS
    <3>3. x.count = Cardinality(Admins)
      BY <3>2 DEF RequestRow
    <3>4. CASE q = r
      BY <2>2, <3>1, <3>2, <3>3, <3>4 DEF Counted, Enough
    <3>5. CASE q # r
      BY <1>1, <3>1, <3>5
    <3> QED  BY <3>4, <3>5
  <2> QED  BY <1>3, <2>1, <2>2 DEF CountAdmins
<1>4. ASSUME NEW r \in Reqs, StepUp(r) PROVE Counted(q)'
  <2>1. CASE Finish(r)
    BY <1>2, <2>1
  <2>2. CASE req' = [req EXCEPT ![r].pc = "elevate", ![r].elevated = now + StepUpTTL]
    BY <1>1, <2>2 DEF RequestRow
  <2> QED  BY <1>4, <2>1, <2>2 DEF StepUp
<1>5. ASSUME NEW r \in Reqs, Extend(r) \/ Danger(r) \/ ReadRole(r) PROVE Counted(q)'
  BY <1>2, <1>5 DEF Extend, Danger, ReadRole
<1>6. ASSUME NEW r \in Reqs, InsertSession(r) \/ EndAtCeiling(r) \/ Act(r) \/ Elevate(r)
                               \/ Revoke(r) \/ CreateUser(r) \/ DeleteUser(r)
      PROVE  Counted(q)'
  BY <1>2, <1>6 DEF InsertSession, EndAtCeiling, Act, Elevate, Revoke, CreateUser, DeleteUser
<1>7. ASSUME NEW r \in Reqs, Handling(r) PROVE Counted(q)'
  BY <1>3, <1>4, <1>5, <1>6, <1>7 DEF Handling
<1>8. ASSUME NEW r \in Reqs, Abandon(r) PROVE Counted(q)'
  BY <1>2, <1>8 DEF Abandon
<1>9. ASSUME NEW r \in Reqs, NEW u \in Users, Login(r, u) PROVE Counted(q)'
  BY <1>1, <1>9 DEF Login, Idle
<1>10. ASSUME NEW r \in Reqs, NEW t \in Tokens, Request(r, t) PROVE Counted(q)'
  BY <1>1, <1>10 DEF Request, Validate
<1>11. CASE Sweep \/ Restart \/ Tick \/ UNCHANGED vars
  BY <1>1, <1>11 DEF Sweep, Restart, Tick, vars, Idle
<1> QED  BY <1>7, <1>8, <1>9, <1>10, <1>11 DEF Next

\* Deleting an admin while the count is true leaves another one.
LEMMA DeletionStep ==
    ASSUME Typed, NEW r \in Reqs, DeleteUser(r), LastAdminStays, Counted(r)
    PROVE  LastAdminStays'
<1> DEFINE u == req[r].who
<1> USE DEF Typed
<1>1. CASE raced'
  BY <1>1 DEF LastAdminStays
<1>2. CASE ~raced' /\ u \in Admins
  <2>1. req[r].count = Cardinality(Admins)
    BY <1>2 DEF DeleteUser, Admins
  <2>2. IsFiniteSet(Admins) /\ Cardinality(Admins) \in Nat
    BY SessionAssumption, FS_Subset, FS_CardinalityType DEF Admins
  <2>3. Cardinality(Admins) # 0
    BY <1>2, <2>2, FS_EmptySet
  <2>4. Cardinality(Admins) > 1
    BY <2>1, <2>3 DEF Counted, Enough
  <2>5. Cardinality(Admins \ {u}) = Cardinality(Admins) - 1
    <3> HIDE DEF u
    <3> QED  BY <1>2, <2>2, FS_RemoveElement, Zenon
  <2>6. PICK a \in Admins : a # u
    <3>1. Cardinality(Admins \ {u}) # 0
      BY <2>2, <2>4, <2>5
    <3> QED  BY <3>1, FS_EmptySet
  <2>7. account'[a] = account[a]
    BY <2>6 DEF DeleteUser, Admins
  <2> QED  BY <2>6, <2>7 DEF LastAdminStays, Admins
<1>3. CASE ~raced' /\ u \notin Admins
  <2>1. ~raced
    BY <1>3 DEF DeleteUser
  <2>2. PICK a \in Admins : TRUE
    BY <2>1 DEF LastAdminStays
  <2>3. account'[a] = account[a]
    BY <1>3, <2>2 DEF DeleteUser, Admins
  <2> QED  BY <2>2, <2>3 DEF LastAdminStays, Admins
<1> QED  BY <1>1, <1>2, <1>3

LEMMA AdminStep ==
    ASSUME Typed, Typed', AdminInv, [Next]_vars
    PROVE  AdminInv'
<1> USE DEF Typed
<1>1. \A r \in Reqs : Counted(r)'
  BY CountedStep DEF AdminInv
<1>2. ASSUME account' = account, raced => raced' PROVE LastAdminStays'
  BY <1>2 DEF AdminInv, LastAdminStays, Admins
<1>3. ASSUME NEW r \in Reqs, CreateUser(r) PROVE LastAdminStays'
  <2>1. \A a \in Admins : account'[a] = "admin"
    BY <1>3 DEF CreateUser, Admins
  <2> QED  BY <1>3, <2>1 DEF CreateUser, AdminInv, LastAdminStays, Admins
<1>4. ASSUME NEW r \in Reqs, Handling(r) PROVE LastAdminStays'
  <2>1. ASSUME InsertSession(r) \/ EndAtCeiling(r) \/ Extend(r) \/ Danger(r) \/ Act(r) \/ StepUp(r)
                 \/ Elevate(r) \/ Revoke(r) \/ ReadRole(r) \/ CountAdmins(r)
        PROVE  account' = account /\ (raced => raced')
    BY <2>1 DEF InsertSession, EndAtCeiling, Extend, Danger, Act, StepUp, Elevate, Revoke,
       ReadRole, CountAdmins
  <2> QED  BY <1>2, <1>3, <1>4, <2>1, DeletionStep DEF Handling, AdminInv
<1>5. ASSUME Restart PROVE LastAdminStays'
  <2>1. CASE UNCHANGED account
    <3>1. raced => raced'
      BY <1>5 DEF Restart
    <3> QED  BY <1>2, <2>1, <3>1
  <2>2. ASSUME NEW u \in Users, account' = [account EXCEPT ![u] = "admin"] PROVE LastAdminStays'
    <3>1. account'[u] = "admin"
      BY <2>2
    <3> QED  BY <3>1 DEF LastAdminStays, Admins
  <2>3. (UNCHANGED account) \/ \E u \in Users : account' = [account EXCEPT ![u] = "admin"]
    BY <1>5 DEF Restart
  <2> QED  BY <2>1, <2>2, <2>3
<1>6. ASSUME NEW r \in Reqs, \/ Abandon(r) \/ \E u \in Users : Login(r, u)
                            \/ \E t \in Tokens : Request(r, t)
      PROVE  account' = account /\ (raced => raced')
  BY <1>6, ZenonT(40) DEF Abandon, Login, Request, Validate
<1>7. ASSUME Sweep \/ Tick \/ UNCHANGED vars PROVE LastAdminStays'
  <2>1. account' = account /\ (raced => raced')
    BY <1>7 DEF Sweep, Tick, vars
  <2> QED  BY <1>2, <2>1
<1> QED  BY <1>1, <1>2, <1>4, <1>5, <1>6, <1>7 DEF Next, AdminInv

\* The platform is left without an admin only by two deletions that overlap, so
\* that the second acts on a count of admins that is no longer true.
THEOREM AdminsOutliveDeletions == Spec => []LastAdminStays
<1>1. Init => AdminInv
  BY DEF Init, AdminInv, LastAdminStays, Admins, Counted, Idle
<1>2. Inv => Typed
  BY TypeSplit DEF Inv
<1>3. Typed /\ AdminInv /\ [Next]_vars => AdminInv'
  BY TypedStep, AdminStep
<1>4. AdminInv => LastAdminStays
  BY DEF AdminInv
<1> QED  BY <1>1, <1>2, <1>3, <1>4, InvInit, InvStep, PTL DEF Spec

-----------------------------------------------------------------------------
(* Elevation *)

\* An elevation lasts stepUpTTL from a password given on the same session.
Recent(n, t) == n # 0 => n <= confirmed[t] + StepUpTTL /\ confirmed[t] >= sess[t].created

SessionElevated(t) ==
    Recent(sess[t].elevated, t) /\ confirmed[t] <= now /\ sess[t].created <= now
RequestElevated(r) ==
    req[r].pc \notin {"idle", "insert"} => Recent(req[r].elevated, req[r].tok)
ElevationInv ==
    (\A t \in Tokens : SessionElevated(t)) /\ \A r \in Reqs : RequestElevated(r)

\* The clock, and the passwords given.
LEMMA ConfirmedStep ==
    ASSUME Typed, [Next]_vars, NEW t \in Tokens
    PROVE  confirmed'[t] = confirmed[t] \/ (confirmed'[t] = now /\ now' = now)
<1> DEFINE Goal == confirmed'[t] = confirmed[t] \/ (confirmed'[t] = now /\ now' = now)
<1>1. ASSUME NEW r \in Reqs, StepUp(r) PROVE Goal
  BY <1>1 DEF StepUp, Typed
<1>2. ASSUME NEW r \in Reqs, Handling(r) PROVE Goal
  BY <1>1, <1>2 DEF Handling, InsertSession, EndAtCeiling, Extend, Danger, Act, Elevate, Revoke,
     CreateUser, ReadRole, CountAdmins, DeleteUser
<1>3. ASSUME NEW r \in Reqs, \/ Abandon(r) \/ \E u \in Users : Login(r, u)
                            \/ \E c \in Tokens : Request(r, c)
      PROVE  Goal
  BY <1>3, ZenonT(40) DEF Abandon, Login, Request, Validate
<1>4. CASE Sweep \/ Restart \/ Tick \/ UNCHANGED vars
  BY <1>4 DEF Sweep, Restart, Tick, vars
<1> QED  BY <1>2, <1>3, <1>4 DEF Next

\* What is recent stays so while the session keeps the time it was opened at.
LEMMA RecentKept ==
    ASSUME Typed, Typed', [Next]_vars, NEW t \in Tokens, SessionElevated(t),
           sess'[t].created = sess[t].created, NEW n \in Nat, Recent(n, t)
    PROVE  Recent(n, t)'
<1>1. /\ confirmed[t] \in Nat /\ confirmed'[t] \in Nat /\ now \in Nat /\ sess[t].created \in Nat
  BY DEF Typed, SessionRow
<1>2. confirmed'[t] >= confirmed[t]
  BY <1>1, ConfirmedStep DEF SessionElevated
<1>3. confirmed'[t] + StepUpTTL >= confirmed[t] + StepUpTTL
  BY <1>1, <1>2, SessionAssumption
<1>4. StepUpTTL \in Nat
  BY SessionAssumption
<1> QED  BY <1>1, <1>2, <1>4 DEF Recent

\* The row of a session as a step leaves it: as it was but for its expiry, opened
\* now, or elevated by a request at it.
LEMMA RowStep ==
    ASSUME Typed, [Next]_vars, NEW t \in Tokens
    PROVE  \/ sess'[t].created = sess[t].created /\ sess'[t].elevated = sess[t].elevated
           \/ /\ sess[t].user = None /\ sess'[t].created = now /\ sess'[t].elevated = 0
              /\ now' = now /\ confirmed' = confirmed
           \/ /\ sess'[t].created = sess[t].created
              /\ \E r \in Reqs : /\ req[r].pc = "elevate" /\ req[r].tok = t
                                 /\ sess'[t].elevated = req[r].elevated
<1> DEFINE Same == sess'[t].created = sess[t].created /\ sess'[t].elevated = sess[t].elevated
           Fresh == /\ sess[t].user = None /\ sess'[t].created = now /\ sess'[t].elevated = 0
                    /\ now' = now /\ confirmed' = confirmed
           Raised == /\ sess'[t].created = sess[t].created
                     /\ \E r \in Reqs : /\ req[r].pc = "elevate" /\ req[r].tok = t
                                        /\ sess'[t].elevated = req[r].elevated
<1> USE DEF Typed
<1>1. ASSUME NEW r \in Reqs, InsertSession(r) PROVE Same \/ Fresh
  <2>1. CASE sess' = sess
    BY <2>1
  <2>2. ASSUME NEW n \in Tokens, sess[n].user = None,
               sess' = [sess EXCEPT ![n] = [NoSession EXCEPT !.there = TRUE,
                          !.user = req[r].who, !.created = now, !.expires = now + SessionTTL]]
        PROVE  Same \/ Fresh
    <3>1. CASE t = n
      <4>1. PICK x : x = [NoSession EXCEPT !.there = TRUE, !.user = req[r].who,
                            !.created = now, !.expires = now + SessionTTL]
        OBVIOUS
      <4>2. x.created = now /\ x.elevated = 0
        BY <4>1 DEF NoSession
      <4>3. sess'[t] = x /\ sess[t].user = None
        BY <2>2, <3>1, <4>1
      <4>4. now' = now /\ confirmed' = confirmed
        BY <1>1 DEF InsertSession
      <4> QED  BY <4>2, <4>3, <4>4
    <3>2. CASE t # n
      BY <2>2, <3>2
    <3> QED  BY <3>1, <3>2
  <2> QED  BY <1>1, <2>1, <2>2 DEF InsertSession
<1>2. ASSUME NEW r \in Reqs, EndAtCeiling(r) \/ Revoke(r) PROVE Same
  BY <1>2, SMTT(40) DEF EndAtCeiling, Revoke, Revoked, SessionRow
<1>3. ASSUME NEW r \in Reqs, Extend(r) PROVE Same
  BY <1>3 DEF Extend, Extended, SessionRow
<1>4. ASSUME NEW r \in Reqs, Elevate(r) PROVE Same \/ Raised
  <2>1. CASE sess' = [sess EXCEPT ![req[r].tok].elevated = req[r].elevated]
    <3>1. CASE t = req[r].tok
      <4>1. sess'[t].elevated = req[r].elevated /\ sess'[t].created = sess[t].created
        BY <2>1, <3>1 DEF SessionRow
      <4>2. req[r].pc = "elevate"
        BY <1>4 DEF Elevate
      <4> QED  BY <3>1, <4>1, <4>2
    <3>2. CASE t # req[r].tok
      BY <2>1, <3>2
    <3> QED  BY <3>1, <3>2
  <2>2. CASE sess' = sess
    BY <2>2
  <2> QED  BY <1>4, <2>1, <2>2 DEF Elevate
<1>5. ASSUME NEW r \in Reqs, DeleteUser(r) PROVE Same
  BY <1>5 DEF DeleteUser, SessionRow
<1>6. ASSUME NEW r \in Reqs, \/ Danger(r) \/ Act(r) \/ StepUp(r) \/ CreateUser(r)
                            \/ ReadRole(r) \/ CountAdmins(r)
      PROVE  Same
  BY <1>6 DEF Danger, Act, StepUp, CreateUser, ReadRole, CountAdmins
<1>7. ASSUME NEW r \in Reqs, Handling(r) PROVE Same \/ Fresh \/ Raised
  BY <1>1, <1>2, <1>3, <1>4, <1>5, <1>6, <1>7 DEF Handling
<1>8. ASSUME NEW r \in Reqs, \/ Abandon(r) \/ \E u \in Users : Login(r, u)
                            \/ \E c \in Tokens : Request(r, c)
      PROVE  Same
  BY <1>8, ZenonT(40) DEF Abandon, Login, Request, Validate
<1>9. CASE Sweep
  BY <1>9 DEF Sweep, SessionRow
<1>10. CASE Restart \/ Tick \/ UNCHANGED vars
  BY <1>10 DEF Restart, Tick, vars
<1> QED  BY <1>7, <1>8, <1>9, <1>10 DEF Next

LEMMA SessionElevatedStep ==
    ASSUME Typed, Typed', [Next]_vars, Accounted, ElevationInv, NEW t \in Tokens
    PROVE  SessionElevated(t)'
<1>1. /\ now \in Nat /\ now' \in Nat /\ confirmed[t] \in Nat /\ confirmed'[t] \in Nat
      /\ sess[t].created \in Nat /\ sess'[t].created \in Nat /\ sess[t].elevated \in Nat
      /\ sess'[t].elevated \in Nat
  BY DEF Typed, SessionRow
<1>2. SessionElevated(t) /\ now' >= now
  BY Persistence DEF ElevationInv
<1>3. confirmed'[t] <= now'
  BY <1>1, <1>2, ConfirmedStep DEF SessionElevated
<1>4. CASE sess'[t].created = sess[t].created /\ sess'[t].elevated = sess[t].elevated
  <2>1. Recent(sess[t].elevated, t)
    BY <1>2 DEF SessionElevated
  <2>2. ASSUME NEW n \in Nat, n = sess[t].elevated PROVE Recent(n, t)'
    BY <1>2, <1>4, <2>1, <2>2, RecentKept
  <2>3. Recent(sess[t].elevated, t)'
    BY <1>1, <1>4, <2>2 DEF Recent
  <2> QED  BY <1>1, <1>2, <1>3, <1>4, <2>3 DEF SessionElevated
<1>5. CASE /\ sess[t].user = None /\ sess'[t].created = now /\ sess'[t].elevated = 0
           /\ now' = now /\ confirmed' = confirmed
  BY <1>1, <1>3, <1>5 DEF SessionElevated, Recent
<1>6. ASSUME sess'[t].created = sess[t].created,
             NEW r \in Reqs, req[r].pc = "elevate", req[r].tok = t,
             sess'[t].elevated = req[r].elevated
      PROVE  SessionElevated(t)'
  <2>1. Recent(req[r].elevated, t)
    BY <1>6 DEF ElevationInv, RequestElevated
  <2>2. ASSUME NEW n \in Nat, n = req[r].elevated PROVE Recent(n, t)'
    BY <1>2, <1>6, <2>1, <2>2, RecentKept
  <2>3. Recent(sess[t].elevated, t)'
    BY <1>1, <1>6, <2>2 DEF Recent
  <2> QED  BY <1>1, <1>2, <1>3, <1>6, <2>3 DEF SessionElevated
<1> QED  BY <1>4, <1>5, <1>6, RowStep

\* A slot keeps what it read of its session; only a right password raises it.
KeepsElevation(q) ==
    /\ req[q].pc \notin {"idle", "insert"}
    /\ req'[q].tok = req[q].tok /\ req'[q].elevated = req[q].elevated

LEMMA RequestElevatedKept ==
    ASSUME Typed, Typed', [Next]_vars, Accounted, ElevationInv, NEW q \in Reqs,
           KeepsElevation(q)
    PROVE  RequestElevated(q)'
<1>1. req[q].tok \in Tokens /\ sess[req[q].tok].user # None /\ Recent(req[q].elevated, req[q].tok)
  BY DEF Accounted, Accompanied, Opened, ElevationInv, RequestElevated, KeepsElevation
<1>2. ASSUME NEW t \in Tokens, t = req[q].tok, NEW n \in Nat, n = req[q].elevated
      PROVE  Recent(n, t)'
  <2>1. sess'[t].created = sess[t].created
    BY <1>1, <1>2, Persistence DEF Persists
  <2> QED  BY <1>1, <1>2, <2>1, RecentKept DEF ElevationInv
<1>3. req[q].elevated \in Nat
  BY DEF Typed, RequestRow
<1>4. Recent(req[q].elevated, req[q].tok)'
  BY <1>1, <1>2, <1>3 DEF KeepsElevation, Recent
<1> QED  BY <1>4 DEF RequestElevated

LEMMA RequestElevatedStep ==
    ASSUME Typed, Typed', [Next]_vars, Accounted, ElevationInv, NEW q \in Reqs
    PROVE  RequestElevated(q)'
<1> USE DEF Typed
<1>1. ASSUME KeepsElevation(q) PROVE RequestElevated(q)'
  BY <1>1, RequestElevatedKept
<1>2. ASSUME req'[q].pc \in {"idle", "insert"} PROVE RequestElevated(q)'
  BY <1>2 DEF RequestElevated
<1>3. ASSUME req'[q] = req[q] PROVE RequestElevated(q)'
  BY <1>1, <1>2, <1>3 DEF KeepsElevation
<1>4. ASSUME NEW r \in Reqs, Finish(r) PROVE RequestElevated(q)'
  BY <1>2, <1>3, <1>4 DEF Finish, Idle
<1>5. ASSUME NEW r \in Reqs, NEW pc, To(r, pc), req[r].pc \notin {"idle", "insert"}
      PROVE  RequestElevated(q)'
  BY <1>1, <1>3, <1>5 DEF To, KeepsElevation, RequestRow
<1>6. ASSUME NEW r \in Reqs, StepUp(r) PROVE RequestElevated(q)'
  <2>1. CASE Finish(r)
    BY <1>4, <2>1
  <2>2. CASE /\ confirmed' = [confirmed EXCEPT ![req[r].tok] = now]
             /\ req' = [req EXCEPT ![r].pc = "elevate", ![r].elevated = now + StepUpTTL]
    <3>1. req' = [req EXCEPT ![r] = [req[r] EXCEPT !.pc = "elevate", !.elevated = now + StepUpTTL]]
      BY <2>2
    <3>2. PICK x : x = [req[r] EXCEPT !.pc = "elevate", !.elevated = now + StepUpTTL]
      OBVIOUS
    <3>3. x.tok = req[r].tok /\ x.elevated = now + StepUpTTL
      BY <3>2 DEF RequestRow
    <3>4. CASE q = r
      <4>1. req'[q].tok = req[r].tok /\ req'[q].elevated = now + StepUpTTL
        BY <3>1, <3>2, <3>3, <3>4
      <4>2. req[r].tok \in Tokens
        BY <1>6 DEF StepUp, Accounted, Accompanied, Opened
      <4>3. confirmed'[req[r].tok] = now /\ sess' = sess
        BY <1>6, <2>2, <4>2 DEF StepUp
      <4>4. sess[req[r].tok].created <= now
        BY <4>2 DEF ElevationInv, SessionElevated
      <4>5. now \in Nat /\ sess[req[r].tok].created \in Nat /\ now + StepUpTTL \in Nat
        BY <4>2, SessionAssumption DEF SessionRow
      <4> QED  BY <4>1, <4>3, <4>4, <4>5 DEF RequestElevated, Recent
    <3>5. CASE q # r
      BY <1>3, <3>1, <3>5
    <3> QED  BY <3>4, <3>5
  <2> QED  BY <1>6, <2>1, <2>2 DEF StepUp
<1>7. ASSUME NEW r \in Reqs, CountAdmins(r) PROVE RequestElevated(q)'
  <2>1. CASE Finish(r)
    BY <1>4, <2>1
  <2>2. CASE req' = [req EXCEPT ![r].pc = "delete", ![r].count = Cardinality(Admins)]
    <3>1. req' = [req EXCEPT ![r] = [req[r] EXCEPT !.pc = "delete", !.count = Cardinality(Admins)]]
      BY <2>2
    <3>2. PICK x : x = [req[r] EXCEPT !.pc = "delete", !.count = Cardinality(Admins)]
      OBVIOUS
    <3>3. x.tok = req[r].tok /\ x.elevated = req[r].elevated
      BY <3>2 DEF RequestRow
    <3>4. CASE q = r
      <4>1. req[q].pc = "count"
        BY <1>7, <3>4 DEF CountAdmins
      <4> QED  BY <1>1, <3>1, <3>2, <3>3, <3>4, <4>1 DEF KeepsElevation
    <3>5. CASE q # r
      BY <1>3, <3>1, <3>5
    <3> QED  BY <3>4, <3>5
  <2> QED  BY <1>7, <2>1, <2>2 DEF CountAdmins
<1>8. ASSUME NEW r \in Reqs, Extend(r) \/ Danger(r) \/ ReadRole(r) PROVE RequestElevated(q)'
  BY <1>4, <1>5, <1>8 DEF Extend, Danger, ReadRole
<1>9. ASSUME NEW r \in Reqs, InsertSession(r) \/ EndAtCeiling(r) \/ Act(r) \/ Elevate(r)
                               \/ Revoke(r) \/ CreateUser(r) \/ DeleteUser(r)
      PROVE  RequestElevated(q)'
  BY <1>4, <1>9 DEF InsertSession, EndAtCeiling, Act, Elevate, Revoke, CreateUser, DeleteUser
<1>10. ASSUME NEW r \in Reqs, Handling(r) PROVE RequestElevated(q)'
  BY <1>6, <1>7, <1>8, <1>9, <1>10 DEF Handling
<1>11. ASSUME NEW r \in Reqs, Abandon(r) PROVE RequestElevated(q)'
  BY <1>4, <1>11 DEF Abandon
<1>12. ASSUME NEW r \in Reqs, NEW u \in Users, Login(r, u) PROVE RequestElevated(q)'
  BY <1>2, <1>3, <1>12 DEF Login, Idle
<1>13. ASSUME NEW r \in Reqs, NEW t \in Tokens, Request(r, t) PROVE RequestElevated(q)'
  <2>1. UNCHANGED <<sess, confirmed>> /\ SessionElevated(t)
    BY <1>13 DEF Request, Validate, ElevationInv
  <2>2. CASE q = r
    <3>1. req'[q].tok = t /\ req'[q].elevated = sess[t].elevated
      BY <1>13, <2>2 DEF Request, Validate
    <3> QED  BY <2>1, <3>1 DEF RequestElevated, SessionElevated, Recent
  <2>3. CASE q # r
    BY <1>3, <1>13, <2>3 DEF Request, Validate
  <2> QED  BY <2>2, <2>3
<1>14. CASE Sweep \/ Restart \/ Tick \/ UNCHANGED vars
  BY <1>2, <1>3, <1>14 DEF Sweep, Restart, Tick, vars, Idle
<1> QED  BY <1>10, <1>11, <1>12, <1>13, <1>14 DEF Next

LEMMA ElevationInit == Init => ElevationInv
  BY SessionAssumption DEF Init, ElevationInv, SessionElevated, RequestElevated, Recent, NoSession, Idle

\* A dangerous handler runs only within stepUpTTL of a right password given on the
\* session of its request, since that session was opened: what the request read when it was
\* let in stays true of it while other requests elevate the session, extend or end it.
THEOREM ElevationsAreRecent == Spec => ElevationIsRecent
<1> DEFINE Began == \A r \in Reqs : req'[r].pc = "acting" /\ req[r].pc # "acting" =>
         now - confirmed[req[r].tok] < StepUpTTL /\ confirmed[req[r].tok] >= sess[req[r].tok].created
<1>1. Inv /\ ElevationInv /\ [Next]_vars => ElevationInv'
  <2> SUFFICES ASSUME Inv, ElevationInv, [Next]_vars PROVE ElevationInv'
    OBVIOUS
  <2>1. Typed /\ Typed' /\ Accounted
    BY TypeSplit, TypedStep DEF Inv
  <2> QED  BY <2>1, SessionElevatedStep, RequestElevatedStep DEF ElevationInv
<1>2. Inv /\ ElevationInv /\ [Next]_vars => [Began]_vars
  <2> SUFFICES ASSUME Inv, ElevationInv, [Next]_vars, NEW r \in Reqs,
                      req'[r].pc = "acting", req[r].pc # "acting"
               PROVE  /\ now - confirmed[req[r].tok] < StepUpTTL
                      /\ confirmed[req[r].tok] >= sess[req[r].tok].created
    OBVIOUS
  <2>1. Typed /\ Accounted
    BY TypeSplit DEF Inv
  <2>2. Danger(r) /\ now < req[r].elevated
    <3> USE <2>1 DEF Typed
    <3>1. req'[r] # req[r] /\ req'[r] # Idle
      BY DEF Idle
    <3>2. ASSUME NEW q \in Reqs, Handling(q) PROVE Danger(r) /\ now < req[r].elevated
      <4>1. q = r
        <5>1. Accompanied(q)
          BY DEF Accounted
        <5> QED  BY <3>1, <3>2, <5>1, HandlingSlot
      <4>2. ~Finish(r) /\ \A pc \in {"handle", "elevate", "count", "delete"} : req'[r].pc # pc
        BY <3>1 DEF Finish
      <4>3. ~InsertSession(r) /\ ~EndAtCeiling(r) /\ ~Act(r) /\ ~Elevate(r)
            /\ ~Revoke(r) /\ ~CreateUser(r) /\ ~DeleteUser(r)
        BY <4>2 DEF InsertSession, EndAtCeiling, Act, Elevate, Revoke, CreateUser, DeleteUser
      <4>4. ~Extend(r) /\ ~ReadRole(r)
        <5>1. \A pc \in {"handle", "count", "delete"} : ~To(r, pc)
          BY <4>2 DEF To, RequestRow
        <5> QED  BY <4>2, <5>1 DEF Extend, ReadRole
      <4>5. ~StepUp(r)
        BY <4>2 DEF StepUp, RequestRow
      <4>6. ~CountAdmins(r)
        BY <4>2 DEF CountAdmins, RequestRow
      <4>7. Danger(r)
        BY <3>2, <4>1, <4>3, <4>4, <4>5, <4>6 DEF Handling
      <4> QED  BY <4>2, <4>7 DEF Danger
    <3>3. ASSUME NEW q \in Reqs, Abandon(q) PROVE FALSE
      BY <3>1, <3>3 DEF Abandon, Finish
    <3>4. ASSUME NEW q \in Reqs, NEW u \in Users, Login(q, u) PROVE FALSE
      BY <3>1, <3>4 DEF Login, Idle
    <3>5. ASSUME NEW q \in Reqs, NEW t \in Tokens, Request(q, t) PROVE FALSE
      BY <3>1, <3>5 DEF Request, Validate
    <3>6. CASE Sweep \/ Restart \/ Tick \/ UNCHANGED vars
      BY <3>1, <3>6 DEF Sweep, Restart, Tick, vars
    <3> QED  BY <3>2, <3>3, <3>4, <3>5, <3>6 DEF Next
  <2>3. req[r].tok \in Tokens /\ Recent(req[r].elevated, req[r].tok)
    BY <2>1, <2>2 DEF Danger, Accounted, Accompanied, Opened, ElevationInv, RequestElevated
  <2>4. /\ now \in Nat /\ req[r].elevated \in Nat /\ confirmed[req[r].tok] \in Nat
    BY <2>1, <2>3 DEF Typed, RequestRow
  <2> QED  BY <2>2, <2>3, <2>4, SessionAssumption DEF Recent
<1> QED  BY <1>1, <1>2, InvInit, InvStep, ElevationInit, PTL DEF Spec, ElevationIsRecent

-----------------------------------------------------------------------------
(* The refinement of Credential *)

\* The values Credentials gives to status and inside.
StatusOf(t) ==
    IF sess[t].user = None THEN "fresh"
    ELSE IF t \in ended \/ now - sess[t].created > Ceiling THEN "over"
    ELSE IF now - used[t] >= SessionTTL THEN "lapsed" ELSE "active"
Entered(r) == IF req[r].pc \in {"idle", "insert", "ceiling"} THEN None ELSE req[r].tok

\* Who extends a session was let in with it, unless it is just being opened.
UsedKept(t) ==
    \/ used'[t] = used[t]
    \/ \E r \in Reqs : Entered(r) = t

Opens(t) ==
    /\ sess[t].user = None
    /\ now' = now /\ used'[t] = now /\ sess'[t].created = now /\ t \notin ended'

LEMMA UsedStep ==
    ASSUME Typed, [Next]_vars, Accounted, NEW t \in Tokens
    PROVE  /\ ended \subseteq ended'
           /\ (sess[t].user # None => UsedKept(t)) /\ (sess[t].user = None => sess'[t].user = None \/ Opens(t))
<1> DEFINE Goal == /\ ended \subseteq ended' /\ (sess[t].user # None => UsedKept(t))
                   /\ (sess[t].user = None => sess'[t].user = None \/ Opens(t))
<1> USE DEF Typed
<1>1. ASSUME used' = used, ended \subseteq ended', sess'[t].user = sess[t].user PROVE Goal
  BY <1>1 DEF UsedKept
<1>2. ASSUME NEW r \in Reqs, InsertSession(r) PROVE Goal
  <2>1. CASE UNCHANGED <<sess, used>>
    BY <1>1, <1>2, <2>1 DEF InsertSession
  <2>2. ASSUME NEW n \in Tokens, sess[n].user = None,
               sess' = [sess EXCEPT ![n] = [NoSession EXCEPT !.there = TRUE,
                          !.user = req[r].who, !.created = now, !.expires = now + SessionTTL]],
               used' = [used EXCEPT ![n] = now]
        PROVE  Goal
    <3>1. ended' = ended /\ now' = now
      BY <1>2 DEF InsertSession
    <3>2. CASE t = n
      <4>1. sess'[t].created = now /\ used'[t] = now
        BY <2>2, <3>2 DEF NoSession
      <4>2. t \notin ended
        BY <2>2, <3>2 DEF Accounted, Accountable
      <4> QED  BY <2>2, <3>1, <3>2, <4>1, <4>2 DEF Opens
    <3>3. CASE t # n
      BY <2>2, <3>1, <3>3 DEF UsedKept
    <3> QED  BY <3>2, <3>3
  <2> QED  BY <1>2, <2>1, <2>2 DEF InsertSession
<1>3. ASSUME NEW r \in Reqs, Extend(r) PROVE Goal
  <2>1. sess'[t].user = sess[t].user /\ ended' = ended
    BY <1>3 DEF Extend, Extended, SessionRow
  <2>2. UsedKept(t)
    BY <1>3 DEF Extend, UsedKept, Entered
  <2> QED  BY <2>1, <2>2
<1>4. ASSUME NEW r \in Reqs, EndAtCeiling(r) \/ Elevate(r) \/ Revoke(r) \/ DeleteUser(r) PROVE Goal
  <2>1. used' = used /\ ended \subseteq ended'
    BY <1>4 DEF EndAtCeiling, Elevate, Revoke, DeleteUser
  <2>2. sess'[t].user = sess[t].user
    BY <1>4 DEF EndAtCeiling, Elevate, Revoke, DeleteUser, Revoked, SessionRow
  <2> QED  BY <1>1, <2>1, <2>2
<1>5. ASSUME NEW r \in Reqs, \/ Danger(r) \/ Act(r) \/ StepUp(r) \/ CreateUser(r)
                            \/ ReadRole(r) \/ CountAdmins(r)
      PROVE  Goal
  BY <1>1, <1>5 DEF Danger, Act, StepUp, CreateUser, ReadRole, CountAdmins
<1>6. ASSUME NEW r \in Reqs, Handling(r) PROVE Goal
  BY <1>2, <1>3, <1>4, <1>5, <1>6 DEF Handling
<1>7. ASSUME NEW r \in Reqs, \/ Abandon(r) \/ \E u \in Users : Login(r, u)
                            \/ \E c \in Tokens : Request(r, c)
      PROVE  Goal
  BY <1>1, <1>7, ZenonT(40) DEF Abandon, Login, Request, Validate
<1>8. CASE Sweep
  <2>1. sess'[t].user = sess[t].user
    BY <1>8 DEF Sweep, SessionRow
  <2> QED  BY <1>1, <1>8, <2>1 DEF Sweep
<1>9. CASE Restart \/ Tick \/ UNCHANGED vars
  BY <1>1, <1>9 DEF Restart, Tick, vars
<1> QED  BY <1>6, <1>7, <1>8, <1>9 DEF Next

\* Every session is opened, idles, is extended and ends as a credential may.
LEMMA StatusStep ==
    ASSUME Typed, Typed', [Next]_vars, Accounted, NEW t \in Tokens
    PROVE  StatusOf(t)' \in
             {StatusOf(t)} \cup
             (CASE StatusOf(t) = "fresh"  -> {"active"}
                [] StatusOf(t) = "active" -> {"lapsed", "over"}
                [] StatusOf(t) = "lapsed" ->
                     {"over"} \cup (IF \E r \in Reqs : Entered(r) = t THEN {"active"} ELSE {})
                [] OTHER -> {})
<1>1. now' >= now /\ Persists(t)
  BY Persistence
<1>2. /\ ended \subseteq ended'
      /\ (sess[t].user # None => UsedKept(t)) /\ (sess[t].user = None => sess'[t].user = None \/ Opens(t))
  BY UsedStep
<1>3. /\ now \in Int /\ now' \in Int /\ used[t] \in Int /\ used'[t] \in Int
      /\ sess[t].created \in Int /\ sess'[t].created \in Int
      /\ SessionTTL \in Int /\ Ceiling \in Int /\ SessionTTL > 0 /\ Ceiling > 0
  BY SessionAssumption DEF Typed, SessionRow
<1>4. CASE sess[t].user = None
  <2>1. CASE sess'[t].user = None
    BY <1>4, <2>1 DEF StatusOf
  <2>2. CASE sess'[t].user # None
    <3>1. StatusOf(t)' = "active"
      BY <1>2, <1>3, <1>4, <2>2 DEF Opens, StatusOf
    <3>2. StatusOf(t) = "fresh"
      BY <1>4 DEF StatusOf
    <3> QED  BY <3>1, <3>2
  <2> QED  BY <2>1, <2>2
<1>5. CASE sess[t].user # None
  <2>1. sess'[t].user # None /\ sess'[t].created = sess[t].created /\ UsedKept(t)
    BY <1>1, <1>2, <1>5 DEF Persists
  <2>2. CASE t \in ended \/ now - sess[t].created > Ceiling
    <3>1. t \in ended' \/ now' - sess'[t].created > Ceiling
      BY <1>1, <1>2, <1>3, <2>1, <2>2
    <3>2. StatusOf(t) = "over" /\ StatusOf(t)' = "over"
      BY <1>5, <2>1, <2>2, <3>1 DEF StatusOf
    <3> QED  BY <3>2
  <2>3. CASE ~(t \in ended \/ now - sess[t].created > Ceiling) /\ now - used[t] >= SessionTTL
    <3>1. StatusOf(t) = "lapsed"
      BY <1>5, <2>3 DEF StatusOf
    <3>2. CASE used'[t] = used[t]
      <4>1. now' - used'[t] >= SessionTTL
        BY <1>1, <1>3, <2>3, <3>2
      <4>2. StatusOf(t)' \in {"lapsed", "over"}
        BY <2>1, <4>1 DEF StatusOf
      <4> QED  BY <3>1, <4>2
    <3>3. CASE \E r \in Reqs : Entered(r) = t
      <4>1. StatusOf(t)' \in {"lapsed", "over", "active"}
        BY <2>1 DEF StatusOf
      <4> QED  BY <3>1, <3>3, <4>1
    <3> QED  BY <2>1, <3>2, <3>3 DEF UsedKept
  <2>4. CASE ~(t \in ended \/ now - sess[t].created > Ceiling) /\ ~(now - used[t] >= SessionTTL)
    <3>1. StatusOf(t) = "active"
      BY <1>5, <2>4 DEF StatusOf
    <3>2. StatusOf(t)' \in {"lapsed", "over", "active"}
      BY <2>1 DEF StatusOf
    <3> QED  BY <3>1, <3>2
  <2> QED  BY <2>2, <2>3, <2>4
<1> QED  BY <1>4, <1>5

\* Unless it is a request that is let in, a step lets callers only leave.
LEMMA EnteredStep ==
    ASSUME Typed, [Next]_vars, Accounted, NEW q \in Reqs,
           ~ \E r \in Reqs, t \in Tokens : Request(r, t)
    PROVE  Entered(q)' \in {Entered(q), None}
<1> USE DEF Typed
<1>1. ASSUME req'[q] = req[q] \/ req'[q] = Idle \/ Moves(q)
      PROVE  Entered(q)' \in {Entered(q), None}
  BY <1>1 DEF Entered, Moves, Idle
<1>2. ASSUME NEW r \in Reqs, Handling(r) PROVE Entered(q)' \in {Entered(q), None}
  <2>1. Accompanied(r)
    BY DEF Accounted
  <2> QED  BY <1>1, <1>2, <2>1, HandlingSlot
<1>3. ASSUME NEW r \in Reqs, Abandon(r) PROVE Entered(q)' \in {Entered(q), None}
  BY <1>1, <1>3 DEF Abandon, Finish
<1>4. ASSUME NEW r \in Reqs, NEW u \in Users, Login(r, u)
      PROVE  Entered(q)' \in {Entered(q), None}
  BY <1>1, <1>4 DEF Login, Entered, Idle
<1>5. CASE Sweep \/ Tick \/ Restart \/ UNCHANGED vars
  BY <1>1, <1>5 DEF Sweep, Tick, Restart, vars
<1> QED  BY <1>2, <1>3, <1>4, <1>5 DEF Next

\* A request is let in with an active session; at the ceiling it is not let in.
LEMMA RequestEnters ==
    ASSUME Typed, Accounted, NEW r \in Reqs, NEW t \in Tokens, Request(r, t)
    PROVE  /\ Entered(r) = None /\ StatusOf(t) \in {"active", "over"}
           /\ Entered(r)' = IF StatusOf(t) = "active" THEN t ELSE None
           /\ \A q \in Reqs \ {r} : Entered(q)' = Entered(q)
           /\ UNCHANGED <<now, sess, used, ended>>
<1>1. /\ Live(t) /\ req[r].pc = "idle" /\ req'[r].tok = t
      /\ req'[r].pc = IF now - sess[t].created > Ceiling THEN "ceiling" ELSE "extend"
      /\ \A q \in Reqs \ {r} : req'[q] = req[q]
      /\ UNCHANGED <<now, sess, used, ended>>
  BY DEF Request, Validate, Typed
<1>2. Accountable(t) /\ now \in Nat /\ used[t] \in Nat
  BY SessionAssumption DEF Accounted, Typed
<1>3. StatusOf(t) = IF now - sess[t].created > Ceiling THEN "over" ELSE "active"
  BY <1>1, <1>2, SessionAssumption DEF Live, Accountable, StatusOf
<1> QED  BY <1>1, <1>3 DEF Entered

LEMMA CredentialStep ==
    ASSUME Typed, Typed', [Next]_vars, Accounted
    PROVE  Credentials!Next
<1> DEFINE status == [t \in Tokens |-> StatusOf(t)]
           inside == [r \in Reqs |-> Entered(r)]
<1>1. ASSUME \A t \in Tokens : StatusOf(t)' \in Credentials!After(t),
             \A r \in Reqs : Entered(r)' \in {Entered(r), None}
      PROVE  Credentials!Settle
  BY <1>1 DEF Credentials!Settle, StatusOf, Entered
<1>2. \A t \in Tokens : StatusOf(t)' \in Credentials!After(t)
  BY StatusStep DEF Credentials!After, StatusOf, Entered
<1>3. CASE ~ \E r \in Reqs, t \in Tokens : Request(r, t)
  BY <1>1, <1>2, <1>3, EnteredStep DEF Credentials!Next
<1>4. ASSUME NEW r \in Reqs, NEW t \in Tokens, Request(r, t) PROVE Credentials!Next
  <2>1. /\ Entered(r) = None /\ StatusOf(t) \in {"active", "over"}
        /\ Entered(r)' = IF StatusOf(t) = "active" THEN t ELSE None
        /\ \A q \in Reqs \ {r} : Entered(q)' = Entered(q)
        /\ UNCHANGED <<now, sess, used, ended>>
    BY <1>4, RequestEnters
  <2>2. CASE StatusOf(t) = "over"
    <3>1. \A q \in Reqs : Entered(q)' \in {Entered(q), None}
      BY <2>1, <2>2
    <3> QED  BY <1>1, <1>2, <3>1 DEF Credentials!Next
  <2>3. CASE StatusOf(t) = "active"
    <3>1. status' = status
      BY <2>1 DEF StatusOf
    <3>2. inside' = [inside EXCEPT ![r] = t]
      BY <2>1, <2>3
    <3>3. inside[r] = None /\ status[t] = "active"
      BY <2>1, <2>3
    <3>4. Credentials!Enter(r, t)
      BY <3>1, <3>2, <3>3 DEF Credentials!Enter, StatusOf, Entered
    <3> QED  BY <3>4 DEF Credentials!Next
  <2> QED  BY <2>1, <2>2, <2>3
<1> QED  BY <1>3, <1>4

\* Sessions implement Credential: a session admits only while it is in use, and
\* one that was ended or reached its ceiling never does again.
THEOREM SessionsImplementCredential == Spec => SessionsAreCredentials
<1>1. Init => Credentials!Init
  BY DEF Init, Idle, NoSession, Credentials!Init
<1>2. Inv /\ [Next]_vars => Credentials!Next
  <2> SUFFICES ASSUME Inv, [Next]_vars PROVE Credentials!Next
    OBVIOUS
  <2>1. Typed /\ Typed' /\ Accounted
    BY TypeSplit, TypedStep DEF Inv
  <2> QED  BY <2>1, CredentialStep
<1> QED  BY <1>1, <1>2, InvInit, InvStep, PTL DEF Spec, SessionsAreCredentials, Credentials!Spec

\* The bookkeeping behind them: a session carries the expiry of its last use, is
\* revoked or gone only when over, and every request is at a session that was opened.
THEOREM SessionsAccounted == Spec => []Accounted
<1>1. Inv => Accounted
  BY DEF Inv
<1> QED  BY <1>1, InvInit, InvStep, PTL DEF Spec
=============================================================================

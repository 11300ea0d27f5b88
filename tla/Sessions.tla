------------------------------ MODULE Sessions ------------------------------
(***************************************************************************)
(* Accounts and sessions of the platform (internal/auth/login.go,          *)
(* sessions.go, users.go, admin.go, login_attempts.go, and withAuth and    *)
(* requireElevated of internal/api/middleware.go).                         *)
(*                                                                         *)
(* Every request but a login passes withAuth: it selects the session of    *)
(* its cookie, extends it and checks the role, then its handler runs.      *)
(* Between those statements other requests do the same.                    *)
(***************************************************************************)
EXTENDS Naturals, FiniteSets

CONSTANTS
    Users,      \* ids of accounts
    Tokens,     \* session tokens ever drawn
    None,       \* no user, no token
    Reqs,       \* requests in flight together
    SessionTTL, \* sessionTTL: idle time a session survives
    Ceiling,    \* sessionAbsoluteCeiling, and sessionLogRetention
    StepUpTTL,  \* stepUpTTL
    End,        \* bound on the clock
    Budget      \* bound on requests, and on disconnects and restarts

Roles == {"admin", "viewer"}

ASSUME SessionAssumption ==
    /\ None \notin Users \cup Tokens /\ IsFiniteSet(Users)
    /\ {SessionTTL, Ceiling, StepUpTTL, End} \subseteq Nat \ {0} /\ Budget \in Nat
    /\ StepUpTTL < SessionTTL /\ SessionTTL < Ceiling

VARIABLES
    now,       \* time.Now() and now()
    account,   \* table users: the role of each id, "none" before it exists, "gone" after
    sess,      \* table admin_sessions
    req,       \* requests: operation, next statement, what they read
    used,      \* history: when each session was last extended
    confirmed, \* history: when its user last entered the password
    ended,     \* history: sessions somebody ended
    raced,     \* history: an account was deleted on a count of admins no longer true
    budget

vars == <<now, account, sess, req, used, confirmed, ended, raced, budget>>

Ops == {"login", "read", "danger", "stepup", "logout", "revoke", "create", "delete"}
NoSession == [there |-> FALSE, user |-> None, created |-> 0, expires |-> 0,
              elevated |-> 0, revoked |-> FALSE]
Idle == [op |-> "none", pc |-> "idle", tok |-> None, who |-> None, other |-> None,
         may |-> FALSE, elevated |-> 0, count |-> 0]

Exists(u) == account[u] \in Roles
Admins == {u \in Users : account[u] = "admin"}

\* Mutant: WHERE token_hash = $1 AND expires_at > now()
Live_EvenRevoked(t) == sess[t].there /\ sess[t].expires > now

\* token_hash = $1 AND expires_at > now() AND revoked_at IS NULL, joined with users
Live(t) == sess[t].there /\ sess[t].expires > now /\ ~sess[t].revoked

TypeOK ==
    /\ now \in 0 .. End /\ budget \in Nat /\ raced \in BOOLEAN
    /\ account \in [Users -> Roles \cup {"none", "gone"}]
    /\ sess \in [Tokens -> [there : BOOLEAN, user : Users \cup {None}, created : Nat,
                            expires : Nat, elevated : Nat, revoked : BOOLEAN]]
    /\ req \in [Reqs -> [op : Ops \cup {"none"},
                         pc : {"idle", "insert", "ceiling", "extend", "handle", "acting",
                               "elevate", "count", "delete"},
                         tok : Tokens \cup {None}, who : Users \cup {None},
                         other : Tokens \cup {None}, may : BOOLEAN, elevated : Nat, count : Nat]]
    /\ used \in [Tokens -> Nat] /\ confirmed \in [Tokens -> Nat]
    /\ ended \subseteq Tokens
    /\ \A t \in Tokens : sess[t].there => Exists(sess[t].user)

-----------------------------------------------------------------------------
To(r, pc) == req' = [req EXCEPT ![r].pc = pc]
Finish(r) == req' = [req EXCEPT ![r] = Idle]
Charged == budget > 0 /\ budget' = budget - 1

-----------------------------------------------------------------------------
(* Login *)

\* The user is there and the password right; otherwise nothing changes here.
Login(r, u) ==
    /\ req[r].pc = "idle" /\ Charged
    /\ Exists(u)
    /\ req' = [req EXCEPT ![r] = [Idle EXCEPT !.op = "login", !.pc = "insert", !.who = u]]
    /\ UNCHANGED <<now, account, sess, used, confirmed, ended, raced>>

\* Mutant: admin_sessions.user_id without its foreign key.
InsertSession_NoForeignKey(r) ==
    /\ req[r].pc = "insert" /\ Finish(r)
    /\ \E t \in Tokens :
         /\ sess[t].user = None
         /\ sess' = [sess EXCEPT ![t] = [NoSession EXCEPT !.there = TRUE,
                       !.user = req[r].who, !.created = now, !.expires = now + SessionTTL]]
         /\ used' = [used EXCEPT ![t] = now]
    /\ UNCHANGED <<now, account, confirmed, ended, raced, budget>>

\* The foreign key refuses the session of an account deleted meanwhile.
InsertSession(r) ==
    /\ req[r].pc = "insert" /\ Finish(r)
    /\ \/ /\ Exists(req[r].who)
          /\ \E t \in Tokens :
               /\ sess[t].user = None
               /\ sess' = [sess EXCEPT ![t] = [NoSession EXCEPT !.there = TRUE,
                             !.user = req[r].who, !.created = now, !.expires = now + SessionTTL]]
               /\ used' = [used EXCEPT ![t] = now]
       \/ ~Exists(req[r].who) /\ UNCHANGED <<sess, used>>
    /\ UNCHANGED <<now, account, confirmed, ended, raced, budget>>

-----------------------------------------------------------------------------
(* withAuth *)

\* A viewer may read and log out.
Allowed(role, op) == role = "admin" \/ op \in {"read", "logout"}

\* ValidateSession, its SELECT: role and elevated_until are read once, with the session.
Validate(r, t, op, u, t2) ==
    /\ req[r].pc = "idle" /\ Charged
    /\ Live(t)
    /\ req' = [req EXCEPT ![r] = [op |-> op, tok |-> t, who |-> u, other |-> t2, count |-> 0,
                 elevated |-> sess[t].elevated, may |-> Allowed(account[sess[t].user], op),
                 pc |-> IF now - sess[t].created > Ceiling THEN "ceiling" ELSE "extend"]]
    /\ UNCHANGED <<now, account, sess, used, confirmed, ended, raced>>

\* What each operation takes from its URL.
Request(r, t) ==
    \/ \E op \in {"read", "danger", "stepup", "logout"} : Validate(r, t, op, None, None)
    \/ \E t2 \in Tokens : sess[t2].user # None /\ Validate(r, t, "revoke", None, t2)
    \/ \E u \in Users, op \in {"create", "delete"} : Validate(r, t, op, u, None)

\* Mutant: a session is ended by letting it expire.
Revoked_Expires(t) == [sess EXCEPT ![t].expires = now]

\* UPDATE admin_sessions SET revoked_at = now()
Revoked(t) == [sess EXCEPT ![t].revoked = @ \/ sess[t].there]

EndAtCeiling(r) ==
    /\ req[r].pc = "ceiling" /\ Finish(r)
    /\ sess' = Revoked(req[r].tok)
    /\ UNCHANGED <<now, account, used, confirmed, ended, raced, budget>>

\* Mutant: a fixed window.
Extended_Fixed(t) == sess

\* newExpiry, whatever became of the session since it was read
Extended(t) == [sess EXCEPT ![t].expires = IF sess[t].there THEN now + SessionTTL ELSE @]

Extend(r) ==
    LET t == req[r].tok IN
    /\ req[r].pc = "extend"
    /\ sess' = Extended(t) /\ used' = [used EXCEPT ![t] = now]
    /\ IF req[r].may /\ req[r].op # "read" THEN To(r, "handle") ELSE Finish(r)
    /\ UNCHANGED <<now, account, confirmed, ended, raced, budget>>

-----------------------------------------------------------------------------
(* Handlers *)

\* Mutant: ElevatedUntil # nil is enough.
Danger_NeverExpires(r) ==
    /\ req[r].pc = "handle" /\ req[r].op = "danger"
    /\ IF req[r].elevated # 0 THEN To(r, "acting") ELSE Finish(r)
    /\ UNCHANGED <<now, account, sess, used, confirmed, ended, raced, budget>>

\* requireElevated: Elevated() of the session as it was read.
Danger(r) ==
    /\ req[r].pc = "handle" /\ req[r].op = "danger"
    /\ IF now < req[r].elevated THEN To(r, "acting") ELSE Finish(r)
    /\ UNCHANGED <<now, account, sess, used, confirmed, ended, raced, budget>>

Act(r) ==
    /\ req[r].pc = "acting" /\ Finish(r)
    /\ UNCHANGED <<now, account, sess, used, confirmed, ended, raced, budget>>

\* StepUp: the SELECT asks for expires_at only; then the password is right or wrong.
StepUp(r) ==
    LET t == req[r].tok IN
    /\ req[r].pc = "handle" /\ req[r].op = "stepup"
    /\ \/ /\ sess[t].there /\ sess[t].expires > now
          /\ confirmed' = [confirmed EXCEPT ![t] = now]
          /\ req' = [req EXCEPT ![r].pc = "elevate", ![r].elevated = now + StepUpTTL]
       \/ Finish(r) /\ UNCHANGED confirmed
    /\ UNCHANGED <<now, account, sess, used, ended, raced, budget>>

Elevate(r) ==
    LET t == req[r].tok IN
    /\ req[r].pc = "elevate" /\ Finish(r)
    /\ sess' = IF sess[t].there /\ sess[t].expires > now
               THEN [sess EXCEPT ![t].elevated = req[r].elevated] ELSE sess
    /\ UNCHANGED <<now, account, used, confirmed, ended, raced, budget>>

\* Logout and RevokeSession
Revoke(r) ==
    LET t == IF req[r].op = "logout" THEN req[r].tok ELSE req[r].other IN
    /\ req[r].pc = "handle" /\ req[r].op \in {"logout", "revoke"} /\ Finish(r)
    /\ sess' = Revoked(t)
    /\ ended' = ended \cup {t}
    /\ UNCHANGED <<now, account, used, confirmed, raced, budget>>

CreateUser(r) ==
    LET u == req[r].who IN
    /\ req[r].pc = "handle" /\ req[r].op = "create" /\ Finish(r)
    /\ \/ account[u] = "none" /\ \E role \in Roles : account' = [account EXCEPT ![u] = role]
       \/ UNCHANGED account
    /\ UNCHANGED <<now, sess, used, confirmed, ended, raced, budget>>

\* DeleteUser: not oneself; then the role of the account is read.
ReadRole(r) ==
    LET u == req[r].who IN
    /\ req[r].pc = "handle" /\ req[r].op = "delete"
    /\ IF u = sess[req[r].tok].user \/ ~Exists(u) THEN Finish(r)
       ELSE To(r, IF account[u] = "admin" THEN "count" ELSE "delete")
    /\ UNCHANGED <<now, account, sess, used, confirmed, ended, raced, budget>>

\* Mutant: adminCount < 1.
Enough_OffByOne(count) == count > 0

\* adminCount <= 1 refuses.
Enough(count) == count > 1

CountAdmins(r) ==
    /\ req[r].pc = "count"
    /\ IF Enough(Cardinality(Admins))
       THEN req' = [req EXCEPT ![r].pc = "delete", ![r].count = Cardinality(Admins)]
       ELSE Finish(r)
    /\ UNCHANGED <<now, account, sess, used, confirmed, ended, raced, budget>>

\* DELETE FROM users; admin_sessions goes by ON DELETE CASCADE.
DeleteUser(r) ==
    LET u == req[r].who
        own == {t \in Tokens : sess[t].user = u}
    IN
    /\ req[r].pc = "delete" /\ Finish(r)
    /\ account' = [account EXCEPT ![u] = IF Exists(u) THEN "gone" ELSE @]
    /\ sess' = [t \in Tokens |-> IF t \in own THEN [sess[t] EXCEPT !.there = FALSE] ELSE sess[t]]
    /\ ended' = ended \cup own
    /\ raced' = (raced \/ (account[u] = "admin" /\ req[r].count # Cardinality(Admins)))
    /\ UNCHANGED <<now, used, confirmed, budget>>

-----------------------------------------------------------------------------
(* Around the requests *)

\* sweepSessionLogs
Sweep ==
    /\ sess' = [t \in Tokens |->
                  IF (sess[t].revoked \/ sess[t].expires < now) /\ now - sess[t].created > Ceiling
                  THEN [sess[t] EXCEPT !.there = FALSE] ELSE sess[t]]
    /\ UNCHANGED <<now, account, req, used, confirmed, ended, raced, budget>>

\* The client disconnects or PostgreSQL does not answer: the next statement never runs.
Abandon(r) ==
    /\ req[r].pc # "idle" /\ Charged /\ Finish(r)
    /\ UNCHANGED <<now, account, sess, used, confirmed, ended, raced>>

\* The backend starts again: SeedAdminIfMissing only looks for any account at all.
Restart ==
    /\ Charged /\ req' = [r \in Reqs |-> Idle]
    /\ \/ (\E u \in Users : Exists(u)) /\ UNCHANGED account
       \/ /\ \A u \in Users : ~Exists(u)
          /\ \E u \in Users : account[u] = "none" /\ account' = [account EXCEPT ![u] = "admin"]
    /\ UNCHANGED <<now, sess, used, confirmed, ended, raced>>

Tick ==
    /\ now < End /\ now' = now + 1
    /\ UNCHANGED <<account, sess, req, used, confirmed, ended, raced, budget>>

Init ==
    /\ now = 0
    /\ account \in [Users -> Roles \cup {"none"}] /\ Admins # {}
    /\ sess = [t \in Tokens |-> NoSession]
    /\ req = [r \in Reqs |-> Idle]
    /\ used = [t \in Tokens |-> 0] /\ confirmed = [t \in Tokens |-> 0]
    /\ ended = {} /\ raced = FALSE /\ budget = Budget

Handling(r) ==
    \/ InsertSession(r) \/ EndAtCeiling(r) \/ Extend(r)
    \/ Danger(r) \/ Act(r) \/ StepUp(r) \/ Elevate(r) \/ Revoke(r)
    \/ CreateUser(r) \/ ReadRole(r) \/ CountAdmins(r) \/ DeleteUser(r)

Next ==
    \/ \E r \in Reqs : Handling(r) \/ Abandon(r)
    \/ \E r \in Reqs, u \in Users : Login(r, u)
    \/ \E r \in Reqs, t \in Tokens : Request(r, t)
    \/ Sweep \/ Restart \/ Tick

Spec == Init /\ [][Next]_vars

-----------------------------------------------------------------------------
(* What has to hold *)

\* A session is over for good once somebody ended it, it idled for sessionTTL, or
\* it reached the absolute ceiling.
Over(t) ==
    \/ t \in ended
    \/ now - used[t] >= SessionTTL
    \/ now - sess[t].created > Ceiling

\* ValidateSession lets no request in on a session that is over, whatever requests
\* were extending it while it was ended.
NoEntryWhenOver ==
    \A r \in Reqs : req'[r].pc = "extend" /\ req[r].pc = "idle" => ~Over(req'[r].tok)

OverStaysOut == [][NoEntryWhenOver]_vars

\* "uso contínuo da plataforma nunca expira no meio" (login.go): a session that is
\* not over is accepted, sweeps and other sessions notwithstanding.
ContinuousUse ==
    \A t \in Tokens : sess[t].user # None /\ ~Over(t) => Live(t)

\* Dangerous handlers only run within stepUpTTL of a right password on that session.
ElevationIsRecent ==
    [][\A r \in Reqs : req'[r].pc = "acting" /\ req[r].pc # "acting" =>
         now - confirmed[req[r].tok] < StepUpTTL /\ confirmed[req[r].tok] >= sess[req[r].tok].created]_vars

\* The inductive invariant behind OverStaysOut and ContinuousUse: what a session
\* that was ever opened looks like, and which session a request is at.
Accountable(t) ==
    /\ sess[t].there \/ t \in ended => sess[t].user # None
    /\ sess[t].user # None =>
         /\ sess[t].there => sess[t].expires = used[t] + SessionTTL
         /\ sess[t].revoked \/ ~sess[t].there => t \in ended \/ now - sess[t].created > Ceiling
         /\ t \in ended => sess[t].revoked \/ ~sess[t].there

Opened(t) == t \in Tokens /\ sess[t].user # None

Accompanied(r) ==
    LET q == req[r] IN
    /\ q.pc = "insert" => q.who \in Users
    /\ q.pc \in {"count", "delete"} => q.op = "delete"
    /\ q.op = "delete" => q.who \in Users
    /\ q.pc \notin {"idle", "insert"} => Opened(q.tok)
    /\ q.pc = "ceiling" => now - sess[q.tok].created > Ceiling
    /\ q.op = "revoke" => Opened(q.other)

Accounted == (\A t \in Tokens : Accountable(t)) /\ \A r \in Reqs : Accompanied(r)

\* A session is a credential: only one in use admits requests, one that idled comes
\* back only by a request it had admitted before, and one that somebody ended or
\* that reached its ceiling never.
Credentials == INSTANCE Credential WITH
    Ids <- Tokens, Callers <- Reqs, Nobody <- None,
    status <- [t \in Tokens |->
                 IF sess[t].user = None THEN "fresh"
                 ELSE IF t \in ended \/ now - sess[t].created > Ceiling THEN "over"
                 ELSE IF now - used[t] >= SessionTTL THEN "lapsed" ELSE "active"],
    inside <- [r \in Reqs |-> IF req[r].pc \in {"idle", "insert", "ceiling"} THEN None ELSE req[r].tok]

SessionsAreCredentials == Credentials!Spec

\* DeleteUser never removes the last admin as long as the count it acts on is true:
\* the check fails only between two deletions that overlap.
LastAdminStays == Admins # {} \/ raced

\* DeleteUser "recusa apagar o último admin restante" (users.go).
AdminRemains == Admins # {}
=============================================================================

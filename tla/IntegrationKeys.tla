--------------------------- MODULE IntegrationKeys ---------------------------
(***************************************************************************)
(* The key a control plane calls the API with (internal/auth/              *)
(* integration_key.go, withAuth of internal/api/middleware.go).            *)
(*                                                                         *)
(* Rotation and seeding are a transaction at READ COMMITTED: its UPDATE    *)
(* works on the rows its snapshot saw, waits for the transactions that     *)
(* changed them and looks at them again; its INSERT waits for another      *)
(* uncommitted active key. Two indexes refuse it: at most one active key,  *)
(* and no hash twice (migration 0021).                                     *)
(***************************************************************************)
EXTENDS Naturals, FiniteSets

CONSTANTS
    Keys,       \* keys ever drawn or given
    Seeds,      \* those the control plane generates and setup.sh passes
    None,       \* no key
    Reqs,       \* requests, and the boot, in flight together
    Budget      \* bound on requests and faults

KeyAssumption == Seeds \subseteq Keys /\ None \notin Keys /\ Budget \in Nat

VARIABLES
    key,        \* table integration_keys
    tx,         \* requests: statement reached, the rows its transaction holds
    listening,  \* the API serves requests
    rest,       \* whatever else the system is made of
    budget

keyVars == <<key, tx>>
Elsewhere == UNCHANGED <<rest, listening>>

Idle == [pc |-> "idle", op |-> "none", key |-> None, saw |-> {}, ends |-> {}]
Active == {k \in Keys : key[k] = "active"}

KeyTypeOK ==
    /\ key \in [Keys -> {"unborn", "active", "revoked"}]
    /\ tx \in [Reqs -> [pc : {"idle", "update", "lock", "insert", "commit", "answer", "inside"},
                        op : {"none", "rotate", "revoke", "seed", "use"}, key : Keys \cup {None},
                        saw : SUBSET Keys, ends : SUBSET Keys]]

-----------------------------------------------------------------------------
Charged == budget > 0 /\ budget' = budget - 1
Keep == UNCHANGED budget /\ Elsewhere
Finish(r) == tx' = [tx EXCEPT ![r] = Idle]
To(r, pc) == tx' = [tx EXCEPT ![r].pc = pc]

\* The snapshot of the UPDATE that revokes whatever is active.
Snapshot(r, op, k) ==
    tx' = [tx EXCEPT ![r] = [pc |-> "lock", op |-> op, key |-> k, saw |-> Active, ends |-> {}]]

\* newIntegrationKey: 32 random bytes, which nobody has had yet.
Undrawn == {k \in Keys \ Seeds : key[k] = "unborn" /\ \A s \in Reqs : tx[s].key # k}

\* Begin and UPDATE
Rotate(r) ==
    /\ listening /\ tx[r].pc = "idle" /\ Charged
    /\ Undrawn # {} /\ Snapshot(r, "rotate", CHOOSE k \in Undrawn : TRUE)
    /\ UNCHANGED key /\ Elsewhere

RevokeKey(r) ==
    /\ listening /\ tx[r].pc = "idle" /\ Charged
    /\ Snapshot(r, "revoke", None)
    /\ UNCHANGED key /\ Elsewhere

\* At boot: the SELECT of the active hash, then the same two statements.
Seed(r, k) ==
    /\ tx[r].pc = "idle"
    /\ IF Active = {k} THEN UNCHANGED tx
       ELSE tx' = [tx EXCEPT ![r] = [Idle EXCEPT !.pc = "update", !.op = "seed", !.key = k]]
    /\ UNCHANGED key

SeedUpdate(r) ==
    /\ tx[r].pc = "update"
    /\ Snapshot(r, "seed", tx[r].key)
    /\ UNCHANGED key /\ Keep

\* Mutant: the UPDATE is not part of the transaction.
Lock_CommitsAlone(r) ==
    LET held == UNION {tx[s].ends : s \in Reqs \ {r}}
        now == tx[r].saw \cap Active
    IN
    /\ tx[r].pc = "lock" /\ tx[r].saw \cap held = {}
    /\ key' = [k \in Keys |-> IF k \in now THEN "revoked" ELSE key[k]]
    /\ IF tx[r].op = "revoke" THEN Finish(r) ELSE tx' = [tx EXCEPT ![r].pc = "insert"]
    /\ Keep

\* The UPDATE has its rows; that of RevokeIntegrationKey commits by itself.
Lock(r) ==
    LET held == UNION {tx[s].ends : s \in Reqs \ {r}}
        now == tx[r].saw \cap Active
    IN
    /\ tx[r].pc = "lock" /\ tx[r].saw \cap held = {}
    /\ IF tx[r].op = "revoke"
       THEN /\ key' = [k \in Keys |-> IF k \in now THEN "revoked" ELSE key[k]]
            /\ Finish(r)
       ELSE /\ tx' = [tx EXCEPT ![r].pc = "insert", ![r].ends = now]
            /\ UNCHANGED key
    /\ Keep

\* Mutant: migration 0021 without the partial index.
Refused_HashOnly(r) == key[tx[r].key] # "unborn"

\* Mutant: ON CONFLICT (key_hash) DO UPDATE SET revoked_at = NULL.
Refused_Reactivates(r) == Active \ tx[r].ends # {}

\* integration_keys_one_active_idx and UNIQUE (key_hash)
Refused(r) == Active \ tx[r].ends # {} \/ key[tx[r].key] # "unborn"

Insert(r) ==
    /\ tx[r].pc = "insert" /\ \A s \in Reqs : tx[s].pc # "commit"
    /\ IF Refused(r) THEN Finish(r) ELSE To(r, "commit")
    /\ UNCHANGED key /\ Keep

Commit(r) ==
    /\ tx[r].pc = "commit"
    /\ key' = [k \in Keys |-> IF k = tx[r].key THEN "active"
                              ELSE IF k \in tx[r].ends THEN "revoked" ELSE key[k]]
    /\ IF tx[r].op = "seed" THEN Finish(r)
       ELSE tx' = [tx EXCEPT ![r].pc = "answer", ![r].saw = {}, ![r].ends = {}]
    /\ Keep

\* The key is shown once; if the client is gone, to nobody.
Answer(r) ==
    /\ tx[r].pc = "answer" /\ Finish(r)
    /\ UNCHANGED key /\ Keep

\* A statement fails or its client leaves: the deferred Rollback.
Fail(r) ==
    /\ tx[r].pc \in {"update", "lock", "insert", "commit"} /\ Charged /\ Finish(r)
    /\ UNCHANGED key /\ Elsewhere

\* WHERE key_hash = $1 AND revoked_at IS NULL, once no transaction holds the row.
Accepted(k) == key[k] = "active" /\ \A s \in Reqs : k \notin tx[s].ends

Validate(r, k) ==
    /\ listening /\ tx[r].pc = "idle" /\ Charged
    /\ Accepted(k)
    /\ tx' = [tx EXCEPT ![r] = [Idle EXCEPT !.pc = "inside", !.op = "use", !.key = k]]
    /\ UNCHANGED key /\ Elsewhere

Leave(r) ==
    /\ tx[r].pc = "inside" /\ Finish(r)
    /\ UNCHANGED key /\ Keep

\* The backend dies: its transactions roll back.
KeysDropped == tx' = [r \in Reqs |-> Idle] /\ UNCHANGED key

KeyInit ==
    /\ key = [k \in Keys |-> "unborn"]
    /\ tx = [r \in Reqs |-> Idle]

Transacting(r) ==
    SeedUpdate(r) \/ Lock(r) \/ Insert(r) \/ Commit(r) \/ Answer(r) \/ Leave(r)

KeyNext ==
    \E r \in Reqs :
       \/ Transacting(r) \/ Fail(r) \/ Rotate(r) \/ RevokeKey(r)
       \/ \E k \in Keys : Validate(r, k)

\* The component by itself, in a system that serves, seeds and dies at will.
Next ==
    \/ KeyNext
    \/ \E r \in Reqs, k \in Keys : Seed(r, k)
    \/ KeysDropped

Spec == KeyInit /\ [][Next]_keyVars

-----------------------------------------------------------------------------
(* What has to hold *)

\* "nunca sobra mais de uma ativa ao mesmo tempo" (integration_key.go), also
\* when rotations overlap.
OneActiveKey == \A k, l \in Active : k = l

\* A rotation that fails, loses a race or is cut short leaves the key in use as
\* it was: a key only ends with its successor in place, or by a disconnect.
SwapIsAtomic ==
    [][\A k \in Keys : key[k] = "active" /\ key'[k] = "revoked" =>
         \/ \E l \in Keys : key[l] = "unborn" /\ key'[l] = "active"
         \/ \E r \in Reqs : tx[r].op = "revoke" /\ tx[r].pc = "lock" /\ tx'[r].pc = "idle"]_keyVars

\* A revoked key admits nobody and never comes back, whatever .env still says.
Credentials == INSTANCE Credential WITH
    Ids <- Keys, Callers <- Reqs, Nobody <- None,
    status <- [k \in Keys |-> CASE key[k] = "unborn" -> "fresh"
                                [] key[k] = "active" -> "active"
                                [] OTHER -> "over"],
    inside <- [r \in Reqs |-> IF tx[r].pc = "inside" THEN tx[r].key ELSE None]

KeysAreCredentials == Credentials!Spec
=============================================================================

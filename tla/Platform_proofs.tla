--------------------------- MODULE Platform_proofs ---------------------------
(***************************************************************************)
(* Four parts. The integration key: what holds of IntegrationKeys for any  *)
(* keys and requests in flight, and that the boot, its crashes, the        *)
(* updates and the tunnel only do to the keys what the component allows.   *)
(* The tunnel, the update and the migrations: PlatformSound. And the boot, *)
(* which follows .env if nothing disturbs it: BootFollowsEnv. Last, the    *)
(* metrics of the platform and of its servers: HistoryKeepsSamples.        *)
(***************************************************************************)
EXTENDS Platform, MetricHistory, TLAPS

(* The integration key: its invariant, and that it implements Credential *)
TxRow == [pc : {"idle", "update", "lock", "insert", "commit", "answer", "inside"},
          op : {"none", "rotate", "revoke", "seed", "use"}, key : Keys \cup {None},
          saw : SUBSET Keys, ends : SUBSET Keys]

\* A transaction that has inserted its key is the only one, ends every key that
\* is active and brings one that never was.
Prepared(r) ==
    tx[r].pc = "commit" =>
        /\ tx[r].key \in Keys /\ key[tx[r].key] = "unborn"
        /\ K!Active \subseteq tx[r].ends
        /\ \A s \in Reqs : tx[s].pc = "commit" => s = r

\* Until then it has a key to insert, unless it only revokes.
Drawn(r) ==
    tx[r].pc \in {"update", "lock", "insert"} /\ tx[r].op # "revoke" => tx[r].key \in Keys

Plain(r) ==
    /\ tx[r].pc = "update" => tx[r].op = "seed"
    /\ tx[r].pc = "insert" => tx[r].op # "revoke"

\* What it ends was in the table.
Born(r) == \A k \in tx[r].ends : key[k] # "unborn"

KeyInv ==
    /\ K!KeyTypeOK /\ K!OneActiveKey
    /\ \A r \in Reqs : Prepared(r) /\ Drawn(r) /\ Plain(r) /\ Born(r)

LEMMA IdleRow == K!Idle \in TxRow /\ K!Idle.pc = "idle" /\ K!Idle.ends = {}
  BY DEF K!Idle, TxRow

LEMMA TxTyped == K!KeyTypeOK <=> key \in [Keys -> {"unborn", "active", "revoked"}] /\ tx \in [Reqs -> TxRow]
  BY DEF K!KeyTypeOK, TxRow

LEMMA KeyInvInit == K!KeyInit => KeyInv
<1> SUFFICES ASSUME K!KeyInit PROVE KeyInv
  OBVIOUS
<1>1. K!KeyTypeOK
  BY IdleRow, TxTyped DEF K!KeyInit
<1>2. K!OneActiveKey /\ \A r \in Reqs : tx[r] = K!Idle
  BY DEF K!KeyInit, K!OneActiveKey, K!Active
<1> QED  BY <1>1, <1>2 DEF KeyInv, Prepared, Drawn, Plain, Born, K!Idle

\* A step of one request that leaves the table alone and does not reach "commit".
LEMMA QuietStep ==
    ASSUME KeyInv, NEW r \in Reqs, NEW t \in TxRow, tx' = [tx EXCEPT ![r] = t],
           UNCHANGED key, t.pc # "commit",
           t.pc \in {"update", "lock", "insert"} /\ t.op # "revoke" => t.key \in Keys,
           t.pc = "update" => t.op = "seed", t.pc = "insert" => t.op # "revoke",
           \A k \in t.ends : key[k] # "unborn"
    PROVE  KeyInv'
<1>1. K!KeyTypeOK'
  BY TxTyped DEF KeyInv, K!KeyTypeOK, TxRow
<1>2. K!OneActiveKey' /\ K!Active' = K!Active
  BY DEF KeyInv, K!OneActiveKey, K!Active
<1>3. \A s \in Reqs : tx'[s] = IF s = r THEN t ELSE tx[s]
  BY TxTyped DEF KeyInv
<1> QED  BY <1>1, <1>2, <1>3 DEF KeyInv, Prepared, Drawn, Plain, Born

\* A revocation by itself only takes keys away.
LEMMA RevokeStep ==
    ASSUME KeyInv, NEW r \in Reqs, NEW active \in SUBSET Keys,
           key' = [k \in Keys |-> IF k \in active THEN "revoked" ELSE key[k]],
           active \subseteq K!Active, K!Finish(r)
    PROVE  KeyInv'
<1>1. K!KeyTypeOK'
  BY IdleRow, TxTyped DEF KeyInv, K!KeyTypeOK, TxRow, K!Finish
<1>2. K!Active' \subseteq K!Active /\ \A k \in Keys : key[k] = "unborn" => key'[k] = "unborn"
  BY DEF KeyInv, K!KeyTypeOK, K!Active
<1>3. \A s \in Reqs : tx'[s] = IF s = r THEN K!Idle ELSE tx[s]
  BY TxTyped DEF KeyInv, K!Finish
<1>4. K!OneActiveKey'
  BY <1>2 DEF KeyInv, K!OneActiveKey
<1>5. \A s \in Reqs : Born(s)'
  <2>1. \A k \in Keys : key[k] # "unborn" => key'[k] # "unborn"
    BY DEF KeyInv, K!KeyTypeOK
  <2>2. \A s \in Reqs : tx[s].ends \subseteq Keys
    BY TxTyped DEF KeyInv, TxRow
  <2> QED  BY <1>3, <2>1, <2>2, IdleRow DEF KeyInv, Born
<1>6. \A s \in Reqs : Prepared(s)' /\ Drawn(s)' /\ Plain(s)'
  BY <1>2, <1>3, IdleRow DEF KeyInv, Prepared, Drawn, Plain
<1> QED  BY <1>1, <1>4, <1>5, <1>6 DEF KeyInv

\* The only step that brings a key into the table.
LEMMA CommitStep ==
    ASSUME KeyInv, NEW r \in Reqs, K!Commit(r)
    PROVE  KeyInv' /\ K!Active' = {tx[r].key} /\ key[tx[r].key] = "unborn"
<1>1. /\ tx[r].key \in Keys /\ key[tx[r].key] = "unborn" /\ K!Active \subseteq tx[r].ends
      /\ \A s \in Reqs : tx[s].pc = "commit" => s = r
  BY DEF KeyInv, Prepared, K!Commit
<1>2. \A k \in Keys : key'[k] = IF k = tx[r].key THEN "active"
                                ELSE IF k \in tx[r].ends THEN "revoked" ELSE key[k]
  BY DEF K!Commit
<1>3. K!Active' = {tx[r].key}
  BY <1>1, <1>2 DEF K!Active
<1>4. PICK t \in TxRow : tx' = [tx EXCEPT ![r] = t] /\ t.pc \in {"idle", "answer"} /\ t.ends = {}
  <2>1. CASE K!Finish(r)
    BY <2>1, IdleRow DEF K!Finish
  <2>2. CASE tx' = [tx EXCEPT ![r].pc = "answer", ![r].saw = {}, ![r].ends = {}]
    <3>1. tx' = [tx EXCEPT ![r] = [tx[r] EXCEPT !.pc = "answer", !.saw = {}, !.ends = {}]]
      BY <2>2, TxTyped DEF KeyInv, TxRow
    <3>2. /\ [tx[r] EXCEPT !.pc = "answer", !.saw = {}, !.ends = {}] \in TxRow
          /\ [tx[r] EXCEPT !.pc = "answer", !.saw = {}, !.ends = {}].pc = "answer"
          /\ [tx[r] EXCEPT !.pc = "answer", !.saw = {}, !.ends = {}].ends = {}
      BY TxTyped DEF KeyInv, TxRow
    <3>3. {"answer"} \subseteq {"idle", "answer"}
      OBVIOUS
    <3> HIDE DEF KeyInv
    <3> QED  BY <3>1, <3>2, <3>3
  <2> QED  BY <2>1, <2>2 DEF K!Commit
<1>5. K!KeyTypeOK'
  <2>1. key' \in [Keys -> {"unborn", "active", "revoked"}]
    BY <1>1 DEF K!Commit, KeyInv, K!KeyTypeOK
  <2>2. tx' \in [Reqs -> TxRow]
    BY <1>4, TxTyped DEF KeyInv
  <2> QED  BY <2>1, <2>2 DEF K!KeyTypeOK, TxRow
<1>6. \A s \in Reqs : tx'[s] = IF s = r THEN t ELSE tx[s]
  BY <1>4, TxTyped DEF KeyInv
<1>7. \A s \in Reqs : tx'[s].pc # "commit"
  BY <1>1, <1>4, <1>6
<1>8. \A s \in Reqs : Drawn(s)' /\ Plain(s)'
  BY <1>4, <1>6 DEF KeyInv, Drawn, Plain
<1>9. \A s \in Reqs : Born(s)'
  BY <1>1, <1>2, <1>4, <1>6, TxTyped DEF KeyInv, Born, TxRow
<1> QED  BY <1>1, <1>3, <1>5, <1>7, <1>8, <1>9 DEF KeyInv, Prepared, K!OneActiveKey

LEMMA KeyInvStep ==
    ASSUME KeyInv, NEW r \in Reqs, K!Transacting(r)
    PROVE  KeyInv'
<1>0. tx \in [Reqs -> TxRow]
  BY TxTyped DEF KeyInv
<1>1. CASE K!SeedUpdate(r)
  <2> DEFINE t == [pc |-> "lock", op |-> "seed", key |-> tx[r].key, saw |-> K!Active, ends |-> {}]
  <2>2. t \in TxRow
    BY <1>0 DEF TxRow, K!Active
  <2>3. tx' = [tx EXCEPT ![r] = t] /\ UNCHANGED key
    BY <1>1 DEF K!SeedUpdate, K!Snapshot
  <2>4. tx[r].key \in Keys
    BY <1>1 DEF K!SeedUpdate, KeyInv, Drawn, Plain, Born
  <2> QED  BY <2>2, <2>3, <2>4, QuietStep
<1>2. CASE K!Lock(r)
  <2> DEFINE active == tx[r].saw \cap K!Active
  <2>1. CASE tx[r].op = "revoke"
    <3>1. active \in SUBSET Keys /\ active \subseteq K!Active
      BY DEF K!Active
    <3> QED  BY <1>2, <2>1, <3>1, RevokeStep DEF K!Lock
  <2>2. CASE tx[r].op # "revoke"
    <3> DEFINE t == [tx[r] EXCEPT !.pc = "insert", !.ends = active]
    <3>1. /\ t \in TxRow /\ t.pc = "insert" /\ t.op # "revoke" /\ t.key = tx[r].key
          /\ t.ends = active /\ \A k \in active : key[k] # "unborn"
      BY <1>0, <2>2 DEF TxRow, K!Active
    <3>2. tx' = [tx EXCEPT ![r] = t] /\ UNCHANGED key
      BY <1>0, <1>2, <2>2 DEF K!Lock, TxRow
    <3>3. t.key \in Keys
      BY <1>2, <2>2, <3>1 DEF K!Lock, KeyInv, Drawn
    <3> QED  BY <3>1, <3>2, <3>3, QuietStep
  <2> QED  BY <2>1, <2>2
<1>3. CASE K!Insert(r)
  <2>1. CASE K!Refused(r)
    BY <1>3, <2>1, IdleRow, QuietStep DEF K!Insert, K!Finish
  <2>2. CASE ~K!Refused(r)
    <3>1. tx' = [tx EXCEPT ![r].pc = "commit"] /\ UNCHANGED key /\ tx[r].pc = "insert"
          /\ \A s \in Reqs : tx[s].pc # "commit"
      BY <1>3, <2>2 DEF K!Insert, K!To
    <3>2. \A s \in Reqs : tx'[s] = IF s = r THEN [tx[r] EXCEPT !.pc = "commit"] ELSE tx[s]
      BY <1>0, <3>1
    <3>3. tx[r].key \in Keys
      BY <3>1 DEF KeyInv, Drawn, Plain
    <3>4. K!Active \subseteq tx[r].ends /\ key[tx[r].key] = "unborn"
      BY <2>2 DEF K!Refused
    <3>5. K!KeyTypeOK'
      BY <1>0, <3>1, TxTyped DEF KeyInv, K!KeyTypeOK, TxRow
    <3>6. K!Active' = K!Active /\ K!OneActiveKey'
      BY <3>1 DEF KeyInv, K!OneActiveKey, K!Active
    <3>7. tx'[r].key = tx[r].key /\ tx'[r].ends = tx[r].ends /\ tx'[r].pc = "commit"
      BY <1>0, <3>2 DEF TxRow
    <3> QED  BY <3>1, <3>2, <3>3, <3>4, <3>5, <3>6, <3>7 DEF KeyInv, Prepared, Drawn, Plain, Born
  <2> QED  BY <2>1, <2>2
<1>4. CASE K!Commit(r)
  BY <1>4, CommitStep
<1>5. CASE K!Answer(r)
  BY <1>5, IdleRow, QuietStep DEF K!Answer, K!Finish
<1>6. CASE K!Leave(r)
  BY <1>6, IdleRow, QuietStep DEF K!Leave, K!Finish
<1> QED  BY <1>1, <1>2, <1>3, <1>4, <1>5, <1>6 DEF K!Transacting

LEMMA KeyInvNext == KeyInv /\ [K!Next]_(K!keyVars) => KeyInv'
<1> SUFFICES ASSUME KeyInv, [K!Next]_(K!keyVars) PROVE KeyInv'
  OBVIOUS
<1>0. tx \in [Reqs -> TxRow]
  BY TxTyped DEF KeyInv
<1>1. CASE K!KeyNext
  <2>1. PICK r \in Reqs :
          \/ K!Transacting(r) \/ K!Fail(r) \/ K!Rotate(r) \/ K!RevokeKey(r)
          \/ \E k \in Keys : K!Validate(r, k)
    BY <1>1 DEF K!KeyNext
  <2>2. CASE K!Transacting(r)
    BY <2>2, KeyInvStep
  <2>3. CASE K!Fail(r)
    BY <2>3, IdleRow, QuietStep DEF K!Fail, K!Finish
  <2>4. CASE K!Rotate(r)
    <3> DEFINE k == CHOOSE k \in K!Undrawn : TRUE
               t == [pc |-> "lock", op |-> "rotate", key |-> k, saw |-> K!Active, ends |-> {}]
    <3>1. k \in Keys
      BY <2>4 DEF K!Rotate, K!Undrawn
    <3>2. t \in TxRow
      BY <3>1 DEF TxRow, K!Active
    <3>3. tx' = [tx EXCEPT ![r] = t] /\ UNCHANGED key
      BY <2>4 DEF K!Rotate, K!Snapshot
    <3> HIDE DEF k
    <3> QED  BY <3>1, <3>2, <3>3, QuietStep
  <2>5. CASE K!RevokeKey(r)
    <3> DEFINE t == [pc |-> "lock", op |-> "revoke", key |-> None, saw |-> K!Active, ends |-> {}]
    <3>1. t \in TxRow
      BY DEF TxRow, K!Active
    <3>2. tx' = [tx EXCEPT ![r] = t] /\ UNCHANGED key
      BY <2>5 DEF K!RevokeKey, K!Snapshot
    <3> QED  BY <3>1, <3>2, QuietStep
  <2>6. ASSUME NEW k \in Keys, K!Validate(r, k) PROVE KeyInv'
    <3> DEFINE t == [K!Idle EXCEPT !.pc = "inside", !.op = "use", !.key = k]
    <3>1. t \in TxRow /\ t.pc = "inside" /\ t.ends = {}
      BY IdleRow DEF TxRow, K!Idle
    <3>2. tx' = [tx EXCEPT ![r] = t] /\ UNCHANGED key
      BY <2>6 DEF K!Validate
    <3> QED  BY <3>1, <3>2, QuietStep
  <2> QED  BY <2>1, <2>2, <2>3, <2>4, <2>5, <2>6
<1>2. ASSUME NEW r \in Reqs, NEW k \in Keys, K!Seed(r, k) PROVE KeyInv'
  <2>1. CASE UNCHANGED tx
    BY <1>2, <2>1 DEF K!Seed, KeyInv, K!KeyTypeOK, K!OneActiveKey, K!Active, Prepared, Drawn, Plain, Born
  <2>2. CASE tx' = [tx EXCEPT ![r] = [K!Idle EXCEPT !.pc = "update", !.op = "seed", !.key = k]]
    <3> DEFINE t == [K!Idle EXCEPT !.pc = "update", !.op = "seed", !.key = k]
    <3>1. /\ t \in TxRow /\ t.pc = "update" /\ t.op = "seed" /\ t.key = k /\ k \in Keys
          /\ t.ends = {}
      BY IdleRow DEF TxRow, K!Idle
    <3> QED  BY <1>2, <2>2, <3>1, QuietStep DEF K!Seed
  <2> QED  BY <1>2, <2>1, <2>2 DEF K!Seed
<1>3. CASE K!KeysDropped
  BY <1>3, IdleRow DEF K!KeysDropped, KeyInv, K!KeyTypeOK, TxRow, K!OneActiveKey, K!Active, Prepared,
     Drawn, Plain, Born
<1>4. CASE UNCHANGED K!keyVars
  BY <1>4 DEF K!keyVars, KeyInv, K!KeyTypeOK, K!OneActiveKey, K!Active, Prepared, Drawn, Plain, Born
<1> QED  BY <1>1, <1>2, <1>3, <1>4 DEF K!Next

\* Types are kept, for any keys and requests.
LEMMA KeysTyped == K!Spec => []K!KeyTypeOK
<1>1. KeyInv => K!KeyTypeOK
  BY DEF KeyInv
<1> QED  BY <1>1, KeyInvInit, KeyInvNext, PTL DEF K!Spec

\* "nunca sobra mais de uma ativa": whatever rotations, revocations and seeds
\* overlap, fail or are cut short.
LEMMA OneKeyIsActive == K!Spec => []K!OneActiveKey
<1>1. KeyInv => K!OneActiveKey
  BY DEF KeyInv
<1> QED  BY <1>1, KeyInvInit, KeyInvNext, PTL DEF K!Spec

-----------------------------------------------------------------------------
(* What one step does to the keys and to who is inside *)

\* Every step leaves the table alone, is a revocation by itself or a commit.
Untouched == UNCHANGED key
Revocation(r) ==
    /\ tx[r].op = "revoke" /\ tx[r].pc = "lock" /\ tx'[r].pc = "idle"
    /\ \A k \in Keys : key'[k] \in {key[k]} \cup (IF key[k] = "active" THEN {"revoked"} ELSE {})

LEMMA TableStep ==
    ASSUME KeyInv, [K!Next]_(K!keyVars)
    PROVE  Untouched \/ \E r \in Reqs : Revocation(r) \/ K!Commit(r)
<1>1. CASE K!KeyNext
  <2>1. PICK r \in Reqs :
          \/ K!Transacting(r) \/ K!Fail(r) \/ K!Rotate(r) \/ K!RevokeKey(r)
          \/ \E k \in Keys : K!Validate(r, k)
    BY <1>1 DEF K!KeyNext
  <2>2. CASE K!Lock(r) /\ tx[r].op = "revoke"
    <3>1. tx'[r].pc = "idle"
      BY <2>2, IdleRow, TxTyped DEF K!Lock, K!Finish, KeyInv
    <3> QED  BY <2>2, <3>1 DEF K!Lock, Revocation, K!Active
  <2>3. CASE K!Lock(r) /\ tx[r].op # "revoke"
    BY <2>3 DEF K!Lock, Untouched
  <2>4. CASE K!Commit(r)
    BY <2>4
  <2>5. CASE K!SeedUpdate(r) \/ K!Insert(r) \/ K!Answer(r) \/ K!Leave(r)
    BY <2>5 DEF K!SeedUpdate, K!Insert, K!Answer, K!Leave, Untouched
  <2>6. CASE K!Fail(r) \/ K!Rotate(r) \/ K!RevokeKey(r) \/ \E k \in Keys : K!Validate(r, k)
    BY <2>6 DEF K!Fail, K!Rotate, K!RevokeKey, K!Validate, Untouched
  <2> QED  BY <2>1, <2>2, <2>3, <2>4, <2>5, <2>6 DEF K!Transacting
<1>2. CASE UNCHANGED K!keyVars
  BY <1>2 DEF K!keyVars, Untouched
<1>3. CASE (\E r \in Reqs, k \in Keys : K!Seed(r, k)) \/ K!KeysDropped
  BY <1>3 DEF K!Seed, K!KeysDropped, Untouched
<1> QED  BY <1>1, <1>2, <1>3 DEF K!Next

\* A rotation is all or nothing, whatever fails or overlaps.
LEMMA SwapsAreAtomic == K!Spec => K!SwapIsAtomic
<1> DEFINE Swap ==
      \A k \in Keys : key[k] = "active" /\ key'[k] = "revoked" =>
         \/ \E l \in Keys : key[l] = "unborn" /\ key'[l] = "active"
         \/ \E r \in Reqs : tx[r].op = "revoke" /\ tx[r].pc = "lock" /\ tx'[r].pc = "idle"
<1>1. ASSUME KeyInv, [K!Next]_(K!keyVars) PROVE Swap
  <2>1. CASE Untouched
    BY <2>1 DEF Untouched
  <2>2. ASSUME NEW r \in Reqs, Revocation(r) PROVE Swap
    BY <2>2 DEF Revocation
  <2>3. ASSUME NEW r \in Reqs, K!Commit(r) PROVE Swap
    <3>1. key[tx[r].key] = "unborn" /\ tx[r].key \in Keys
      BY <1>1, <2>3 DEF K!Commit, KeyInv, Prepared
    <3>2. key'[tx[r].key] = "active"
      BY <2>3, <3>1 DEF K!Commit
    <3> QED  BY <3>1, <3>2
  <2> QED  BY <1>1, <2>1, <2>2, <2>3, TableStep
<1>2. KeyInv /\ [K!Next]_(K!keyVars) => [Swap]_(K!keyVars)
  BY <1>1
<1> QED  BY <1>2, KeyInvInit, KeyInvNext, PTL DEF K!Spec, K!SwapIsAtomic

\* Who is inside, as Credential sees it.
Inside == [r \in Reqs |-> IF tx[r].pc = "inside" THEN tx[r].key ELSE None]
Status == [k \in Keys |-> CASE key[k] = "unborn" -> "fresh"
                            [] key[k] = "active" -> "active"
                            [] OTHER -> "over"]

\* Every step lets one caller in, with an active key and an unchanged table, or
\* only lets callers out.
LEMMA InsideStep ==
    ASSUME KeyInv, [K!Next]_(K!keyVars)
    PROVE  \/ \A r \in Reqs : tx'[r].pc = "inside" => tx[r] = tx'[r]
           \/ \E r \in Reqs, k \in Keys : K!Validate(r, k)
<1>0. tx \in [Reqs -> TxRow]
  BY TxTyped DEF KeyInv
<1> DEFINE Out == \A s \in Reqs : tx'[s].pc = "inside" => tx[s] = tx'[s]
<1>1. ASSUME NEW r \in Reqs, NEW t, tx' = [tx EXCEPT ![r] = t], t.pc # "inside" PROVE Out
  BY <1>0, <1>1
<1>2. ASSUME K!KeyNext PROVE Out \/ \E r \in Reqs, k \in Keys : K!Validate(r, k)
  <2>1. PICK r \in Reqs :
          \/ K!Transacting(r) \/ K!Fail(r) \/ K!Rotate(r) \/ K!RevokeKey(r)
          \/ \E k \in Keys : K!Validate(r, k)
    BY <1>2 DEF K!KeyNext
  <2>2. CASE K!Finish(r)
    BY <1>1, <2>2, IdleRow DEF K!Finish
  <2>3. ASSUME NEW op, NEW k, K!Snapshot(r, op, k) PROVE Out
    BY <1>1, <2>3 DEF K!Snapshot
  <2>4. CASE K!Lock(r)
    <3>1. CASE tx' = [tx EXCEPT ![r].pc = "insert", ![r].ends = tx[r].saw \cap K!Active]
      <4>1. tx' = [tx EXCEPT ![r] = [tx[r] EXCEPT !.pc = "insert", !.ends = tx[r].saw \cap K!Active]]
        BY <1>0, <3>1 DEF TxRow
      <4>2. [tx[r] EXCEPT !.pc = "insert", !.ends = tx[r].saw \cap K!Active].pc # "inside"
        BY <1>0 DEF TxRow
      <4> QED  BY <1>1, <4>1, <4>2
    <3> QED  BY <2>2, <2>4, <3>1 DEF K!Lock
  <2>5. CASE K!Insert(r)
    <3>1. CASE K!To(r, "commit")
      <4>1. tx' = [tx EXCEPT ![r] = [tx[r] EXCEPT !.pc = "commit"]]
        BY <1>0, <3>1 DEF K!To, TxRow
      <4>2. [tx[r] EXCEPT !.pc = "commit"].pc # "inside"
        BY <1>0 DEF TxRow
      <4> QED  BY <1>1, <4>1, <4>2
    <3> QED  BY <2>2, <2>5, <3>1 DEF K!Insert
  <2>6. CASE K!Commit(r)
    <3>1. CASE tx' = [tx EXCEPT ![r].pc = "answer", ![r].saw = {}, ![r].ends = {}]
      <4>1. tx' = [tx EXCEPT ![r] = [tx[r] EXCEPT !.pc = "answer", !.saw = {}, !.ends = {}]]
        BY <1>0, <3>1 DEF TxRow
      <4>2. [tx[r] EXCEPT !.pc = "answer", !.saw = {}, !.ends = {}].pc # "inside"
        BY <1>0 DEF TxRow
      <4> QED  BY <1>1, <4>1, <4>2
    <3> QED  BY <2>2, <2>6, <3>1 DEF K!Commit
  <2>7. CASE K!SeedUpdate(r) \/ K!Rotate(r) \/ K!RevokeKey(r)
    BY <2>3, <2>7 DEF K!SeedUpdate, K!Rotate, K!RevokeKey
  <2>8. CASE K!Answer(r) \/ K!Leave(r) \/ K!Fail(r)
    BY <2>2, <2>8 DEF K!Answer, K!Leave, K!Fail
  <2> QED  BY <2>1, <2>4, <2>5, <2>6, <2>7, <2>8 DEF K!Transacting
<1>3. ASSUME NEW r \in Reqs, NEW k \in Keys, K!Seed(r, k) PROVE Out
  <2>1. CASE tx' = [tx EXCEPT ![r] = [K!Idle EXCEPT !.pc = "update", !.op = "seed", !.key = k]]
    <3>1. [K!Idle EXCEPT !.pc = "update", !.op = "seed", !.key = k].pc # "inside"
      BY DEF K!Idle
    <3> QED  BY <1>1, <2>1, <3>1
  <2> QED  BY <1>3, <2>1 DEF K!Seed
<1>4. CASE K!KeysDropped
  BY <1>4, IdleRow DEF K!KeysDropped
<1>5. CASE UNCHANGED K!keyVars
  BY <1>5 DEF K!keyVars
<1> QED  BY <1>2, <1>3, <1>4, <1>5 DEF K!Next

-----------------------------------------------------------------------------
(* Keys are credentials *)

\* No key is active before it was unborn, nor after it was revoked.
LEMMA StatusStep ==
    ASSUME KeyInv, [K!Next]_(K!keyVars), NEW k \in Keys
    PROVE  \/ key'[k] = key[k]
           \/ (key[k] = "unborn" /\ key'[k] = "active")
           \/ (key[k] = "active" /\ key'[k] = "revoked")
<1>1. CASE Untouched
  BY <1>1 DEF Untouched
<1>2. ASSUME NEW r \in Reqs, Revocation(r)
      PROVE  key'[k] = key[k] \/ (key[k] = "active" /\ key'[k] = "revoked")
  BY <1>2 DEF Revocation
<1>3. ASSUME NEW r \in Reqs, K!Commit(r)
      PROVE  \/ key'[k] = key[k]
             \/ (key[k] = "unborn" /\ key'[k] = "active")
             \/ (key[k] = "active" /\ key'[k] = "revoked")
  <2>1. key[tx[r].key] = "unborn" /\ K!Active \subseteq tx[r].ends
    BY <1>3 DEF K!Commit, KeyInv, Prepared
  <2>2. key'[k] = IF k = tx[r].key THEN "active" ELSE IF k \in tx[r].ends THEN "revoked" ELSE key[k]
    BY <1>3 DEF K!Commit
  <2>3. k \in tx[r].ends => key[k] = "active" \/ key[k] = "revoked"
    BY <1>3, TxTyped DEF KeyInv, Born, K!KeyTypeOK
  <2> QED  BY <2>1, <2>2, <2>3
<1> QED  BY <1>1, <1>2, <1>3, TableStep

LEMMA CredentialInit == K!KeyInit => K!Credentials!Init
  BY DEF K!KeyInit, K!Credentials!Init, K!Idle

LEMMA CredentialStep ==
    ASSUME KeyInv, [K!Next]_(K!keyVars)
    PROVE  K!Credentials!Settle \/ \E r \in Reqs, k \in Keys : K!Credentials!Enter(r, k)
<1>1. CASE \A r \in Reqs : tx'[r].pc = "inside" => tx[r] = tx'[r]
  <2>1. \A k \in Keys : Status'[k] \in K!Credentials!After(k)
    <3> SUFFICES ASSUME NEW k \in Keys PROVE Status'[k] \in K!Credentials!After(k)
      OBVIOUS
    <3>1. key[k] \in {"unborn", "active", "revoked"}
      BY DEF KeyInv, K!KeyTypeOK
    <3> QED  BY <3>1, StatusStep DEF Status, K!Credentials!After
  <2>2. \A r \in Reqs : Inside'[r] \in {Inside[r], None}
    BY <1>1 DEF Inside
  <2> QED  BY <2>1, <2>2 DEF K!Credentials!Settle, Status, Inside
<1>2. ASSUME NEW r \in Reqs, NEW k \in Keys, K!Validate(r, k)
      PROVE  K!Credentials!Enter(r, k)
  <2>1. tx[r].pc = "idle" /\ key[k] = "active" /\ UNCHANGED key
    BY <1>2 DEF K!Validate, K!Accepted
  <2>2. \A s \in Reqs : tx'[s] = IF s = r THEN [K!Idle EXCEPT !.pc = "inside", !.op = "use", !.key = k]
                                 ELSE tx[s]
    BY <1>2, TxTyped DEF KeyInv, K!Validate
  <2>3. \A s \in Reqs : Inside'[s] = IF s = r THEN k ELSE Inside[s]
    BY <2>2 DEF Inside, K!Idle
  <2>4. Inside' = [Inside EXCEPT ![r] = k]
    BY <2>3 DEF Inside
  <2>5. Inside[r] = None
    BY <2>1 DEF Inside
  <2>6. Status' = Status
    BY <2>1 DEF Status
  <2> QED  BY <2>1, <2>4, <2>5, <2>6 DEF K!Credentials!Enter, Status, Inside
<1> QED  BY <1>1, <1>2, InsideStep

\* IntegrationKeys implements Credential: a key is let in only while it is active
\* and never comes back, whatever .env says and whatever overlaps.
LEMMA CredentialSpec == K!Spec => K!KeysAreCredentials
<1>1. K!KeyInit => K!Credentials!Init
  BY CredentialInit
<1>2. KeyInv /\ [K!Next]_(K!keyVars) => K!Credentials!Next
  BY CredentialStep DEF K!Credentials!Next
<1> QED  BY <1>1, <1>2, KeyInvInit, KeyInvNext, PTL DEF K!Spec, K!KeysAreCredentials, K!Credentials!Spec

-----------------------------------------------------------------------------
(* The platform implements the component *)

\* .env never holds a value that is not a key.
SeedGiven == env.seed \in Seeds \cup {None}

\* Steps of the requests on the keys
KeySteps ==
    \E r \in Reqs :
       \/ K!SeedUpdate(r) \/ K!Lock(r) \/ K!Insert(r) \/ K!Commit(r) \/ K!Answer(r)
       \/ K!Leave(r) \/ K!Fail(r) \/ K!Rotate(r) \/ K!RevokeKey(r)
       \/ \E k \in Keys : K!Validate(r, k)

\* Steps of the tunnel and of an update that end nothing
OtherSteps ==
    \/ \E r \in Reqs :
          \/ T!Create(r) \/ T!Record(r) \/ T!RecordFails(r) \/ T!ReadId(r) \/ T!Remove(r)
          \/ T!Clear(r) \/ T!StatementFails(r) \/ T!Disable(r) \/ \E t \in Tokens : T!Enable(r, t)
    \/ T!BoxChanges
    \/ \E c \in Calls :
          \/ S!Status(c) \/ S!CheckUnit(c) \/ S!Heal(c)
          \/ S!Apply(c) \/ S!CheckApply(c) \/ S!WriteState(c) \/ S!Launch(c)
    \/ \E u \in S!Units : S!Pull(u) \/ S!Report(u)

\* A step takes one unit of the budget, or none.
Spent == UNCHANGED budget \/ (budget > 0 /\ budget' = budget - 1)

LEMMA SpentTyped == budget \in 0 .. Budget /\ Spent => budget' \in 0 .. Budget
  BY PlatformAssumption DEF Spent, S!UpdateAssumption

\* The components leave the rest of the platform alone.
LEMMA KeyStepsStay ==
    ASSUME KeySteps
    PROVE  UNCHANGED <<tunnelVars, updateVars, bootVars>> /\ Spent /\ K!KeyNext
<1>0. PICK r \in Reqs :
       \/ K!SeedUpdate(r) \/ K!Lock(r) \/ K!Insert(r) \/ K!Commit(r) \/ K!Answer(r)
       \/ K!Leave(r) \/ K!Fail(r) \/ K!Rotate(r) \/ K!RevokeKey(r)
       \/ \E k \in Keys : K!Validate(r, k)
  BY Zenon DEF KeySteps
<1>1. K!KeyNext
  BY <1>0, Zenon DEF K!KeyNext, K!Transacting
<1>2. ASSUME NEW q \in Reqs, K!SeedUpdate(q) \/ K!Lock(q) \/ K!Insert(q) \/ K!Commit(q)
      PROVE  UNCHANGED <<tunnelVars, updateVars, bootVars>> /\ Spent
  BY <1>2, Zenon DEF K!SeedUpdate, K!Lock, K!Insert, K!Commit, K!Keep, K!Elsewhere, K!Charged, Spent
<1>3. ASSUME NEW q \in Reqs, K!Answer(q) \/ K!Leave(q) \/ K!Fail(q)
      PROVE  UNCHANGED <<tunnelVars, updateVars, bootVars>> /\ Spent
  BY <1>3, Zenon DEF K!Answer, K!Leave, K!Fail, K!Keep, K!Elsewhere, K!Charged, Spent
<1>4. ASSUME NEW q \in Reqs, K!Rotate(q) \/ K!RevokeKey(q)
      PROVE  UNCHANGED <<tunnelVars, updateVars, bootVars>> /\ Spent
  BY <1>4, Zenon DEF K!Rotate, K!RevokeKey, K!Keep, K!Elsewhere, K!Charged, Spent
<1>5. ASSUME NEW q \in Reqs, NEW k \in Keys, K!Validate(q, k)
      PROVE  UNCHANGED <<tunnelVars, updateVars, bootVars>> /\ Spent
  BY <1>5, Zenon DEF K!Validate, K!Keep, K!Elsewhere, K!Charged, Spent
<1> QED  BY <1>0, <1>1, <1>2, <1>3, <1>4, <1>5, Zenon

\* Steps of the requests on the tunnel
TunnelSteps ==
    \E r \in Reqs :
       \/ T!Create(r) \/ T!Record(r) \/ T!RecordFails(r) \/ T!ReadId(r) \/ T!Remove(r)
       \/ T!Clear(r) \/ T!StatementFails(r) \/ T!Disable(r) \/ \E t \in Tokens : T!Enable(r, t)

LEMMA TunnelStepsStay ==
    ASSUME TunnelSteps
    PROVE  UNCHANGED <<keyVars, updateVars, bootVars>> /\ Spent
<1>1. ASSUME NEW r \in Reqs, T!Create(r) PROVE UNCHANGED <<keyVars, updateVars, bootVars>> /\ Spent
  BY <1>1, Zenon DEF T!Create, T!Keep, T!Elsewhere, T!Charged, Spent
<1>2. ASSUME NEW r \in Reqs, T!Record(r) PROVE UNCHANGED <<keyVars, updateVars, bootVars>> /\ Spent
  BY <1>2, Zenon DEF T!Record, T!Keep, T!Elsewhere, T!Charged, Spent
<1>3. ASSUME NEW r \in Reqs, T!RecordFails(r) PROVE UNCHANGED <<keyVars, updateVars, bootVars>> /\ Spent
  BY <1>3, Zenon DEF T!RecordFails, T!Keep, T!Elsewhere, T!Charged, Spent
<1>4. ASSUME NEW r \in Reqs, T!ReadId(r) PROVE UNCHANGED <<keyVars, updateVars, bootVars>> /\ Spent
  BY <1>4, Zenon DEF T!ReadId, T!Keep, T!Elsewhere, T!Charged, Spent
<1>5. ASSUME NEW r \in Reqs, T!Remove(r) PROVE UNCHANGED <<keyVars, updateVars, bootVars>> /\ Spent
  BY <1>5, Zenon DEF T!Remove, T!Keep, T!Elsewhere, T!Charged, Spent
<1>6. ASSUME NEW r \in Reqs, T!Clear(r) PROVE UNCHANGED <<keyVars, updateVars, bootVars>> /\ Spent
  BY <1>6, Zenon DEF T!Clear, T!Keep, T!Elsewhere, T!Charged, Spent
<1>7. ASSUME NEW r \in Reqs, T!StatementFails(r) PROVE UNCHANGED <<keyVars, updateVars, bootVars>> /\ Spent
  BY <1>7, Zenon DEF T!StatementFails, T!Keep, T!Elsewhere, T!Charged, Spent
<1>8. ASSUME NEW r \in Reqs, T!Disable(r) PROVE UNCHANGED <<keyVars, updateVars, bootVars>> /\ Spent
  BY <1>8, Zenon DEF T!Disable, T!Keep, T!Elsewhere, T!Charged, Spent
<1>9. ASSUME NEW r \in Reqs, NEW t \in Tokens, T!Enable(r, t) PROVE UNCHANGED <<keyVars, updateVars, bootVars>> /\ Spent
  BY <1>9, Zenon DEF T!Enable, T!Keep, T!Elsewhere, T!Charged, Spent
<1> QED  BY <1>1, <1>2, <1>3, <1>4, <1>5, <1>6, <1>7, <1>8, <1>9, Zenon DEF TunnelSteps

LEMMA BoxStays ==
    ASSUME T!BoxChanges
    PROVE  UNCHANGED <<work, keyVars, updateVars, bootVars>> /\ Spent
  BY Zenon DEF T!BoxChanges, T!Elsewhere, T!Charged, Spent

\* Steps of an update, up to its deployment
UpdateSteps ==
    \/ \E c \in Calls :
          \/ S!Status(c) \/ S!CheckUnit(c) \/ S!Heal(c)
          \/ S!Apply(c) \/ S!CheckApply(c) \/ S!WriteState(c) \/ S!Launch(c)
    \/ \E u \in S!Units : S!Pull(u) \/ S!Report(u)

LEMMA UpdateStepsStay ==
    ASSUME UpdateSteps
    PROVE  UNCHANGED <<keyVars, tunnelVars, bootVars>> /\ Spent
<1>1. ASSUME NEW c \in Calls, S!Status(c) PROVE UNCHANGED <<keyVars, tunnelVars, bootVars>> /\ Spent
  BY <1>1, Zenon DEF S!Status, S!Keep, S!Charged, Spent
<1>2. ASSUME NEW c \in Calls, S!CheckUnit(c) PROVE UNCHANGED <<keyVars, tunnelVars, bootVars>> /\ Spent
  BY <1>2, Zenon DEF S!CheckUnit, S!Keep, S!Charged, Spent
<1>3. ASSUME NEW c \in Calls, S!Heal(c) PROVE UNCHANGED <<keyVars, tunnelVars, bootVars>> /\ Spent
  BY <1>3, Zenon DEF S!Heal, S!Keep, S!Charged, Spent
<1>4. ASSUME NEW c \in Calls, S!Apply(c) PROVE UNCHANGED <<keyVars, tunnelVars, bootVars>> /\ Spent
  BY <1>4, Zenon DEF S!Apply, S!Keep, S!Charged, Spent
<1>8. ASSUME NEW c \in Calls, S!CheckApply(c) PROVE UNCHANGED <<keyVars, tunnelVars, bootVars>> /\ Spent
  BY <1>8, Zenon DEF S!CheckApply, S!Keep, S!Charged, Spent
<1>5. ASSUME NEW c \in Calls, S!WriteState(c) PROVE UNCHANGED <<keyVars, tunnelVars, bootVars>> /\ Spent
  BY <1>5, Zenon DEF S!WriteState, S!Keep, S!Charged, Spent
<1>6. ASSUME NEW c \in Calls, S!Launch(c) PROVE UNCHANGED <<keyVars, tunnelVars, bootVars>> /\ Spent
  BY <1>6, Zenon DEF S!Launch, S!Keep, S!Charged, Spent
<1>7. ASSUME NEW u \in S!Units, S!Pull(u) \/ S!Report(u) PROVE UNCHANGED <<keyVars, tunnelVars, bootVars>> /\ Spent
  BY <1>7, Zenon DEF S!Pull, S!Report, S!Keep, S!Charged, Spent
<1> QED  BY <1>1, <1>2, <1>3, <1>4, <1>5, <1>6, <1>7, <1>8, Zenon DEF UpdateSteps

LEMMA OtherStepsStay == OtherSteps => UNCHANGED <<bootVars, keyVars>> /\ Spent
  BY TunnelStepsStay, BoxStays, UpdateStepsStay, Zenon DEF OtherSteps, TunnelSteps, UpdateSteps

LEMMA BootSteps ==
    ASSUME SeedGiven, Booting \/ BootFails
    PROVE  UNCHANGED env /\ (UNCHANGED keyVars \/ \E r \in Reqs, k \in Keys : K!Seed(r, k))
<1>1. CASE BootKey
  <2>1. CASE env.seed = None
    BY <1>1, <2>1 DEF BootKey, Resting
  <2>2. CASE env.seed # None
    <3>1. env.seed \in Keys
      BY <2>2, PlatformAssumption DEF SeedGiven, K!KeyAssumption
    <3>2. K!Seed(Boot, env.seed)
      BY <1>1, <2>2 DEF BootKey, K!Seed
    <3> QED  BY <1>1, <3>1, <3>2 DEF BootKey, Resting, Reqs
  <2> QED  BY <2>1, <2>2
<1>2. CASE Start \/ Migrate \/ Migrated \/ BootTunnel \/ Listen \/ BootFails
  BY <1>2 DEF Start, Migrate, Migrated, BootTunnel, Listen, BootFails, Resting
<1> QED  BY <1>1, <1>2 DEF Booting

\* A crash, setup.sh, an update or a reboot drops every transaction.
LEMMA EndingSteps ==
    ASSUME SeedGiven, Crash \/ Setup \/ HostReboots \/ \E u \in S!Units : Deploy(u)
    PROVE  SeedGiven' /\ K!KeysDropped
<1>1. K!KeysDropped
  BY DEF Crash, Setup, HostReboots, Deploy, Ended, K!KeysDropped
<1>2. ASSUME UNCHANGED env PROVE SeedGiven'
  BY <1>2 DEF SeedGiven
<1>3. ASSUME Setup PROVE SeedGiven'
  BY <1>3 DEF Setup, SeedGiven, Envs
<1> QED  BY <1>1, <1>2, <1>3 DEF Crash, HostReboots, Deploy

\* Every step of the platform is one of the component, or leaves the keys alone.
LEMMA PlatformStep ==
    ASSUME SeedGiven, [Next]_vars
    PROVE  SeedGiven' /\ [K!Next]_(K!keyVars)
<1>1. CASE KeySteps
  BY <1>1, KeyStepsStay DEF SeedGiven, K!Next, bootVars
<1>2. CASE OtherSteps
  BY <1>2, OtherStepsStay DEF SeedGiven, keyVars, K!keyVars, bootVars
<1>3. CASE Booting \/ BootFails
  BY <1>3, BootSteps DEF SeedGiven, K!Next, keyVars, K!keyVars
<1>4. CASE Crash \/ Setup \/ HostReboots \/ \E u \in S!Units : Deploy(u)
  BY <1>4, EndingSteps DEF K!Next
<1>5. CASE UNCHANGED vars
  BY <1>5 DEF vars, bootVars, keyVars, K!keyVars, SeedGiven
<1> QED  BY <1>1, <1>2, <1>3, <1>4, <1>5 DEF Next, KeySteps, OtherSteps

\* The platform implements the component.
THEOREM PlatformImplementsKeys == Spec => K!Spec
<1>1. Init => SeedGiven /\ K!KeyInit
  BY DEF Init, SeedGiven, Envs, K!KeyInit
<1>2. SeedGiven /\ [Next]_vars => SeedGiven' /\ [K!Next]_(K!keyVars)
  BY PlatformStep
<1> QED  BY <1>1, <1>2, PTL DEF Spec, K!Spec

\* "nunca sobra mais de uma ativa": on the platform, too, with its boots,
\* crashes, updates and changes of .env.
THEOREM AtMostOneActive == Spec => []OneActiveKey
  BY PlatformImplementsKeys, OneKeyIsActive, PTL DEF OneActiveKey

\* No boot and no crash cuts a rotation in two.
THEOREM RotationIsAtomic == Spec => SwapIsAtomic
  BY PlatformImplementsKeys, SwapsAreAtomic DEF SwapIsAtomic

\* A key that was revoked stays out of the platform, whatever .env still says.
THEOREM KeysImplementCredential == Spec => KeysAreCredentials
  BY PlatformImplementsKeys, CredentialSpec DEF KeysAreCredentials

-----------------------------------------------------------------------------
(* The tunnel. The row knows the container because ids are never given out *)
(* twice: a call that clears the row after it removed its container cannot *)
(* meet that id again.                                                     *)

WorkRow == [pc : {"idle", "create", "record", "read", "remove", "clear", "failed"},
            op : {"none", "enable", "disable", "boot"},
            token : Tokens \cup {None}, id : Boxes \cup {None}]

BoxRow == [id : Boxes \cup {None}, running : BOOLEAN, token : Tokens \cup {None}]
SettingsRow == [enabled : BOOLEAN, id : Boxes \cup {None}]
Given(id) == id \in spent \cup {None}

TunnelInv ==
    /\ T!TunnelTypeOK /\ TunnelKnown
    /\ Given(box.id) /\ Given(row.id)
    /\ \A r \in Reqs : /\ Given(work[r].id)
                       /\ work[r].pc = "record" => work[r].id # None
                       /\ work[r].pc = "clear" => work[r].id = None \/ work[r].id # box.id

\* What a step does to the request that takes it
Moved(r, w) == work' = [work EXCEPT ![r] = w]

LEMMA TunnelTyped ==
    T!TunnelTypeOK <=> /\ box \in BoxRow /\ row \in SettingsRow /\ row.enabled = (row.id # None)
                       /\ work \in [Reqs -> WorkRow] /\ spent \subseteq Boxes /\ stray \subseteq Boxes /\ kept \subseteq Boxes
  BY DEF T!TunnelTypeOK, BoxRow, SettingsRow, WorkRow

LEMMA IdleWork == T!Idle \in WorkRow /\ T!Idle.pc = "idle" /\ T!Idle.id = None
  BY DEF T!Idle, WorkRow

\* An error leaves the request without anything to record or to clear.
LEMMA FailedMoves ==
    ASSUME work \in [Reqs -> WorkRow], NEW r \in Reqs, T!Failed(r)
    PROVE  \E w \in WorkRow : /\ Moved(r, w) /\ w.pc \notin {"record", "clear"}
                              /\ w.id \in {None, work[r].id}
<1>1. CASE work[r].op # "boot"
  BY <1>1, IdleWork DEF T!Failed, T!Finish, Moved
<1>2. CASE work[r].op = "boot"
  <2>1. PICK pc \in {"create", "failed"} : work' = [work EXCEPT ![r].pc = pc]
    BY <1>2, Zenon DEF T!Failed, T!To
  <2> DEFINE w == [work[r] EXCEPT !.pc = pc]
  <2>2. w \in WorkRow /\ w.pc = pc /\ w.id = work[r].id
    BY DEF WorkRow
  <2>3. Moved(r, w)
    BY <2>1 DEF Moved
  <2> HIDE DEF w
  <2> QED  BY <2>2, <2>3
<1> QED  BY <1>1, <1>2

\* Docker gives out a new id.
LEMMA NewBoxIsNew ==
    ASSUME NEW on \in BOOLEAN, NEW t, T!NewBox(on, t), spent \subseteq Boxes
    PROVE  \E n \in Boxes \ spent : box' = [id |-> n, running |-> on, token |-> t]
                                    /\ spent' = spent \cup {n}
  BY DEF T!NewBox

\* A request moves; container and row stay, or the container goes.
LEMMA QuietWork ==
    ASSUME TunnelInv, NEW r \in Reqs, NEW w \in WorkRow, Moved(r, w),
           UNCHANGED <<row, spent>>, kept' \subseteq Boxes, stray' \in SUBSET Boxes, stray \subseteq stray',
           box' \in {box, T!NoBox}, Given(w.id),
           w.pc = "clear" => w.id = None \/ w.id # box'.id,
           w.pc # "record", work[r].pc = "record" => work[r].id \in stray'
    PROVE  TunnelInv'
<1>1. /\ work' \in [Reqs -> WorkRow] /\ work'[r] = w
      /\ \A q \in Reqs : q # r => work'[q] = work[q]
  BY TunnelTyped DEF TunnelInv, Moved
<1>2. box' \in BoxRow /\ (box'.id = None \/ box' = box)
  <2>1. box \in BoxRow
    BY TunnelTyped DEF TunnelInv
  <2>2. T!NoBox \in BoxRow /\ T!NoBox.id = None
    BY DEF T!NoBox, BoxRow
  <2> QED  BY <2>1, <2>2
<1>3. T!TunnelTypeOK'
  BY <1>1, <1>2 DEF TunnelInv, T!TunnelTypeOK, BoxRow, SettingsRow, WorkRow
<1>4. TunnelKnown'
  <2> SUFFICES ASSUME box'.id # None, row'.id # box'.id, box'.id \notin stray'
               PROVE  \E q \in Reqs : work'[q].pc = "record" /\ work'[q].id = box'.id
    BY DEF TunnelKnown, T!TunnelKnown
  <2>1. box' = box
    BY <1>2
  <2>2. PICK q \in Reqs : work[q].pc = "record" /\ work[q].id = box.id
    BY <2>1 DEF TunnelInv, TunnelKnown, T!TunnelKnown
  <2> QED  BY <1>1, <2>1, <2>2
<1>5. Given(box.id)' /\ Given(row.id)' /\ \A q \in Reqs : Given(work[q].id)'
  BY <1>1, <1>2 DEF TunnelInv, Given
<1>6. \A q \in Reqs : /\ work'[q].pc = "record" => work'[q].id # None
                      /\ work'[q].pc = "clear" => work'[q].id = None \/ work'[q].id # box'.id
  BY <1>1, <1>2 DEF TunnelInv
<1> QED  BY <1>3, <1>4, <1>5, <1>6 DEF TunnelInv

\* A container of a new id appears: the request that made it will record it,
\* or it is lost at once.
LEMMA CreateKeeps ==
    ASSUME TunnelInv, NEW r \in Reqs, T!Create(r)
    PROVE  TunnelInv'
<1>0. /\ box \in BoxRow /\ row \in SettingsRow /\ work \in [Reqs -> WorkRow] /\ work[r] \in WorkRow
      /\ spent \subseteq Boxes /\ stray \subseteq Boxes /\ kept \subseteq Boxes /\ UNCHANGED <<row, kept>>
      /\ work[r].pc = "create" /\ row.enabled = (row.id # None)
  BY TunnelTyped DEF TunnelInv, T!Create
<1> DEFINE Made(n, on, w) ==
      /\ box' = [id |-> n, running |-> on, token |-> work[r].token] /\ spent' = spent \cup {n}
      /\ Moved(r, w) /\ w.id \in {None, work[r].id, n} /\ (w.pc = "record" => w.id = n)
      /\ stray' \in {stray, stray \cup {n}}
      /\ n \in stray' \/ (w.pc = "record" /\ w.id = n)
      /\ w.pc # "clear"
<1>1. ASSUME NEW n \in Boxes \ spent, NEW on \in BOOLEAN, NEW w \in WorkRow, Made(n, on, w)
      PROVE  TunnelInv'
  <2>1. /\ work' \in [Reqs -> WorkRow] /\ work'[r] = w
        /\ \A q \in Reqs : q # r => work'[q] = work[q]
    BY <1>0, <1>1 DEF Moved
  <2>2. /\ box' \in BoxRow /\ box'.id = n /\ n # None /\ stray' \subseteq Boxes /\ spent' \subseteq Boxes
        /\ spent' = spent \cup {n} /\ n \notin spent
    BY <1>0, <1>1, PlatformAssumption DEF BoxRow, WorkRow, T!TunnelAssumption
  <2>3. T!TunnelTypeOK'
    BY <1>0, <2>1, <2>2 DEF T!TunnelTypeOK, BoxRow, SettingsRow, WorkRow
  <2>4. TunnelKnown'
    BY <1>1, <2>1, <2>2 DEF TunnelKnown, T!TunnelKnown
  <2>5. Given(box.id)' /\ Given(row.id)' /\ \A q \in Reqs : Given(work[q].id)'
    BY <1>0, <1>1, <2>1, <2>2 DEF TunnelInv, Given
  <2>6. \A q \in Reqs : /\ work'[q].pc = "record" => work'[q].id # None
                        /\ work'[q].pc = "clear" => work'[q].id = None \/ work'[q].id # box'.id
    BY <1>1, <2>1, <2>2 DEF TunnelInv, Given
  <2> QED  BY <2>3, <2>4, <2>5, <2>6 DEF TunnelInv
<1>2. CASE /\ T!NewBox(TRUE, work[r].token) /\ UNCHANGED stray
           /\ work' = [work EXCEPT ![r].pc = "record", ![r].id = box'.id]
  <2>1. PICK n \in Boxes \ spent : /\ box' = [id |-> n, running |-> TRUE, token |-> work[r].token]
                                   /\ spent' = spent \cup {n}
    BY <1>0, <1>2, NewBoxIsNew
  <2> DEFINE w == [work[r] EXCEPT !.pc = "record", !.id = n]
  <2>2. w \in WorkRow /\ w.pc = "record" /\ w.id = n
    BY <1>0 DEF WorkRow
  <2>3. Moved(r, w)
    BY <1>0, <1>2, <2>1 DEF Moved
  <2> HIDE DEF w
  <2> QED  BY <1>1, <1>2, <2>1, <2>2, <2>3
<1>3. CASE T!NewBox(FALSE, work[r].token) /\ stray' = stray \cup {box'.id} /\ T!Failed(r)
  <2>1. PICK n \in Boxes \ spent : /\ box' = [id |-> n, running |-> FALSE, token |-> work[r].token]
                                   /\ spent' = spent \cup {n}
    BY <1>0, <1>3, NewBoxIsNew
  <2>2. PICK w \in WorkRow : Moved(r, w) /\ w.pc \notin {"record", "clear"} /\ w.id \in {None, work[r].id}
    BY <1>0, <1>3, FailedMoves
  <2> QED  BY <1>1, <1>3, <2>1, <2>2
<1>4. CASE T!Failed(r) /\ UNCHANGED <<box, spent, stray>>
  <2>1. PICK w \in WorkRow : Moved(r, w) /\ w.pc \notin {"record", "clear"} /\ w.id \in {None, work[r].id}
    BY <1>0, <1>4, FailedMoves
  <2>2. Given(w.id)
    BY <2>1 DEF TunnelInv, Given
  <2> QED  BY <1>0, <1>4, <2>1, <2>2, QuietWork
<1> QED  BY <1>2, <1>3, <1>4, Zenon DEF T!Create

\* The row is written: the container it named until then is the request's own, or lost.
LEMMA RowWritten ==
    ASSUME TunnelInv, NEW r \in Reqs, NEW w \in WorkRow, Moved(r, w), w.pc \notin {"record", "clear"},
           w.id \in {None, work[r].id}, NEW id \in {None, work[r].id},
           row' = [enabled |-> id # None, id |-> id],
           work[r].pc = "record" => id = work[r].id,
           id = work[r].id \/ work[r].id = None \/ work[r].id # box.id,
           stray' = stray \cup T!Overwritten(r), UNCHANGED <<box, spent, kept>>
    PROVE  TunnelInv'
<1>0. /\ box \in BoxRow /\ row \in SettingsRow /\ work \in [Reqs -> WorkRow] /\ work[r] \in WorkRow
      /\ spent \subseteq Boxes /\ stray \subseteq Boxes /\ kept \subseteq Boxes
  BY TunnelTyped DEF TunnelInv
<1>1. /\ work' \in [Reqs -> WorkRow] /\ work'[r] = w
      /\ \A q \in Reqs : q # r => work'[q] = work[q]
  BY <1>0 DEF Moved
<1>2. row' \in SettingsRow /\ row'.enabled = (row'.id # None) /\ row'.id = id
  BY <1>0 DEF SettingsRow, WorkRow
<1>3. stray' \subseteq Boxes
  BY <1>0 DEF T!Overwritten, BoxRow
<1>4. T!TunnelTypeOK'
  BY <1>0, <1>1, <1>2, <1>3 DEF T!TunnelTypeOK, BoxRow, SettingsRow, WorkRow
<1>5. TunnelKnown'
  <2> SUFFICES ASSUME box.id # None, id # box.id, box.id \notin stray'
               PROVE  \E q \in Reqs : work'[q].pc = "record" /\ work'[q].id = box.id
    BY <1>2 DEF TunnelKnown, T!TunnelKnown
  <2>1. row.id # box.id
    BY DEF T!Overwritten
  <2>2. PICK q \in Reqs : work[q].pc = "record" /\ work[q].id = box.id
    BY <2>1 DEF TunnelInv, TunnelKnown, T!TunnelKnown
  <2> QED  BY <1>1, <2>2
<1>6. Given(box.id)' /\ Given(row.id)' /\ \A q \in Reqs : Given(work[q].id)'
  BY <1>1, <1>2 DEF TunnelInv, Given
<1>7. \A q \in Reqs : /\ work'[q].pc = "record" => work'[q].id # None
                      /\ work'[q].pc = "clear" => work'[q].id = None \/ work'[q].id # box'.id
  BY <1>1 DEF TunnelInv
<1> QED  BY <1>4, <1>5, <1>6, <1>7 DEF TunnelInv

LEMMA RecordKeeps ==
    ASSUME TunnelInv, NEW r \in Reqs, T!Record(r)
    PROVE  TunnelInv'
<1>1. Moved(r, T!Idle)
  BY DEF T!Record, T!Finish, Moved
<1>2. row' = [enabled |-> work[r].id # None, id |-> work[r].id]
  BY DEF TunnelInv, T!Record
<1> QED  BY <1>1, <1>2, IdleWork, RowWritten DEF T!Record

LEMMA ClearKeeps ==
    ASSUME TunnelInv, NEW r \in Reqs, T!Clear(r)
    PROVE  TunnelInv'
<1>0. work \in [Reqs -> WorkRow] /\ work[r] \in WorkRow
  BY TunnelTyped DEF TunnelInv
<1>1. PICK w \in WorkRow : Moved(r, w) /\ w.pc \notin {"record", "clear"} /\ w.id \in {None, work[r].id}
  <2>1. CASE work[r].op = "boot" /\ work[r].token # None
    <3> DEFINE w == [work[r] EXCEPT !.pc = "create"]
    <3>1. w \in WorkRow /\ w.pc = "create" /\ w.id = work[r].id
      BY <1>0 DEF WorkRow
    <3>2. Moved(r, w)
      BY <2>1 DEF T!Clear, T!To, Moved
    <3> HIDE DEF w
    <3> QED  BY <3>1, <3>2
  <2>2. CASE ~(work[r].op = "boot" /\ work[r].token # None)
    BY <2>2, IdleWork DEF T!Clear, T!Finish, Moved
  <2> QED  BY <2>1, <2>2
<1>2. row' = [enabled |-> None # None, id |-> None]
  BY DEF T!Clear
<1>3. work[r].pc = "clear" /\ (work[r].id = None \/ work[r].id # box.id)
  BY DEF T!Clear, TunnelInv
<1> QED  BY <1>1, <1>2, <1>3, RowWritten DEF T!Clear

\* The steps that only move their request, and a removal
LEMMA CallsKeep ==
    ASSUME TunnelInv, NEW r \in Reqs,
           \/ T!RecordFails(r) \/ T!ReadId(r) \/ T!Remove(r) \/ T!StatementFails(r)
           \/ T!Disable(r) \/ \E t \in Tokens : T!Enable(r, t)
    PROVE  TunnelInv'
<1>0. /\ box \in BoxRow /\ row \in SettingsRow /\ work \in [Reqs -> WorkRow] /\ work[r] \in WorkRow
      /\ spent \subseteq Boxes /\ stray \subseteq Boxes /\ kept \subseteq Boxes
      /\ Given(work[r].id) /\ Given(row.id) /\ Given(None)
      /\ (work[r].pc = "record" => work[r].id # None)
  BY TunnelTyped DEF TunnelInv, Given
<1>1. CASE T!RecordFails(r)
  <2>1. PICK w \in WorkRow : Moved(r, w) /\ w.pc \notin {"record", "clear"} /\ w.id \in {None, work[r].id}
    BY <1>0, <1>1, FailedMoves DEF T!RecordFails
  <2>2. stray' = stray \cup {work[r].id} /\ work[r].id \in Boxes /\ UNCHANGED <<box, row, spent, kept>>
    BY <1>0, <1>1 DEF T!RecordFails, WorkRow
  <2> QED  BY <1>0, <2>1, <2>2, QuietWork
<1>2. CASE T!ReadId(r)
  <2> DEFINE w == [work[r] EXCEPT !.id = row.id, !.pc = IF row.id = None THEN "clear" ELSE "remove"]
  <2>1. w \in WorkRow /\ w.id = row.id /\ w.pc = (IF row.id = None THEN "clear" ELSE "remove")
    BY <1>0 DEF WorkRow, SettingsRow
  <2>2. Moved(r, w) /\ work[r].pc = "read" /\ UNCHANGED <<box, row, spent, stray, kept>>
    BY <1>0, <1>2 DEF T!ReadId, Moved, WorkRow
  <2> HIDE DEF w
  <2> QED  BY <1>0, <2>1, <2>2, QuietWork
<1>3. CASE T!Remove(r)
  <2>1. CASE box.id = work[r].id /\ box' = T!NoBox /\ T!To(r, "clear")
    <3> DEFINE w == [work[r] EXCEPT !.pc = "clear"]
    <3>1. w \in WorkRow /\ w.id = work[r].id /\ w.pc = "clear" /\ box'.id = None
      BY <1>0, <2>1 DEF WorkRow, T!NoBox
    <3>2. Moved(r, w) /\ work[r].pc = "remove" /\ UNCHANGED <<row, spent, stray, kept>>
      BY <1>3, <2>1 DEF T!Remove, T!To, Moved
    <3> HIDE DEF w
    <3> QED  BY <1>0, <2>1, <3>1, <3>2, QuietWork
  <2>2. CASE T!Failed(r) /\ UNCHANGED box
    <3>1. PICK w \in WorkRow : Moved(r, w) /\ w.pc \notin {"record", "clear"} /\ w.id \in {None, work[r].id}
      BY <1>0, <2>2, FailedMoves
    <3>2. work[r].pc = "remove" /\ UNCHANGED <<row, spent, stray, kept>>
      BY <1>3 DEF T!Remove
    <3> QED  BY <1>0, <2>2, <3>1, <3>2, QuietWork
  <2> QED  BY <1>3, <2>1, <2>2 DEF T!Remove
<1>4. CASE T!StatementFails(r)
  <2>1. PICK w \in WorkRow : Moved(r, w) /\ w.pc \notin {"record", "clear"} /\ w.id \in {None, work[r].id}
    BY <1>0, <1>4, FailedMoves DEF T!StatementFails
  <2> QED  BY <1>0, <1>4, <2>1, QuietWork DEF T!StatementFails
<1>5. ASSUME NEW op \in {"enable", "disable"}, NEW pc \in {"create", "read"}, NEW t \in Tokens \cup {None},
             T!Start(r, op, pc, t), work[r].pc = "idle", UNCHANGED <<box, row, spent, stray, kept>>
      PROVE  TunnelInv'
  <2> DEFINE w == [pc |-> pc, op |-> op, token |-> t, id |-> None]
  <2>1. w \in WorkRow /\ w.id = None /\ w.pc \notin {"record", "clear"} /\ Moved(r, w)
    BY <1>5 DEF WorkRow, T!Start, Moved
  <2> HIDE DEF w
  <2> QED  BY <1>0, <1>5, <2>1, QuietWork
<1>6. CASE T!Disable(r)
  BY <1>5, <1>6 DEF T!Disable
<1>7. ASSUME NEW t \in Tokens, T!Enable(r, t) PROVE TunnelInv'
  BY <1>5, <1>7 DEF T!Enable
<1> QED  BY <1>1, <1>2, <1>3, <1>4, <1>6, <1>7

\* What the boot decides about the tunnel
LEMMA BootStatusKeeps ==
    ASSUME TunnelInv, NEW r \in Reqs, NEW t \in Tokens \cup {None}, T!BootStatus(r, t)
    PROVE  TunnelInv'
<1>0. /\ box \in BoxRow /\ row \in SettingsRow /\ work \in [Reqs -> WorkRow] /\ work[r] \in WorkRow
      /\ spent \subseteq Boxes /\ stray \subseteq Boxes /\ Given(None)
      /\ work[r].pc = "idle" /\ UNCHANGED <<box, row, spent, stray>>
  BY TunnelTyped DEF TunnelInv, Given, T!BootStatus
<1>9. kept \subseteq Boxes /\ kept' \subseteq Boxes
  <2>1. T!Running => box.id \in Boxes
    BY <1>0 DEF T!Running, BoxRow
  <2>2. kept \subseteq Boxes
    BY TunnelTyped DEF TunnelInv
  <2> QED  BY <2>1, <2>2 DEF T!BootStatus
<1>1. ASSUME NEW pc \in {"create", "read", "failed"}, T!Start(r, "boot", pc, t)
      PROVE  TunnelInv'
  <2> DEFINE w == [pc |-> pc, op |-> "boot", token |-> t, id |-> None]
  <2>1. w \in WorkRow /\ w.id = None /\ w.pc \notin {"record", "clear"} /\ Moved(r, w)
    BY <1>1 DEF WorkRow, T!Start, Moved
  <2> HIDE DEF w
  <2> QED  BY <1>0, <1>9, <2>1, QuietWork
<1>2. ASSUME UNCHANGED work PROVE TunnelInv'
  BY <1>0, <1>9, <1>2 DEF TunnelInv, T!TunnelTypeOK, TunnelKnown, T!TunnelKnown, Given
<1> QED  BY <1>1, <1>2 DEF T!BootStatus

\* Docker, or somebody by hand, changes the container.
LEMMA BoxChangesKeep ==
    ASSUME TunnelInv, T!BoxChanges
    PROVE  TunnelInv'
<1>0. /\ box \in BoxRow /\ UNCHANGED <<row, work, spent, stray, kept>>
  BY TunnelTyped DEF TunnelInv, T!BoxChanges
<1>1. box' \in BoxRow /\ box'.id \in {None, box.id}
  <2>1. T!NoBox \in BoxRow /\ T!NoBox.id = None
    BY DEF T!NoBox, BoxRow
  <2>2. /\ [box EXCEPT !.running = ~box.running] \in BoxRow
        /\ [box EXCEPT !.running = ~box.running].id = box.id
    BY <1>0 DEF BoxRow
  <2> QED  BY <2>1, <2>2 DEF T!BoxChanges
<1>2. T!TunnelTypeOK'
  BY <1>0, <1>1, TunnelTyped DEF TunnelInv, T!TunnelTypeOK, BoxRow
<1>3. TunnelKnown' /\ Given(box.id)' /\ Given(row.id)'
  BY <1>0, <1>1 DEF TunnelInv, TunnelKnown, T!TunnelKnown, Given
<1>4. \A q \in Reqs : /\ Given(work[q].id)' /\ (work'[q].pc = "record" => work'[q].id # None)
                      /\ (work'[q].pc = "clear" => work'[q].id = None \/ work'[q].id # box'.id)
  BY <1>0, <1>1 DEF TunnelInv, Given
<1> QED  BY <1>2, <1>3, <1>4 DEF TunnelInv

\* Calls end, and nobody records what they made.
LEMMA CallsEnd ==
    ASSUME TunnelInv, work' \in [Reqs -> WorkRow], UNCHANGED <<box, row, spent, kept>>,
           stray \subseteq stray', stray' \subseteq Boxes,
           \A r \in Reqs : work'[r] \in {work[r], T!Idle},
           \A r \in Reqs : work[r].pc = "record" => work'[r] = work[r] \/ work[r].id \in stray'
    PROVE  TunnelInv'
<1>1. T!TunnelTypeOK'
  BY TunnelTyped DEF TunnelInv, T!TunnelTypeOK, WorkRow
<1>2. TunnelKnown'
  BY DEF TunnelInv, TunnelKnown, T!TunnelKnown
<1>3. Given(box.id)' /\ Given(row.id)' /\ \A q \in Reqs : Given(work[q].id)'
  BY IdleWork DEF TunnelInv, Given
<1>4. \A q \in Reqs : /\ (work'[q].pc = "record" => work'[q].id # None)
                      /\ (work'[q].pc = "clear" => work'[q].id = None \/ work'[q].id # box'.id)
  BY IdleWork DEF TunnelInv
<1> QED  BY <1>1, <1>2, <1>3, <1>4 DEF TunnelInv

LEMMA DroppedKeeps ==
    ASSUME TunnelInv, T!TunnelDropped
    PROVE  TunnelInv'
<1>1. work' \in [Reqs -> WorkRow] /\ \A r \in Reqs : work'[r] = T!Idle
  BY IdleWork DEF T!TunnelDropped
<1>2. \A r \in Reqs : work[r].pc = "record" => work[r].id \in Boxes /\ work[r].id \in stray'
  BY TunnelTyped DEF TunnelInv, T!TunnelDropped, WorkRow
<1>3. stray \subseteq stray' /\ stray' \subseteq Boxes
  BY <1>2, TunnelTyped DEF TunnelInv, T!TunnelDropped
<1> QED  BY <1>1, <1>2, <1>3, CallsEnd DEF T!TunnelDropped

LEMMA TunnelInitInv == T!TunnelInit => TunnelInv
<1> SUFFICES ASSUME T!TunnelInit PROVE TunnelInv
  OBVIOUS
<1>1. T!NoBox \in BoxRow /\ T!NoBox.id = None /\ row \in SettingsRow /\ row.enabled = (row.id # None)
  BY DEF T!NoBox, BoxRow, SettingsRow, T!TunnelInit
<1>2. \A r \in Reqs : work[r] = T!Idle
  BY DEF T!TunnelInit
<1> QED
  BY <1>1, <1>2, IdleWork, TunnelTyped DEF TunnelInv, T!TunnelInit, TunnelKnown, T!TunnelKnown, Given

-----------------------------------------------------------------------------
(* The update. As long as nothing raced, a unit that is up is the one the  *)
(* state file calls running, and no handler is about to start another.     *)

FileRow == [status : {"idle", "running", "success", "failed", "unknown"}, unit : S!Units \cup {None}]
CallRow == [pc : {"idle", "check", "heal", "ask", "write", "launch"}, unit : S!Units \cup {None}]
RunningAs(u) == [status |-> "running", unit |-> u]

Alone ==
    /\ \A u \in S!Units : S!Up(u) => file = RunningAs(u)
    /\ \A c \in Calls : S!Applying(c) =>
         /\ \A d \in Calls : S!Applying(d) => c = d
         /\ \A u \in S!Units : ~S!Up(u)
         /\ call[c].unit \in S!Units
         /\ call[c].pc = "launch" => file = RunningAs(call[c].unit)

UpdateInv == S!UpdateTypeOK /\ (raced \/ Alone)

LEMMA UpdateTyped ==
    S!UpdateTypeOK <=> /\ file \in FileRow /\ unit \in [S!Units -> {"off", "pull", "deploy", "report"}]
                       /\ call \in [Calls -> CallRow] /\ second \in S!Units /\ raced \in BOOLEAN
  BY DEF S!UpdateTypeOK, FileRow, CallRow

LEMMA UnitsAreUnits == \A u \in S!Units : u # None /\ u \in Nat
  BY PlatformAssumption DEF S!UpdateAssumption, S!Units

LEMMA QuietRow == S!Quiet \in CallRow /\ S!Quiet.pc = "idle"
  BY DEF S!Quiet, CallRow

LEMMA CallMoves ==
    ASSUME call \in [Calls -> CallRow], NEW c \in Calls, NEW x \in CallRow, call' = [call EXCEPT ![c] = x]
    PROVE  call' \in [Calls -> CallRow] /\ call'[c] = x /\ \A d \in Calls : d # c => call'[d] = call[d]
  OBVIOUS

\* A handler that only reads, or that ends without having started anything
LEMMA ReaderKeeps ==
    ASSUME UpdateInv, NEW c \in Calls, NEW x \in CallRow, call' = [call EXCEPT ![c] = x],
           x.pc \notin {"write", "launch"}, UNCHANGED <<file, unit, raced>>, second' \in S!Units
    PROVE  UpdateInv'
<1>1. /\ call' \in [Calls -> CallRow] /\ call'[c] = x
      /\ \A d \in Calls : d # c => call'[d] = call[d]
  BY UpdateTyped DEF UpdateInv
<1>2. S!UpdateTypeOK'
  BY <1>1 DEF UpdateInv, S!UpdateTypeOK, CallRow
<1>3. raced' \/ Alone'
  BY <1>1 DEF UpdateInv, Alone, S!Up, S!Applying
<1> QED  BY <1>2, <1>3 DEF UpdateInv

LEMMA HealKeeps ==
    ASSUME UpdateInv, NEW c \in Calls, S!Heal(c)
    PROVE  UpdateInv'
<1>0. /\ file \in FileRow /\ unit \in [S!Units -> {"off", "pull", "deploy", "report"}]
      /\ call \in [Calls -> CallRow] /\ second \in S!Units /\ raced \in BOOLEAN
      /\ call[c] \in CallRow /\ call' = [call EXCEPT ![c] = S!Quiet]
      /\ file' = [status |-> "unknown", unit |-> call[c].unit] /\ UNCHANGED <<unit, second>>
  BY UpdateTyped DEF UpdateInv, S!Heal, S!Done
<1>1. /\ call' \in [Calls -> CallRow] /\ call'[c].pc = "idle"
      /\ \A d \in Calls : d # c => call'[d] = call[d]
  BY <1>0, QuietRow
<1>2. file' \in FileRow /\ raced' \in BOOLEAN
  BY <1>0 DEF FileRow, CallRow, S!Heal
<1>3. S!UpdateTypeOK'
  BY <1>0, <1>1, <1>2 DEF S!UpdateTypeOK, FileRow, CallRow
<1>4. ASSUME ~raced' PROVE Alone'
  <2>1. /\ ~raced /\ file = RunningAs(call[c].unit) /\ ~S!Up(call[c].unit)
        /\ \A d \in Calls : call[d].pc # "launch"
    BY <1>4 DEF S!Heal, RunningAs
  <2>2. \A u \in S!Units : ~S!Up(u)
    BY <2>1 DEF UpdateInv, Alone, RunningAs
  <2> QED  BY <1>0, <1>1, <2>1, <2>2 DEF UpdateInv, Alone, S!Up, S!Applying
<1> QED  BY <1>3, <1>4 DEF UpdateInv

LEMMA CheckApplyKeeps ==
    ASSUME UpdateInv, NEW c \in Calls, S!CheckApply(c)
    PROVE  UpdateInv'
<1>0. /\ file \in FileRow /\ unit \in [S!Units -> {"off", "pull", "deploy", "report"}]
      /\ call \in [Calls -> CallRow] /\ second \in S!Units /\ raced \in BOOLEAN
      /\ call[c].pc = "ask" /\ UNCHANGED <<file, unit>>
  BY UpdateTyped DEF UpdateInv, S!CheckApply
<1>1. CASE S!Up(call[c].unit)
  <2>1. call' = [call EXCEPT ![c] = S!Quiet] /\ UNCHANGED <<second, raced>>
    BY <1>1 DEF S!CheckApply, S!Done
  <2>2. /\ call' \in [Calls -> CallRow] /\ call'[c].pc = "idle"
        /\ \A d \in Calls : d # c => call'[d] = call[d]
    BY <1>0, <2>1, QuietRow
  <2>3. S!UpdateTypeOK'
    BY <1>0, <2>1, <2>2 DEF S!UpdateTypeOK, FileRow, CallRow
  <2>4. ASSUME ~raced' PROVE Alone'
    BY <1>0, <2>1, <2>2, <2>4 DEF UpdateInv, Alone, S!Up, S!Applying
  <2> QED  BY <2>3, <2>4 DEF UpdateInv
<1>2. CASE ~S!Up(call[c].unit)
  <2>0. S!Goes(c)
    BY <1>2 DEF S!CheckApply
  <2>1. PICK soon \in second .. MaxSecond : S!CallTo(c, "write", soon) /\ second' = soon
    BY <2>0 DEF S!Goes
  <2>2. soon \in S!Units
    BY <1>0, <2>1, PlatformAssumption DEF S!UpdateAssumption, S!Units
  <2> DEFINE x == [pc |-> "write", unit |-> soon]
  <2>3. x \in CallRow /\ x.pc = "write" /\ x.unit = soon /\ call' = [call EXCEPT ![c] = x]
    BY <2>1, <2>2 DEF CallRow, S!CallTo
  <2> HIDE DEF x
  <2>4. /\ call' \in [Calls -> CallRow] /\ call'[c] = x
        /\ \A d \in Calls : d # c => call'[d] = call[d]
    BY <1>0, <2>3
  <2>5. S!UpdateTypeOK'
    BY <1>0, <2>0, <2>1, <2>2, <2>4 DEF S!Goes, S!UpdateTypeOK, FileRow, CallRow
  <2>6. ASSUME ~raced' PROVE Alone'
    <3>1. Alone /\ S!RunningUnit = call[c].unit /\ \A d \in Calls : ~S!Applying(d)
      BY <1>0, <2>0, <2>6 DEF S!Goes, UpdateInv
    <3>2. \A u \in S!Units : ~S!Up(u)
      BY <1>2, <3>1 DEF Alone, RunningAs, S!RunningUnit
    <3> QED  BY <1>0, <2>2, <2>3, <2>4, <3>1, <3>2 DEF Alone, S!Up, S!Applying
  <2> QED  BY <2>5, <2>6 DEF UpdateInv
<1> QED  BY <1>1, <1>2

LEMMA WriteKeeps ==
    ASSUME UpdateInv, NEW c \in Calls, S!WriteState(c)
    PROVE  UpdateInv'
<1>0. /\ file \in FileRow /\ unit \in [S!Units -> {"off", "pull", "deploy", "report"}]
      /\ call \in [Calls -> CallRow] /\ second \in S!Units /\ raced \in BOOLEAN
      /\ call[c] \in CallRow /\ call[c].pc = "write" /\ UNCHANGED <<unit, second, raced>>
  BY UpdateTyped DEF UpdateInv, S!WriteState
<1>1. CASE file' = RunningAs(call[c].unit) /\ S!CallTo(c, "launch", call[c].unit)
  <2> DEFINE x == [pc |-> "launch", unit |-> call[c].unit]
  <2>1. x \in CallRow /\ x.pc = "launch" /\ x.unit = call[c].unit /\ call' = [call EXCEPT ![c] = x]
    BY <1>0, <1>1 DEF CallRow, S!CallTo
  <2> HIDE DEF x
  <2>2. /\ call' \in [Calls -> CallRow] /\ call'[c] = x
        /\ \A d \in Calls : d # c => call'[d] = call[d]
    BY <1>0, <2>1
  <2>3. file' \in FileRow
    BY <1>0, <1>1 DEF FileRow, CallRow, RunningAs
  <2>4. S!UpdateTypeOK'
    BY <1>0, <2>2, <2>3 DEF S!UpdateTypeOK, FileRow, CallRow
  <2>5. ASSUME ~raced PROVE Alone'
    BY <1>0, <1>1, <2>1, <2>2, <2>5 DEF UpdateInv, Alone, S!Up, S!Applying
  <2> QED  BY <1>0, <2>4, <2>5 DEF UpdateInv
<1>2. CASE S!Done(c) /\ UNCHANGED file
  BY <1>0, <1>2, QuietRow, ReaderKeeps DEF S!Done
<1> QED  BY <1>1, <1>2 DEF S!WriteState, RunningAs

LEMMA LaunchKeeps ==
    ASSUME UpdateInv, NEW c \in Calls, S!Launch(c)
    PROVE  UpdateInv'
<1> DEFINE u == call[c].unit
<1>0. /\ file \in FileRow /\ unit \in [S!Units -> {"off", "pull", "deploy", "report"}]
      /\ call \in [Calls -> CallRow] /\ second \in S!Units /\ raced \in BOOLEAN
      /\ call[c] \in CallRow /\ call[c].pc = "launch" /\ UNCHANGED second
      /\ raced' = (raced \/ S!Up(u)) /\ call' = [call EXCEPT ![c] = S!Quiet]
  BY UpdateTyped DEF UpdateInv, S!Launch, S!Done
<1>1. /\ call' \in [Calls -> CallRow] /\ call'[c].pc = "idle"
      /\ \A d \in Calls : d # c => call'[d] = call[d]
  BY <1>0, QuietRow
<1>2. ASSUME ~raced
      PROVE  /\ \A d \in Calls : ~(S!Applying(d)')
             /\ u \in S!Units /\ file = RunningAs(u) /\ \A v \in S!Units : ~S!Up(v)
  <2>1. Alone /\ S!Applying(c)
    BY <1>0, <1>2 DEF UpdateInv, S!Applying
  <2> QED  BY <1>0, <1>1, <2>1 DEF Alone, S!Applying
<1>3. CASE unit' = [unit EXCEPT ![u] = "pull"] /\ UNCHANGED file
  <2>1. S!UpdateTypeOK'
    BY <1>0, <1>1, <1>3 DEF S!UpdateTypeOK, FileRow, CallRow
  <2>2. ASSUME ~raced' PROVE Alone'
    <3>1. ~raced
      BY <1>0, <2>2
    <3> QED  BY <1>0, <1>2, <1>3, <3>1 DEF Alone, S!Up
  <2> QED  BY <2>1, <2>2 DEF UpdateInv
<1>4. CASE file' = [status |-> "failed", unit |-> None] /\ UNCHANGED unit
  <2>1. S!UpdateTypeOK'
    BY <1>0, <1>1, <1>4 DEF S!UpdateTypeOK, FileRow, CallRow
  <2>2. ASSUME ~raced' PROVE Alone'
    <3>1. ~raced
      BY <1>0, <2>2
    <3> QED  BY <1>0, <1>2, <1>4, <3>1 DEF Alone, S!Up
  <2> QED  BY <2>1, <2>2 DEF UpdateInv
<1> QED  BY <1>3, <1>4 DEF S!Launch

\* The unit goes on, or writes its result and ends.
LEMMA UnitKeeps ==
    ASSUME UpdateInv, NEW u \in S!Units, UNCHANGED <<second, raced>>,
           \/ S!Pull(u) \/ S!Report(u) \/ S!Deploys(u)
    PROVE  UpdateInv'
<1>0. /\ file \in FileRow /\ unit \in [S!Units -> {"off", "pull", "deploy", "report"}]
      /\ call \in [Calls -> CallRow] /\ second \in S!Units /\ raced \in BOOLEAN
      /\ u # None /\ S!Up(u)
  BY UpdateTyped, UnitsAreUnits DEF UpdateInv, S!Pull, S!Report, S!Deploys, S!Up
<1>1. call' \in [Calls -> CallRow] /\ \A c \in Calls : call'[c] \in {call[c], S!Quiet}
  BY <1>0, QuietRow DEF S!Pull, S!Report, S!Deploys, S!AgentRestarts
<1>2. /\ unit' \in [S!Units -> {"off", "pull", "deploy", "report"}]
      /\ \A v \in S!Units : v # u => unit'[v] = unit[v]
  BY <1>0 DEF S!Pull, S!Report, S!Deploys
<1>3. file' \in FileRow /\ (file' = file \/ unit'[u] = "off")
  BY <1>0 DEF S!Pull, S!Report, S!Deploys, FileRow
<1>4. S!UpdateTypeOK'
  BY <1>0, <1>1, <1>2, <1>3 DEF S!UpdateTypeOK, FileRow, CallRow
<1>5. ASSUME ~raced PROVE Alone'
  <2>1. /\ \A c \in Calls : ~S!Applying(c)
        /\ \A v \in S!Units : S!Up(v) => v = u
    BY <1>0, <1>5 DEF UpdateInv, Alone, RunningAs
  <2>2. \A c \in Calls : ~(S!Applying(c)')
    BY <1>1, <2>1, QuietRow DEF S!Applying
  <2> QED  BY <1>0, <1>2, <1>3, <1>5, <2>1, <2>2 DEF UpdateInv, Alone, S!Up
<1> QED  BY <1>0, <1>4, <1>5 DEF UpdateInv

LEMMA RebootKeeps ==
    ASSUME UpdateInv, S!HostReboots
    PROVE  UpdateInv'
<1>0. /\ file \in FileRow /\ unit \in [S!Units -> {"off", "pull", "deploy", "report"}]
      /\ call \in [Calls -> CallRow] /\ second \in S!Units /\ raced \in BOOLEAN
      /\ UNCHANGED <<file, second, raced>>
  BY UpdateTyped DEF UpdateInv, S!HostReboots
<1>1. /\ call' \in [Calls -> CallRow] /\ \A c \in Calls : call'[c].pc = "idle"
      /\ unit' \in [S!Units -> {"off", "pull", "deploy", "report"}] /\ \A u \in S!Units : unit'[u] = "off"
  BY QuietRow DEF S!HostReboots, S!AgentRestarts
<1>2. S!UpdateTypeOK'
  BY <1>0, <1>1 DEF S!UpdateTypeOK, FileRow, CallRow
<1>3. Alone'
  BY <1>1 DEF Alone, S!Up, S!Applying
<1> QED  BY <1>2, <1>3 DEF UpdateInv

-----------------------------------------------------------------------------
(* The platform. The tunnel and the update only see the boot through the   *)
(* budget and through what ends them.                                      *)

BootTyped ==
    /\ boot \in [pc : {"off", "migrate", "tunnel", "tunnelling", "seeding", "up"},
                 began : 0 .. Budget]
    /\ env \in [token : Tokens \cup {None}, seed : Seeds \cup {None}]
    /\ version \in 0 .. Migrations /\ migrated \subseteq 1 .. Migrations
    /\ ran \in [1 .. Migrations -> Nat]

\* Once the boot has gone past the tunnel, it has no call on it in progress.
BootInv ==
    /\ BootTyped /\ MigratedOnce /\ budget \in 0 .. Budget
    /\ boot.pc = "seeding" => work[Boot].pc = "idle"

SoundInv == TunnelInv /\ UpdateInv /\ BootInv

\* What leaves the tunnel, or the update, alone
LEMMA TunnelStays == TunnelInv /\ UNCHANGED tunnelVars => TunnelInv'
  BY DEF TunnelInv, tunnelVars, T!TunnelTypeOK, TunnelKnown, T!TunnelKnown, Given

LEMMA UpdateStays == UpdateInv /\ UNCHANGED updateVars => UpdateInv'
  BY DEF UpdateInv, updateVars, S!UpdateTypeOK, Alone, S!Up, S!Applying

LEMMA BootStays ==
    BootInv /\ UNCHANGED bootVars /\ Spent /\ (boot.pc = "seeding" => work'[Boot] = work[Boot]) => BootInv'
  BY SpentTyped DEF BootInv, BootTyped, MigratedOnce, bootVars

LEMMA KeySound == SoundInv /\ KeySteps => SoundInv'
<1> SUFFICES ASSUME SoundInv, KeySteps PROVE SoundInv'
  OBVIOUS
<1>1. PICK r \in Reqs :
       \/ K!SeedUpdate(r) \/ K!Lock(r) \/ K!Insert(r) \/ K!Commit(r) \/ K!Answer(r)
       \/ K!Leave(r) \/ K!Fail(r) \/ K!Rotate(r) \/ K!RevokeKey(r)
       \/ \E k \in Keys : K!Validate(r, k)
  BY DEF KeySteps
<1>2. UNCHANGED <<tunnelVars, updateVars, bootVars>> /\ Spent
  BY KeyStepsStay
<1> QED  BY <1>2, TunnelStays, UpdateStays, BootStays DEF SoundInv, tunnelVars

LEMMA TunnelSound ==
    ASSUME SoundInv,
           \/ T!BoxChanges
           \/ \E r \in Reqs :
                 \/ T!Create(r) \/ T!Record(r) \/ T!RecordFails(r) \/ T!ReadId(r) \/ T!Remove(r)
                 \/ T!Clear(r) \/ T!StatementFails(r) \/ T!Disable(r) \/ \E t \in Tokens : T!Enable(r, t)
    PROVE  SoundInv'
<1>1. CASE T!BoxChanges
  <2>1. UNCHANGED <<work, updateVars, bootVars>> /\ Spent
    BY <1>1, BoxStays
  <2> QED  BY <1>1, <2>1, BoxChangesKeep, UpdateStays, BootStays DEF SoundInv
<1>2. ASSUME NEW r \in Reqs,
             \/ T!Create(r) \/ T!Record(r) \/ T!RecordFails(r) \/ T!ReadId(r) \/ T!Remove(r)
             \/ T!Clear(r) \/ T!StatementFails(r) \/ T!Disable(r) \/ \E t \in Tokens : T!Enable(r, t)
      PROVE  SoundInv'
  <2>1. TunnelInv'
    BY <1>2, CreateKeeps, RecordKeeps, ClearKeeps, CallsKeep DEF SoundInv
  <2>2. UNCHANGED <<updateVars, bootVars>> /\ Spent
    BY <1>2, TunnelStepsStay, Zenon DEF TunnelSteps
  <2>3. boot.pc = "seeding" => r # Boot
    BY <1>2 DEF SoundInv, BootInv, T!Create, T!Record, T!RecordFails, T!ReadId, T!Remove, T!Clear,
       T!StatementFails, T!Disable, T!Enable
  <2>4. work \in [Reqs -> WorkRow] /\ Boot \in Reqs
    BY TunnelTyped DEF SoundInv, TunnelInv, Reqs
  <2>5. r # Boot => work'[Boot] = work[Boot]
    <3>1. CASE T!Create(r) \/ T!Record(r) \/ T!RecordFails(r)
      BY <3>1, <2>4, Zenon DEF T!Create, T!Record, T!RecordFails, T!Finish, T!To, T!Failed
    <3>2. CASE T!ReadId(r) \/ T!Remove(r)
      BY <3>2, <2>4, Zenon DEF T!ReadId, T!Remove, T!Finish, T!To, T!Failed
    <3>3. CASE T!Clear(r) \/ T!StatementFails(r)
      BY <3>3, <2>4, Zenon DEF T!Clear, T!StatementFails, T!Finish, T!To, T!Failed
    <3>4. CASE T!Disable(r) \/ \E t \in Tokens : T!Enable(r, t)
      BY <3>4, <2>4, Zenon DEF T!Disable, T!Enable, T!Start
    <3> QED  BY <1>2, <3>1, <3>2, <3>3, <3>4, Zenon
  <2> QED  BY <2>1, <2>2, <2>3, <2>5, UpdateStays, BootStays DEF SoundInv
<1> QED  BY <1>1, <1>2

LEMMA UpdateSound ==
    ASSUME SoundInv,
           \/ \E c \in Calls : \/ S!Status(c) \/ S!CheckUnit(c) \/ S!Heal(c)
                               \/ S!Apply(c) \/ S!CheckApply(c) \/ S!WriteState(c) \/ S!Launch(c)
           \/ \E u \in S!Units : S!Pull(u) \/ S!Report(u)
    PROVE  SoundInv'
<1>1. UNCHANGED <<tunnelVars, bootVars>> /\ Spent
  BY UpdateStepsStay, Zenon DEF UpdateSteps
<1>2. ASSUME NEW c \in Calls, S!Status(c) \/ S!CheckUnit(c) \/ S!Apply(c) PROVE UpdateInv'
  <2>0. call \in [Calls -> CallRow] /\ file \in FileRow /\ call[c] \in CallRow /\ second' \in S!Units
    BY <1>2, UpdateTyped DEF SoundInv, UpdateInv, S!Status, S!CheckUnit, S!Apply
  <2>1. PICK x \in CallRow : call' = [call EXCEPT ![c] = x] /\ x.pc \notin {"write", "launch"}
    <3>1. ASSUME NEW pc \in {"check", "heal", "ask"}, NEW u \in S!Units \cup {None}
          PROVE  [pc |-> pc, unit |-> u] \in CallRow /\ [pc |-> pc, unit |-> u].pc = pc
      BY DEF CallRow
    <3>2. /\ file.unit \in S!Units \cup {None} /\ call[c].unit \in S!Units \cup {None}
          /\ S!RunningUnit \in S!Units \cup {None}
      BY <2>0 DEF FileRow, CallRow, S!RunningUnit
    <3> QED  BY <1>2, <3>1, <3>2, QuietRow DEF S!Status, S!CheckUnit, S!Apply, S!CallTo, S!Done
  <2> QED  BY <1>2, <2>0, <2>1, ReaderKeeps DEF SoundInv, S!Status, S!CheckUnit, S!Apply
<1>3. ASSUME NEW u \in S!Units, S!Pull(u) \/ S!Report(u) PROVE UpdateInv'
  BY <1>3, UnitKeeps DEF SoundInv, S!Pull, S!Report
<1>4. UpdateInv'
  BY <1>2, <1>3, HealKeeps, CheckApplyKeeps, WriteKeeps, LaunchKeeps DEF SoundInv
<1> QED  BY <1>1, <1>4, TunnelStays, BootStays DEF SoundInv, tunnelVars

\* The boot: migrations one by one, then the tunnel and the key.
LEMMA BootSound ==
    ASSUME SoundInv, Booting \/ BootFails
    PROVE  SoundInv'
<1>0. /\ BootTyped /\ budget \in 0 .. Budget /\ Migrations \in Nat /\ MigratedOnce
      /\ Boot \in Reqs /\ work \in [Reqs -> WorkRow] /\ env.token \in Tokens \cup {None}
  BY PlatformAssumption, TunnelTyped DEF SoundInv, BootInv, TunnelInv, Reqs, BootTyped
<1>1. UpdateInv'
  <2>1. UNCHANGED updateVars
    BY DEF Booting, Start, Migrate, Migrated, BootTunnel, BootKey, Listen, BootFails
  <2> QED  BY <2>1, UpdateStays DEF SoundInv
<1>2. CASE Start
  <2>1. BootTyped' /\ boot'.pc = "migrate" /\ MigratedOnce'
    BY <1>0, <1>2 DEF Start, BootTyped, MigratedOnce
  <2> QED  BY <1>0, <1>1, <1>2, <2>1, TunnelStays DEF SoundInv, BootInv, Start
<1>3. CASE Migrate
  <2>1. PICK m \in 1 .. version : /\ m \notin migrated /\ 1 .. m - 1 \subseteq migrated
                                  /\ ran' = [ran EXCEPT ![m] = @ + 1] /\ migrated' = migrated \cup {m}
    BY <1>3 DEF Migrate
  <2>2. m \in 1 .. Migrations /\ UNCHANGED <<boot, env, version, budget, tunnelVars>> /\ boot.pc = "migrate"
    BY <1>0, <1>3 DEF Migrate, BootTyped
  <2>3. BootTyped'
    BY <1>0, <2>1, <2>2 DEF BootTyped
  <2>4. MigratedOnce'
    BY <1>0, <2>1, <2>2 DEF BootTyped, MigratedOnce
  <2> QED  BY <1>0, <1>1, <2>2, <2>3, <2>4, TunnelStays DEF SoundInv, BootInv
<1>4. CASE Migrated
  <2>1. BootTyped' /\ boot'.pc = "tunnel" /\ MigratedOnce'
    BY <1>0, <1>4 DEF Migrated, BootTo, Resting, BootTyped, MigratedOnce
  <2> QED  BY <1>0, <1>1, <1>4, <2>1, TunnelStays DEF SoundInv, BootInv, Migrated, Resting
<1>5. CASE BootTunnel
  <2>1. BootTyped' /\ boot'.pc = "tunnelling" /\ MigratedOnce'
    BY <1>0, <1>5 DEF BootTunnel, BootTo, BootTyped, MigratedOnce
  <2>2. TunnelInv'
    BY <1>0, <1>5, BootStatusKeeps DEF BootTunnel, SoundInv
  <2>3. budget' \in 0 .. Budget
    BY <1>0, <1>5, SpentTyped DEF BootTunnel, T!BootStatus, T!Charged, Spent
  <2> QED  BY <1>1, <2>1, <2>2, <2>3 DEF SoundInv, BootInv
<1>6. CASE BootKey
  <2>1. BootTyped' /\ boot'.pc = "seeding" /\ MigratedOnce' /\ work[Boot].pc = "idle"
    BY <1>0, <1>6 DEF BootKey, BootTo, Resting, BootTyped, MigratedOnce
  <2>2. UNCHANGED tunnelVars /\ UNCHANGED budget
    BY <1>6 DEF BootKey, Resting
  <2> QED  BY <1>0, <1>1, <2>1, <2>2, TunnelStays DEF SoundInv, BootInv, tunnelVars
<1>7. CASE Listen
  <2>1. BootTyped' /\ boot'.pc = "up" /\ MigratedOnce' /\ work[Boot].pc # "record"
    BY <1>0, <1>7, PlatformAssumption DEF Listen, Resting, BootTyped, MigratedOnce, SoundInv, BootInv,
       S!UpdateAssumption
  <2>2. /\ work' \in [Reqs -> WorkRow] /\ work'[Boot] = T!Idle
        /\ \A r \in Reqs : r # Boot => work'[r] = work[r]
    BY <1>0, <1>7, IdleWork DEF Listen
  <2>3. TunnelInv'
    <3>1. UNCHANGED <<box, row, spent, stray, kept>> /\ stray \subseteq Boxes
      BY <1>7, TunnelTyped DEF Listen, SoundInv, TunnelInv
    <3> QED  BY <2>1, <2>2, <3>1, CallsEnd DEF SoundInv
  <2> QED  BY <1>0, <1>1, <1>7, <2>1, <2>3 DEF SoundInv, BootInv, Listen, Resting
<1>8. CASE BootFails
  <2>1. BootTyped' /\ boot'.pc = "off" /\ MigratedOnce' /\ budget' \in 0 .. Budget
    BY <1>0, <1>8, SpentTyped, PlatformAssumption DEF S!UpdateAssumption, BootFails, Down, Charged, Spent, BootTyped, MigratedOnce
  <2> QED  BY <1>1, <1>8, <2>1, TunnelStays DEF SoundInv, BootInv, BootFails
<1> QED  BY <1>2, <1>3, <1>4, <1>5, <1>6, <1>7, <1>8 DEF Booting

\* A crash, setup.sh, an update or a reboot
LEMMA EndingSound ==
    ASSUME SoundInv, Crash \/ Setup \/ HostReboots \/ \E u \in S!Units : Deploy(u)
    PROVE  SoundInv'
<1>0. BootTyped /\ budget \in 0 .. Budget /\ MigratedOnce /\ Migrations \in Nat
  BY PlatformAssumption DEF SoundInv, BootInv
<1>1. TunnelInv'
  BY DroppedKeeps DEF SoundInv, Crash, Setup, HostReboots, Deploy, Ended
<1>2. UpdateInv'
  <2>1. ASSUME UNCHANGED updateVars PROVE UpdateInv'
    BY <2>1, UpdateStays DEF SoundInv
  <2>2. ASSUME NEW u \in S!Units, Deploy(u) PROVE UpdateInv'
    <3>1. S!Deploys(u) /\ UNCHANGED <<second, raced>>
      BY <2>2 DEF Deploy, S!Deploys
    <3> QED  BY <3>1, UnitKeeps DEF SoundInv
  <2>3. ASSUME HostReboots PROVE UpdateInv'
    BY <2>3, RebootKeeps DEF HostReboots, SoundInv
  <2> QED  BY <2>1, <2>2, <2>3 DEF Crash, Setup
<1>3. /\ boot' = [pc |-> "off", began |-> 0] /\ UNCHANGED <<migrated, ran>> /\ Spent
      /\ version' \in {version, Migrations}
  BY DEF Crash, Setup, HostReboots, Deploy, Down, Charged, S!HostReboots, S!Charged, Spent
<1>4. env' \in [token : Tokens \cup {None}, seed : Seeds \cup {None}]
  <2>1. ASSUME Setup PROVE env' \in [token : Tokens \cup {None}, seed : Seeds \cup {None}]
    BY <2>1 DEF Setup, Envs
  <2> QED  BY <1>0, <2>1 DEF Crash, HostReboots, Deploy, BootTyped
<1>5. BootTyped' /\ boot'.pc = "off"
  BY <1>0, <1>3, <1>4, PlatformAssumption DEF BootTyped, S!UpdateAssumption
<1>6. MigratedOnce'
  BY <1>0, <1>3, <1>5 DEF MigratedOnce
<1> QED  BY <1>0, <1>1, <1>2, <1>3, <1>5, <1>6, SpentTyped DEF SoundInv, BootInv

LEMMA SoundStep == SoundInv /\ [Next]_vars => SoundInv'
<1> SUFFICES ASSUME SoundInv, [Next]_vars PROVE SoundInv'
  OBVIOUS
<1>1. CASE UNCHANGED vars
  <2>1. UNCHANGED <<tunnelVars, updateVars, bootVars, budget, work>>
    BY <1>1 DEF vars, tunnelVars
  <2> QED  BY <2>1, TunnelStays, UpdateStays, BootStays DEF SoundInv, Spent
<1>2. CASE OtherSteps
  BY <1>2, TunnelSound, UpdateSound DEF OtherSteps
<1> QED  BY <1>1, <1>2, KeySound, BootSound, EndingSound DEF Next, KeySteps, OtherSteps

LEMMA SoundInit == Init => SoundInv
<1> SUFFICES ASSUME Init PROVE SoundInv
  OBVIOUS
<1>1. TunnelInv
  BY TunnelInitInv DEF Init
<1>2. UpdateInv
  <2>1. file \in FileRow /\ \A u \in S!Units : ~S!Up(u)
    BY DEF Init, S!UpdateInit, FileRow, S!Up
  <2>2. second \in S!Units /\ raced \in BOOLEAN
    <3>1. 0 \in S!Units
      BY PlatformAssumption DEF S!Units, S!UpdateAssumption
    <3>2. second = 0 /\ raced \in BOOLEAN
      BY DEF Init, S!UpdateInit
    <3> QED  BY <3>1, <3>2
  <2>3. call \in [Calls -> CallRow] /\ \A c \in Calls : call[c].pc = "idle"
    BY QuietRow DEF Init, S!UpdateInit
  <2>4. unit \in [S!Units -> {"off", "pull", "deploy", "report"}]
    BY DEF Init, S!UpdateInit
  <2> QED  BY <2>1, <2>2, <2>3, <2>4, UpdateTyped DEF UpdateInv, Alone, S!Applying
<1>3. BootInv
  <2>1. budget \in 0 .. Budget /\ 0 \in 0 .. Budget /\ Migrations \in Nat
    BY PlatformAssumption DEF Init, S!UpdateAssumption
  <2>2. env \in [token : Tokens \cup {None}, seed : Seeds \cup {None}]
    BY DEF Init, Envs
  <2> QED  BY <2>1, <2>2 DEF Init, BootInv, BootTyped, MigratedOnce
<1> QED  BY <1>1, <1>2, <1>3 DEF SoundInv

\* The row knows the tunnel, one update runs at a time and every migration takes
\* effect once: whatever boots, crashes, updates and requests come together.
THEOREM SoundWhateverBoots == Spec => []PlatformSound
<1>1. Spec => []SoundInv
  BY SoundInit, SoundStep, PTL DEF Spec
<1>2. Spec => []K!KeyTypeOK
  BY PlatformImplementsKeys, KeysTyped, PTL
<1>3. SoundInv /\ K!KeyTypeOK => PlatformSound
  <2> SUFFICES ASSUME SoundInv, K!KeyTypeOK PROVE PlatformSound
    OBVIOUS
  <2>1. TypeOK
    BY DEF SoundInv, TunnelInv, UpdateInv, BootInv, BootTyped, TypeOK
  <2>2. OneUpdate
    <3> SUFFICES ASSUME NEW u \in S!Units, NEW v \in S!Units, S!Up(u), S!Up(v), u # v PROVE raced
      BY DEF OneUpdate, S!OneUpdate
    <3>1. ~raced => u = v
      BY DEF SoundInv, UpdateInv, Alone, RunningAs
    <3> QED  BY <3>1
  <2> QED  BY <2>1, <2>2 DEF PlatformSound, SoundInv, TunnelInv, BootInv
<1> QED  BY <1>1, <1>2, <1>3, PTL

-----------------------------------------------------------------------------
(* The boot follows .env. While it runs the API does not listen, so nobody *)
(* but the boot has a call or a transaction in progress; if it also meets  *)
(* no fault and no change of the container, each of its steps leaves it on *)
(* the way to the tunnel and the key that .env asks for.                   *)

Undisturbed == budget = boot.began

BootAlone ==
    /\ boot.pc # "up" => \A r \in Users : work[r].pc = "idle" /\ tx[r].pc = "idle"
    /\ boot.pc \in {"off", "migrate", "tunnel"} => work[Boot].pc = "idle"
    /\ boot.pc \notin {"seeding", "up"} => tx[Boot].pc = "idle"
    /\ boot.pc \notin {"off", "up"} => budget <= boot.began

\* The call of the boot on the tunnel
Steered(w) ==
    /\ w.pc \in {"create", "record", "read", "remove", "clear"} => w.op = "boot" /\ w.token = env.token
    /\ w.pc \in {"create", "record"} => env.token # None
    /\ w.pc = "idle" => T!Follows(env.token)
    /\ w.pc = "create" => box.id = None \/ box.id \in stray
    /\ w.pc = "record" => box.id = w.id /\ box.running /\ box.token = env.token
    /\ w.pc = "read" => row.enabled
    /\ w.pc = "remove" => w.id = row.id /\ row.enabled
    /\ w.pc = "clear" => box.id = None

\* The transaction of the boot on the key
Seeded(t) ==
    /\ t.pc \in {"idle", "update", "lock", "insert", "commit"}
    /\ t.pc = "idle" => key[env.seed] # "unborn"
    /\ t.pc # "idle" => t.op = "seed" /\ t.key = env.seed
    /\ t.pc = "lock" => t.saw = K!Active
    /\ t.pc = "insert" => t.ends = K!Active

OnTheWay ==
    /\ boot.pc = "tunnelling" => Steered(work[Boot])
    /\ boot.pc = "seeding" =>
         /\ T!Follows(env.token)
         /\ env.seed # None => Seeded(tx[Boot])

PathInv == BootAlone /\ (Undisturbed => OnTheWay)

LEMMA BootIsUp == boot'.pc = "up" => PathInv'
  BY DEF PathInv, BootAlone, OnTheWay

\* What costs budget disturbs the boot.
LEMMA Disturbs ==
    ASSUME SoundInv, PathInv, boot.pc \notin {"off", "up"}, UNCHANGED boot, Spent
    PROVE  budget' <= boot'.began /\ (Undisturbed' => Undisturbed /\ UNCHANGED budget)
  BY PlatformAssumption DEF SoundInv, BootInv, BootTyped, PathInv, BootAlone, Spent, Undisturbed, S!UpdateAssumption

\* A step of an update or of nobody
LEMMA ElsewhereOnPath ==
    ASSUME SoundInv, PathInv, UNCHANGED <<keyVars, tunnelVars, bootVars>>, Spent
    PROVE  PathInv'
<1>1. UNCHANGED <<key, tx, box, row, work, stray, kept, boot, env>>
  BY DEF keyVars, tunnelVars, bootVars
<1>2. CASE boot.pc = "up"
  BY <1>1, <1>2, BootIsUp
<1>3. CASE boot.pc = "off"
  BY <1>1, <1>3 DEF PathInv, BootAlone, OnTheWay
<1>4. CASE boot.pc \notin {"off", "up"}
  <2>1. BootAlone'
    BY <1>1, <1>4, Disturbs DEF PathInv, BootAlone
  <2>2. Undisturbed' => OnTheWay'
    BY <1>1, <1>4, Disturbs DEF PathInv, OnTheWay, Steered, Seeded, T!Follows, T!Running, K!Active
  <2> QED  BY <2>1, <2>2 DEF PathInv
<1> QED  BY <1>2, <1>3, <1>4

\* The transaction of the boot goes on.
LEMMA KeyOnPath ==
    ASSUME SoundInv, PathInv, K!KeyTypeOK, KeySteps
    PROVE  PathInv'
<1>1. PICK r \in Reqs :
       \/ K!SeedUpdate(r) \/ K!Lock(r) \/ K!Insert(r) \/ K!Commit(r) \/ K!Answer(r)
       \/ K!Leave(r) \/ K!Fail(r) \/ K!Rotate(r) \/ K!RevokeKey(r)
       \/ \E k \in Keys : K!Validate(r, k)
  BY DEF KeySteps
<1>2. UNCHANGED <<tunnelVars, updateVars, bootVars>> /\ Spent
  BY KeyStepsStay
<1>3. UNCHANGED <<box, row, work, stray, kept, boot, env>>
  BY <1>2 DEF tunnelVars, bootVars
<1>4. CASE boot.pc = "up"
  BY <1>3, <1>4, BootIsUp
<1>5. CASE boot.pc # "up"
  <2>1. tx \in [Reqs -> TxRow] /\ Boot \in Reqs /\ tx[Boot] \in TxRow
    BY TxTyped DEF Reqs
  <2>2. tx[r].pc # "idle"
    BY <1>1, <1>5, Zenon DEF K!SeedUpdate, K!Lock, K!Insert, K!Commit, K!Answer, K!Leave, K!Fail, K!Rotate,
       K!RevokeKey, K!Validate
  <2>3. r = Boot /\ boot.pc = "seeding"
    BY <1>5, <2>2 DEF PathInv, BootAlone, Reqs
  <2>4. \A q \in Users : tx'[q] = tx[q]
    BY <1>1, <2>1, <2>3, PlatformAssumption DEF K!SeedUpdate, K!Lock, K!Insert, K!Commit, K!Answer,
       K!Leave, K!Fail, K!Rotate, K!RevokeKey, K!Validate, K!Snapshot, K!Finish, K!To, Reqs
  <2>5. BootAlone'
    BY <1>2, <1>3, <2>3, <2>4, Disturbs DEF PathInv, BootAlone
  <2>6. ASSUME Undisturbed', env.seed # None PROVE Seeded(tx[Boot])'
    <3>0. Seeded(tx[Boot]) /\ UNCHANGED budget /\ budget \in Nat
      BY <1>2, <1>3, <2>3, <2>6, Disturbs, PlatformAssumption DEF PathInv, OnTheWay, SoundInv, BootInv,
         S!UpdateAssumption
    <3>1. env'.seed = env.seed /\ env.seed \in Keys
      BY <1>3, <2>6, PlatformAssumption DEF SoundInv, BootInv, BootTyped, K!KeyAssumption
    <3>2. CASE K!SeedUpdate(Boot)
      <4> DEFINE t == [pc |-> "lock", op |-> "seed", key |-> tx[Boot].key, saw |-> K!Active, ends |-> {}]
      <4>1. tx'[Boot] = t /\ t.pc = "lock" /\ t.op = "seed" /\ t.key = env.seed /\ t.saw = K!Active
        BY <2>1, <3>0, <3>2 DEF K!SeedUpdate, K!Snapshot, Seeded
      <4>2. K!Active' = K!Active
        BY <3>2 DEF K!SeedUpdate, K!Active
      <4> HIDE DEF t
      <4> QED  BY <3>1, <4>1, <4>2 DEF Seeded
    <3>3. CASE K!Lock(Boot)
      <4>1. tx[Boot].op = "seed" /\ tx[Boot].key = env.seed /\ tx[Boot].saw \cap K!Active = K!Active
        BY <3>0, <3>3 DEF K!Lock, Seeded
      <4>2. tx' = [tx EXCEPT ![Boot].pc = "insert", ![Boot].ends = K!Active] /\ UNCHANGED key
        BY <3>3, <4>1 DEF K!Lock
      <4>3. /\ tx'[Boot].pc = "insert" /\ tx'[Boot].op = "seed" /\ tx'[Boot].key = env.seed
            /\ tx'[Boot].ends = K!Active
        BY <2>1, <4>1, <4>2 DEF TxRow
      <4>4. K!Active' = K!Active
        BY <4>2 DEF K!Active
      <4> QED  BY <3>1, <4>3, <4>4 DEF Seeded
    <3>4. CASE K!Insert(Boot)
      <4>1. tx[Boot].op = "seed" /\ tx[Boot].key = env.seed /\ tx[Boot].ends = K!Active /\ UNCHANGED key
        BY <3>0, <3>4 DEF K!Insert, Seeded
      <4>2. CASE K!Refused(Boot)
        <5>1. key[env.seed] # "unborn"
          BY <4>1, <4>2 DEF K!Refused
        <5>2. tx'[Boot].pc = "idle"
          BY <2>1, <3>4, <4>2, IdleRow DEF K!Insert, K!Finish
        <5> QED  BY <3>1, <4>1, <5>1, <5>2 DEF Seeded
      <4>3. CASE ~K!Refused(Boot)
        <5>1. tx'[Boot].pc = "commit" /\ tx'[Boot].op = "seed" /\ tx'[Boot].key = env.seed
          BY <2>1, <3>4, <4>1, <4>3 DEF K!Insert, K!To, TxRow
        <5> QED  BY <3>1, <5>1 DEF Seeded
      <4> QED  BY <4>2, <4>3
    <3>5. CASE K!Commit(Boot)
      <4>1. tx[Boot].op = "seed" /\ tx[Boot].key = env.seed
        BY <3>0, <3>5 DEF K!Commit, Seeded
      <4>2. tx'[Boot].pc = "idle"
        BY <2>1, <3>5, <4>1, IdleRow DEF K!Commit, K!Finish
      <4>3. key'[env.seed] = "active"
        BY <3>1, <3>5, <4>1 DEF K!Commit
      <4> QED  BY <3>1, <4>2, <4>3 DEF Seeded
    <3>6. ~(K!Answer(Boot) \/ K!Leave(Boot))
      BY <3>0 DEF K!Answer, K!Leave, Seeded
    <3>7. ~K!Fail(Boot)
      BY <3>0 DEF K!Fail, K!Charged
    <3>8. ~(K!Rotate(Boot) \/ K!RevokeKey(Boot) \/ \E k \in Keys : K!Validate(Boot, k))
      BY <1>5 DEF K!Rotate, K!RevokeKey, K!Validate
    <3> QED  BY <1>1, <2>3, <3>2, <3>3, <3>4, <3>5, <3>6, <3>7, <3>8
  <2>7. Undisturbed' => OnTheWay'
    BY <1>2, <1>3, <2>3, <2>6, Disturbs DEF PathInv, OnTheWay, T!Follows, T!Running
  <2> QED  BY <2>5, <2>7 DEF PathInv
<1> QED  BY <1>4, <1>5

\* The call of the boot on the tunnel goes on.
LEMMA TunnelOnPath ==
    ASSUME SoundInv, PathInv, NEW r \in Reqs,
           \/ T!Create(r) \/ T!Record(r) \/ T!RecordFails(r) \/ T!ReadId(r) \/ T!Remove(r)
           \/ T!Clear(r) \/ T!StatementFails(r) \/ T!Disable(r) \/ \E t \in Tokens : T!Enable(r, t)
    PROVE  PathInv'
<1>1. UNCHANGED <<keyVars, updateVars, bootVars>> /\ Spent
  BY DEF T!Create, T!Record, T!RecordFails, T!ReadId, T!Remove, T!Clear, T!StatementFails,
     T!Disable, T!Enable, T!Keep, T!Elsewhere, T!Charged, Spent
<1>2. UNCHANGED <<key, tx, boot, env>>
  BY <1>1 DEF keyVars, bootVars
<1>3. CASE boot.pc = "up"
  BY <1>2, <1>3, BootIsUp
<1>4. CASE boot.pc # "up"
  <2>1. /\ work \in [Reqs -> WorkRow] /\ Boot \in Reqs /\ work[Boot] \in WorkRow
        /\ row \in SettingsRow /\ row.enabled = (row.id # None)
    BY TunnelTyped DEF SoundInv, TunnelInv, Reqs
  <2>2. work[r].pc # "idle"
    BY <1>4 DEF T!Create, T!Record, T!RecordFails, T!ReadId, T!Remove, T!Clear, T!StatementFails,
       T!Disable, T!Enable
  <2>3. r = Boot /\ boot.pc = "tunnelling"
    BY <1>4, <2>2, TunnelTyped DEF PathInv, BootAlone, Reqs, SoundInv, BootInv, BootTyped
  <2>4. \A q \in Users : work'[q] = work[q]
    BY <2>1, <2>3, PlatformAssumption DEF T!Create, T!Record, T!RecordFails, T!ReadId, T!Remove, T!Clear,
       T!StatementFails, T!Disable, T!Enable, T!Finish, T!To, T!Start, T!Failed, Reqs
  <2>5. BootAlone'
    BY <1>1, <1>2, <2>3, <2>4, Disturbs DEF PathInv, BootAlone
  <2>6. ASSUME Undisturbed' PROVE Steered(work[Boot])'
    <3>0. /\ Steered(work[Boot]) /\ UNCHANGED budget /\ budget \in Nat /\ env' = env
          /\ work[Boot].op = "boot" /\ work[Boot].token = env.token
      <4>1. Steered(work[Boot]) /\ UNCHANGED budget /\ budget \in Nat
        BY <1>1, <1>2, <2>3, <2>6, Disturbs, PlatformAssumption DEF PathInv, OnTheWay, SoundInv, BootInv,
           S!UpdateAssumption
      <4>2. work[Boot].pc \in {"create", "record", "read", "remove", "clear"}
        BY <1>4, <2>3 DEF T!Create, T!Record, T!RecordFails, T!ReadId, T!Remove, T!Clear, T!StatementFails,
           T!Disable, T!Enable
      <4> QED  BY <1>2, <4>1, <4>2 DEF Steered
    <3>1. ASSUME NEW pc, pc \in {"create", "failed"}, work' = [work EXCEPT ![Boot].pc = pc],
                 pc = "create" => env.token # None /\ (box'.id = None \/ box'.id \in stray')
          PROVE  Steered(work[Boot])'
      <4>1. work'[Boot].pc = pc /\ work'[Boot].op = "boot" /\ work'[Boot].token = env.token
        BY <2>1, <3>0, <3>1 DEF WorkRow
      <4> QED  BY <3>0, <3>1, <4>1 DEF Steered
    <3>2. CASE T!Create(Boot)
      <4>1. work[Boot].pc = "create" /\ ~T!Charged
        BY <3>0, <3>2 DEF T!Create, T!Charged
      <4>2. CASE /\ T!NewBox(TRUE, work[Boot].token)
                 /\ work' = [work EXCEPT ![Boot].pc = "record", ![Boot].id = box'.id]
        <5>1. PICK n \in Boxes \ spent : box' = [id |-> n, running |-> TRUE, token |-> work[Boot].token]
          BY <4>2, NewBoxIsNew, TunnelTyped DEF SoundInv, TunnelInv
        <5>2. /\ work'[Boot].pc = "record" /\ work'[Boot].id = n /\ work'[Boot].op = "boot"
              /\ work'[Boot].token = env.token
          BY <2>1, <3>0, <4>2, <5>1 DEF WorkRow
        <5> QED  BY <3>0, <4>1, <5>1, <5>2 DEF Steered
      <4>3. CASE T!Failed(Boot) /\ UNCHANGED <<box, spent, stray>>
        BY <3>0, <3>1, <4>1, <4>3 DEF T!Failed, T!To
      <4> QED  BY <3>2, <4>1, <4>2, <4>3, Zenon DEF T!Create
    <3>3. CASE T!Record(Boot)
      <4>1. work'[Boot] = T!Idle /\ row' = [enabled |-> TRUE, id |-> work[Boot].id] /\ UNCHANGED box
        BY <2>1, <3>3 DEF T!Record, T!Finish
      <4>2. /\ env.token # None /\ box.id = work[Boot].id /\ box.running /\ work[Boot].id # None
            /\ box.token = env.token
        BY <2>1, <3>0, <3>3 DEF T!Record, Steered, SoundInv, TunnelInv
      <4> QED  BY <3>0, <4>1, <4>2, IdleWork DEF Steered, T!Follows, T!Running
    <3>4. CASE T!ReadId(Boot)
      <4>1. row.id # None
        BY <2>1, <3>0, <3>4 DEF T!ReadId, Steered
      <4>2. /\ work'[Boot].pc = "remove" /\ work'[Boot].id = row.id /\ work'[Boot].op = "boot"
            /\ work'[Boot].token = env.token /\ UNCHANGED row
        BY <2>1, <3>0, <3>4, <4>1 DEF T!ReadId, WorkRow
      <4> QED  BY <2>1, <3>0, <4>1, <4>2 DEF Steered
    <3>5. CASE T!Remove(Boot)
      <4>1. work[Boot].pc = "remove" /\ ~T!Charged /\ UNCHANGED <<row, stray>> /\ work[Boot].id = row.id
        BY <3>0, <3>5 DEF T!Remove, T!Charged, Steered
      <4>2. CASE box' = T!NoBox /\ T!To(Boot, "clear")
        <5>1. /\ work'[Boot].pc = "clear" /\ work'[Boot].op = "boot" /\ work'[Boot].token = env.token
              /\ box'.id = None
          BY <2>1, <3>0, <4>2 DEF T!To, WorkRow, T!NoBox
        <5> QED  BY <3>0, <5>1 DEF Steered
      <4>3. CASE box.id # work[Boot].id /\ T!Failed(Boot) /\ UNCHANGED box
        <5>1. box.id = None \/ box.id \in stray
          <6>1. \A q \in Reqs : work[q].pc # "record"
            BY <1>4, <2>3, <4>1 DEF PathInv, BootAlone, Reqs
          <6> QED  BY <4>1, <4>3, <6>1 DEF SoundInv, TunnelInv, TunnelKnown, T!TunnelKnown
        <5> QED  BY <3>0, <3>1, <4>1, <4>3, <5>1 DEF T!Failed, T!To
      <4> QED  BY <3>5, <4>1, <4>2, <4>3 DEF T!Remove
    <3>6. CASE T!Clear(Boot)
      <4>1. box.id = None /\ UNCHANGED box /\ row' = [enabled |-> FALSE, id |-> None]
        BY <3>0, <3>6 DEF T!Clear, Steered
      <4>2. CASE env.token # None
        BY <3>0, <3>1, <3>6, <4>1, <4>2 DEF T!Clear, T!To
      <4>3. CASE env.token = None
        <5>1. work'[Boot] = T!Idle
          BY <2>1, <3>0, <3>6, <4>3 DEF T!Clear, T!Finish
        <5> QED  BY <3>0, <4>1, <4>3, <5>1, IdleWork DEF Steered, T!Follows
      <4> QED  BY <4>2, <4>3
    <3>7. ~(T!RecordFails(Boot) \/ T!StatementFails(Boot) \/ T!Disable(Boot) \/ \E t \in Tokens : T!Enable(Boot, t))
      BY <3>0 DEF T!RecordFails, T!StatementFails, T!Disable, T!Enable, T!Charged
    <3> QED  BY <2>3, <3>2, <3>3, <3>4, <3>5, <3>6, <3>7
  <2> QED  BY <1>2, <2>3, <2>5, <2>6 DEF PathInv, OnTheWay
<1> QED  BY <1>3, <1>4

\* The container changes without the boot: that is a disturbance.
LEMMA BoxOnPath ==
    ASSUME SoundInv, PathInv, T!BoxChanges
    PROVE  PathInv'
<1>1. UNCHANGED <<key, tx, work, boot, env>> /\ budget > 0 /\ budget' = budget - 1
  BY DEF T!BoxChanges, T!Elsewhere, T!Charged, keyVars, bootVars
<1>2. CASE boot.pc = "up"
  BY <1>1, <1>2, BootIsUp
<1>3. CASE boot.pc = "off"
  BY <1>1, <1>3 DEF PathInv, BootAlone, OnTheWay
<1>4. CASE boot.pc \notin {"off", "up"}
  <2>1. budget' <= boot'.began /\ ~Undisturbed'
    BY <1>1, <1>4, Disturbs, PlatformAssumption DEF Spent, SoundInv, BootInv, S!UpdateAssumption
  <2> QED  BY <1>1, <1>4, <2>1 DEF PathInv, BootAlone
<1> QED  BY <1>2, <1>3, <1>4

\* The boot takes its first steps; it finds no call and no transaction in progress.
LEMMA BootOnPath ==
    ASSUME SoundInv, PathInv, K!KeyTypeOK, Booting \/ BootFails
    PROVE  PathInv'
<1>0. /\ Boot \in Reqs /\ work \in [Reqs -> WorkRow] /\ tx \in [Reqs -> TxRow] /\ Boot \notin Users
      /\ budget \in Nat /\ row.enabled = (row.id # None) /\ boot \in [pc : {"off", "migrate", "tunnel",
            "tunnelling", "seeding", "up"}, began : 0 .. Budget]
  BY PlatformAssumption, TunnelTyped, TxTyped DEF SoundInv, TunnelInv, BootInv, BootTyped, Reqs, S!UpdateAssumption
<1>1. CASE Start
  <2>1. UNCHANGED <<work, tx, budget>> /\ boot.pc = "off" /\ boot'.pc = "migrate" /\ boot'.began = budget
    BY <1>1 DEF Start, tunnelVars, keyVars
  <2> QED  BY <1>0, <2>1 DEF PathInv, BootAlone, OnTheWay
<1>2. CASE Migrate
  <2>1. UNCHANGED <<work, tx, budget, boot>> /\ boot.pc = "migrate"
    BY <1>2 DEF Migrate, tunnelVars, keyVars
  <2> QED  BY <1>0, <2>1 DEF PathInv, BootAlone, OnTheWay
<1>3. CASE Migrated
  <2>1. UNCHANGED <<work, tx, budget>> /\ boot.pc = "migrate" /\ boot'.pc = "tunnel" /\ boot'.began = boot.began
    BY <1>0, <1>3 DEF Migrated, BootTo, Resting, tunnelVars, keyVars
  <2> QED  BY <1>0, <2>1 DEF PathInv, BootAlone, OnTheWay
<1>4. CASE BootFails
  <2>1. UNCHANGED <<work, tx>> /\ boot.pc = "migrate" /\ boot'.pc = "off"
    BY <1>0, <1>4 DEF BootFails, Down, tunnelVars, keyVars
  <2> QED  BY <2>1 DEF PathInv, BootAlone, OnTheWay
<1>5. CASE BootTunnel
  <2>1. /\ UNCHANGED <<tx, key, env, box, row, stray>> /\ boot.pc = "tunnel" /\ Spent
        /\ boot'.pc = "tunnelling" /\ boot'.began = boot.began /\ T!BootStatus(Boot, env.token)
    BY <1>0, <1>5 DEF BootTunnel, BootTo, keyVars, T!BootStatus, T!Charged, Spent
  <2>2. \A q \in Users : work'[q] = work[q]
    BY <1>0, <2>1 DEF T!BootStatus, T!Start, Reqs
  <2>3. BootAlone' /\ (Undisturbed' => UNCHANGED budget)
    BY <1>0, <2>1, <2>2 DEF PathInv, BootAlone, Spent, Undisturbed
  <2>4. box.id = None \/ row.id = box.id \/ box.id \in stray
    BY <2>1 DEF SoundInv, TunnelInv, TunnelKnown, T!TunnelKnown, PathInv, BootAlone, Reqs
  <2>5. ASSUME UNCHANGED budget PROVE Steered(work[Boot])'
    <3>1. ASSUME NEW pc, pc \in {"create", "read"}, T!Start(Boot, "boot", pc, env.token)
          PROVE  work'[Boot].pc = pc /\ work'[Boot].op = "boot" /\ work'[Boot].token = env.token
      BY <1>0, <3>1 DEF T!Start
    <3>2. CASE env.token # None /\ ~row.enabled /\ T!Start(Boot, "boot", "create", env.token)
      BY <1>0, <2>1, <2>4, <3>1, <3>2 DEF Steered
    <3>3. CASE row.enabled /\ T!Start(Boot, "boot", "read", env.token)
      BY <2>1, <3>1, <3>3 DEF Steered
    <3>4. CASE /\ row.enabled /\ env.token # None /\ T!Running /\ UNCHANGED work
               /\ kept' = kept \cup (IF box.token = env.token THEN {} ELSE {box.id})
      <4>1. T!Follows(env.token)'
        BY <2>1, <3>4 DEF T!Follows, T!Running
      <4>2. work'[Boot].pc = "idle"
        BY <2>1, <3>4 DEF T!BootStatus
      <4> QED  BY <2>1, <4>1, <4>2 DEF Steered
    <3>5. CASE ~row.enabled /\ env.token = None /\ UNCHANGED work
      BY <1>0, <2>1, <2>4, <3>5 DEF Steered, T!Follows, T!BootStatus
    <3>6. ~T!Charged
      BY <1>0, <2>5 DEF T!Charged
    <3> QED  BY <2>1, <3>2, <3>3, <3>4, <3>5, <3>6 DEF T!BootStatus
  <2> QED  BY <2>1, <2>3, <2>5 DEF PathInv, OnTheWay
<1>6. CASE BootKey
  <2>1. /\ UNCHANGED <<work, key, budget, env, box, row, stray, kept>> /\ boot.pc = "tunnelling" /\ work[Boot].pc = "idle"
        /\ boot'.pc = "seeding" /\ boot'.began = boot.began /\ tx[Boot].pc = "idle"
    BY <1>0, <1>6 DEF BootKey, BootTo, Resting, keyVars, tunnelVars, K!Seed, PathInv, BootAlone
  <2>2. \A q \in Users : tx'[q] = tx[q]
    BY <1>0, <1>6 DEF BootKey, K!Seed, keyVars, Reqs
  <2>3. BootAlone'
    BY <1>0, <2>1, <2>2 DEF PathInv, BootAlone
  <2>4. Undisturbed' => T!Follows(env.token)'
    BY <2>1 DEF PathInv, OnTheWay, Undisturbed, Steered, T!Follows, T!Running
  <2>5. env.seed # None => Seeded(tx[Boot])'
    <3> SUFFICES ASSUME env.seed # None PROVE Seeded(tx[Boot])'
      OBVIOUS
    <3>1. CASE K!Active = {env.seed}
      <4>1. UNCHANGED tx /\ key[env.seed] = "active"
        BY <1>6, <3>1 DEF BootKey, K!Seed, K!Active
      <4> QED  BY <2>1, <4>1 DEF Seeded
    <3>2. CASE K!Active # {env.seed}
      <4>1. tx' = [tx EXCEPT ![Boot] = [K!Idle EXCEPT !.pc = "update", !.op = "seed", !.key = env.seed]]
        BY <1>6, <3>2 DEF BootKey, K!Seed
      <4>2. tx'[Boot].pc = "update" /\ tx'[Boot].op = "seed" /\ tx'[Boot].key = env.seed
        BY <1>0, <4>1 DEF K!Idle
      <4> QED  BY <2>1, <4>2 DEF Seeded
    <3> QED  BY <3>1, <3>2
  <2> QED  BY <2>1, <2>3, <2>4, <2>5 DEF PathInv, OnTheWay
<1>7. CASE Listen
  BY <1>7, BootIsUp DEF Listen
<1> QED  BY <1>1, <1>2, <1>3, <1>4, <1>5, <1>6, <1>7 DEF Booting

LEMMA EndingOnPath ==
    ASSUME SoundInv, PathInv, Crash \/ Setup \/ HostReboots \/ \E u \in S!Units : Deploy(u)
    PROVE  PathInv'
<1>1. Ended /\ boot' = [pc |-> "off", began |-> 0]
  BY DEF Crash, Setup, HostReboots, Deploy, Down
<1>2. boot'.pc = "off"
  BY <1>1
<1>3. \A r \in Reqs : work'[r].pc = "idle" /\ tx'[r].pc = "idle"
  BY <1>1 DEF Ended, K!KeysDropped, T!TunnelDropped, K!Idle, T!Idle
<1> QED  BY <1>2, <1>3 DEF PathInv, BootAlone, OnTheWay, Reqs

LEMMA PathStep == SoundInv /\ K!KeyTypeOK /\ PathInv /\ [Next]_vars => PathInv'
<1> SUFFICES ASSUME SoundInv, K!KeyTypeOK, PathInv, [Next]_vars PROVE PathInv'
  OBVIOUS
<1>1. CASE UNCHANGED vars
  BY <1>1, ElsewhereOnPath DEF vars, Spent
<1>2. ASSUME \/ \E c \in Calls : \/ S!Status(c) \/ S!CheckUnit(c) \/ S!Heal(c)
                                 \/ S!Apply(c) \/ S!CheckApply(c) \/ S!WriteState(c) \/ S!Launch(c)
             \/ \E u \in S!Units : S!Pull(u) \/ S!Report(u)
      PROVE  PathInv'
  <2>1. UNCHANGED <<keyVars, tunnelVars, bootVars>> /\ Spent
    BY <1>2, UpdateStepsStay, Zenon DEF UpdateSteps
  <2> QED  BY <2>1, ElsewhereOnPath
<1>3. CASE OtherSteps
  BY <1>2, <1>3, TunnelOnPath, BoxOnPath DEF OtherSteps
<1>4. CASE Booting \/ BootFails
  BY <1>4, BootOnPath
<1>5. CASE Crash \/ Setup \/ HostReboots \/ \E u \in S!Units : Deploy(u)
  BY <1>5, EndingOnPath
<1> QED  BY <1>1, <1>3, <1>4, <1>5, KeyOnPath DEF Next, KeySteps, OtherSteps

\* "rodar de novo sem mudar o .env não faz nada": a boot that nothing disturbs
\* ends with the tunnel and the key of .env, whatever it found.
THEOREM BootDoesWhatEnvSays == Spec => BootFollowsEnv
<1>1. Init => PathInv
  <2> SUFFICES ASSUME Init PROVE PathInv
    OBVIOUS
  <2>1. \A r \in Reqs : work[r].pc = "idle" /\ tx[r].pc = "idle"
    BY DEF Init, K!KeyInit, T!TunnelInit, K!Idle, T!Idle
  <2> QED  BY <2>1 DEF Init, PathInv, BootAlone, OnTheWay, Reqs
<1>2. Spec => []SoundInv
  BY SoundInit, SoundStep, PTL DEF Spec
<1>3. Spec => []K!KeyTypeOK
  BY PlatformImplementsKeys, KeysTyped, PTL
<1>4. SoundInv /\ PathInv /\ [Next]_vars =>
        [boot.pc = "seeding" /\ boot'.pc = "up" /\ budget = boot.began =>
           T!Follows(env.token) /\ (env.seed # None => key[env.seed] # "unborn")]_vars
  <2> SUFFICES ASSUME SoundInv, PathInv, [Next]_vars, boot.pc = "seeding", boot'.pc = "up", Undisturbed
               PROVE  T!Follows(env.token) /\ (env.seed # None => key[env.seed] # "unborn")
    BY DEF Undisturbed
  <2>1. Listen
    <3>0. boot \in [pc : {"off", "migrate", "tunnel", "tunnelling", "seeding", "up"},
                    began : 0 .. Budget] /\ boot' # boot
      BY DEF SoundInv, BootInv, BootTyped
    <3>1. ~KeySteps
      BY <3>0, KeyStepsStay DEF bootVars
    <3>2. ~OtherSteps
      BY <3>0, OtherStepsStay DEF bootVars
    <3>3. ~(BootFails \/ Crash \/ Setup \/ HostReboots \/ \E u \in S!Units : Deploy(u))
      BY <3>0 DEF BootFails, Crash, Setup, HostReboots, Deploy, Down
    <3>4. ~(Start \/ Migrate \/ Migrated \/ BootTunnel \/ BootKey)
      BY <3>0 DEF Start, Migrate, Migrated, BootTunnel, BootKey, BootTo
    <3> QED  BY <3>0, <3>1, <3>2, <3>3, <3>4 DEF Next, vars, bootVars, KeySteps, OtherSteps, Booting
  <2>2. tx[Boot].pc = "idle"
    BY <2>1 DEF Listen
  <2> QED  BY <2>2 DEF PathInv, OnTheWay, Seeded
<1> QED  BY <1>1, <1>2, <1>3, <1>4, PathStep, PTL DEF Spec, BootFollowsEnv

-----------------------------------------------------------------------------
(***************************************************************************)
(* The history of samples, for any number of servers, any retention and    *)
(* any length of a ring: SamplesKept.                                      *)
(*                                                                         *)
(* Two orders carry the argument. What the open transaction has selected   *)
(* is still what its condition selects, since a sample that arrives while  *)
(* the job runs is younger than the cutoff (JobInv); and every sample in   *)
(* an hourly row is older than every raw one (Ages).                       *)
(***************************************************************************)
\* What the transaction of the rollup has selected so far is what it would select now.
JobInv ==
    /\ job.pc # "idle" => /\ job.cutoff <= now - RawWindow
                          /\ job.hourlyCutoff <= now - HourlyWindow
    /\ \A x \in Series :
         /\ job.summed[x] = IF job.pc \in {"raw", "hourly"} \/ (job.pc = "server" /\ x = Platform)
                            THEN Old(x, job.cutoff) ELSE {}
         /\ job.swept[x] = IF job.pc = "hourly" THEN Old(x, job.cutoff) ELSE {}

\* A pass takes at most MaxLag, and no server on its list has a newer sample.
PassInv ==
    pass.todo # {} =>
      /\ pass.at <= now /\ now - pass.at <= MaxLag
      /\ \A s \in pass.todo :
           /\ \A p \in recorded[s] : p.at <= pass.at
           /\ \A i \in DOMAIN ring[s] : ring[s][i].at <= pass.at

\* Rings are in order of time, and hourly samples are older than raw ones.
RingInOrder(x) ==
    /\ \A i \in DOMAIN ring[x] : ring[x][i].at <= now
    /\ \A i, j \in DOMAIN ring[x] : i < j => ring[x][i].at <= ring[x][j].at

HoursInOrder(x) ==
    \A h \in Hours : \A p \in hourly[x][h] :
        HourOf(p) = h /\ p.at < now - RawWindow /\ \A q \in raw[x] : p.at < q.at

Ages ==
    \A x \in Series :
      /\ raw[x] \subseteq recorded[x] /\ \A p \in recorded[x] : p.at <= now
      /\ RingInOrder(x) /\ HoursInOrder(x)

\* The parts of SamplesKept that a step on one series can disturb
Raws(x) == \A p \in recorded[x] : p.at >= now - RawWindow => p \in raw[x]
Stays(x) ==
    \A p \in recorded[x] :
      \/ p \in raw[x] \/ p \in hourly[x][HourOf(p)]
      \/ \E q \in recorded[x] : HourOf(q) = HourOf(p) /\ q.at > p.at
      \/ HourOf(p) * Hour < now - HourlyWindow
Newest(x) ==
    ring[x] # <<>> =>
      \A p \in recorded[x] : p.at > ring[x][1].at => \E i \in DOMAIN ring[x] : ring[x][i] = p

StoreInv == /\ \A x \in Series : Raws(x) /\ Stays(x) /\ Newest(x)
            /\ GoneStaysGone

Typed == HistoryTypeOK /\ ring \in [Series -> Seq(Sample)]

Inv == Typed /\ JobInv /\ PassInv /\ Ages /\ StoreInv

-----------------------------------------------------------------------------
(* Hours, samples, rings *)

LEMMA Bounds ==
    /\ Hour \in Nat /\ Hour > 0 /\ RawWindow \in Nat /\ RawWindow > 0 /\ HourlyWindow \in Nat
    /\ MaxLen \in Nat /\ MaxLen > 0 /\ MaxLag \in Nat /\ End \in Nat /\ Events \in Nat
    /\ MaxLag < RawWindow /\ RawWindow < HourlyWindow
    /\ Platform \notin Servers /\ Values \subseteq Nat
  BY MetricAssumption

LEMMA Quotient ==
    ASSUME NEW a \in Nat, NEW b \in Nat, NEW d \in Nat, d > 0, a <= b
    PROVE  a \div d \in Nat /\ a \div d <= b \div d
<1> DEFINE q == a \div d
           r == b \div d
<1>1. /\ q \in Int /\ r \in Int
      /\ a = d * q + (a % d) /\ b = d * r + (b % d)
      /\ a % d \in 0 .. d - 1 /\ b % d \in 0 .. d - 1
  BY SMTT(30)
<1>2. ASSUME q < 0 PROVE FALSE
  <2>1. d * q <= d * (-1)
    BY <1>1, <1>2, SMTT(30)
  <2> QED  BY <1>1, <2>1
<1>3. ASSUME r < q PROVE FALSE
  <2>1. d * (r + 1) <= d * q
    BY <1>1, <1>3, SMTT(30)
  <2>2. d * (r + 1) = d * r + d
    BY <1>1
  <2> QED  BY <1>1, <2>1, <2>2
<1> QED  BY <1>1, <1>2, <1>3

LEMMA HourInHours == ASSUME NEW p \in Sample PROVE HourOf(p) \in Hours
<1>1. p.at \in Nat /\ End \in Nat /\ p.at <= End /\ Hour \in Nat /\ Hour > 0
  BY Bounds DEF Sample, Times
<1>2. p.at \div Hour \in Nat /\ p.at \div Hour <= End \div Hour /\ End \div Hour \in Nat
  BY <1>1, Quotient
<1> QED  BY <1>2 DEF HourOf, Hours

\* What append makes of a ring: the new point is the last, and at most the first is
\* dropped.
Pushed(s, p) == IF Len(Append(s, p)) > MaxLen THEN Tail(Append(s, p)) ELSE Append(s, p)

LEMMA Appended ==
    ASSUME NEW s \in Seq(Sample), Len(s) <= MaxLen, NEW p \in Sample
    PROVE  /\ Pushed(s, p) \in Seq(Sample) /\ Len(Pushed(s, p)) <= MaxLen
           /\ Len(Pushed(s, p)) >= 1 /\ Pushed(s, p)[Len(Pushed(s, p))] = p
           /\ \/ /\ Len(Pushed(s, p)) = Len(s) + 1
                 /\ \A i \in 1 .. Len(s) : Pushed(s, p)[i] = s[i]
              \/ /\ Len(Pushed(s, p)) = Len(s) /\ Len(s) >= 1
                 /\ \A i \in 1 .. Len(s) - 1 : Pushed(s, p)[i] = s[i + 1]
<1> DEFINE t == Pushed(s, p)
<1>1. /\ Append(s, p) \in Seq(Sample) /\ Len(Append(s, p)) = Len(s) + 1 /\ Len(s) \in Nat
      /\ \A i \in 1 .. Len(s) : Append(s, p)[i] = s[i]
      /\ Append(s, p)[Len(s) + 1] = p
  OBVIOUS
<1>2. CASE Len(s) + 1 > MaxLen
  <2>1. t = Tail(Append(s, p)) /\ Append(s, p) # <<>>
    BY <1>1, <1>2 DEF Pushed
  <2>2. t \in Seq(Sample) /\ Len(t) = Len(s) /\ \A i \in 1 .. Len(s) : t[i] = Append(s, p)[i + 1]
    BY <1>1, <2>1
  <2>3. Len(s) >= 1
    BY <1>1, <1>2, Bounds
  <2> QED  BY <1>1, <2>2, <2>3, SMTT(40)
<1>3. CASE ~(Len(s) + 1 > MaxLen)
  <2>1. t = Append(s, p)
    BY <1>1, <1>3 DEF Pushed
  <2> QED  BY <1>1, <1>3, <2>1, Bounds
<1> QED  BY <1>2, <1>3

-----------------------------------------------------------------------------
(* A sample arrives *)

\* What Record does to the table, whether the row is refused or not.
LEMMA Recorded ==
    ASSUME Typed, NEW x \in Series, NEW p \in Sample, Record(x, p)
    PROVE  /\ raw' \in [Series -> SUBSET Sample] /\ recorded' \in [Series -> SUBSET Sample]
           /\ \A y \in Series : y # x => raw'[y] = raw[y] /\ recorded'[y] = recorded[y]
           /\ \/ raw'[x] = raw[x] /\ recorded'[x] = recorded[x]
              \/ /\ raw'[x] = raw[x] \cup {p} /\ recorded'[x] = recorded[x] \cup ({p} \ raw[x])
                 /\ x \in running \cup {Platform}
<1>0. raw \in [Series -> SUBSET Sample] /\ recorded \in [Series -> SUBSET Sample]
  BY DEF Typed, HistoryTypeOK
<1>1. CASE UNCHANGED <<raw, recorded>>
  BY <1>0, <1>1
<1>2. CASE /\ x \in running \cup {Platform}
           /\ raw' = [raw EXCEPT ![x] = IF \E q \in @ : q.at = p.at THEN @ ELSE @ \cup {p}]
           /\ recorded' = [recorded EXCEPT ![x] = @ \cup (raw'[x] \ raw[x])]
  <2>1. raw'[x] = raw[x] \/ raw'[x] = raw[x] \cup {p}
    BY <1>0, <1>2
  <2>2. /\ raw' \in [Series -> SUBSET Sample]
        /\ \A y \in Series : y # x => raw'[y] = raw[y]
    BY <1>0, <1>2
  <2>3. recorded'[x] = recorded[x] \cup (raw'[x] \ raw[x])
    BY <1>0, <1>2
  <2>4. /\ recorded' \in [Series -> SUBSET Sample]
        /\ \A y \in Series : y # x => recorded'[y] = recorded[y]
    BY <1>0, <1>2, <2>1
  <2> QED  BY <1>2, <2>1, <2>2, <2>3, <2>4
<1> QED  BY <1>1, <1>2 DEF Record

\* The young sample p changes nothing of what was there before, whatever the job is doing.
LEMMA SampleArrives ==
    ASSUME Inv, NEW x \in Series, NEW p \in Sample, p.at <= now, now - p.at <= MaxLag,
           \A q \in recorded[x] : q.at <= p.at,
           \A i \in DOMAIN ring[x] : ring[x][i].at <= p.at,
           ring' = AppendPoint(x, p), Record(x, p), UNCHANGED <<now, running, hourly, job>>
    PROVE  /\ raw' \in [Series -> SUBSET Sample] /\ recorded' \in [Series -> SUBSET Sample]
           /\ ring' \in [Series -> Seq(Sample)] /\ \A y \in Series : Len(ring'[y]) <= MaxLen
           /\ \A y \in Series : y # x => recorded'[y] = recorded[y] /\ ring'[y] = ring[y]
           /\ JobInv' /\ Ages' /\ StoreInv'
<1>0. /\ now \in Nat /\ ring \in [Series -> Seq(Sample)] /\ Len(ring[x]) <= MaxLen
      /\ \A y \in Series : Len(ring[y]) <= MaxLen
      /\ raw \in [Series -> SUBSET Sample] /\ recorded \in [Series -> SUBSET Sample]
      /\ hourly \in [Series -> [Hours -> SUBSET Sample]]
      /\ job.cutoff \in Int /\ job.hourlyCutoff \in Int
      /\ \A q \in Sample : q.at \in Nat
  <2>1. Typed /\ HistoryTypeOK
    BY DEF Inv, Typed
  <2>2. now \in Nat /\ \A q \in Sample : q.at \in Nat
    BY <2>1, Bounds DEF HistoryTypeOK, Times, Sample
  <2>3. job.cutoff \in Int /\ job.hourlyCutoff \in Int
    BY <2>1 DEF HistoryTypeOK
  <2> QED  BY <2>1, <2>2, <2>3 DEF Typed, HistoryTypeOK
<1>1. /\ raw' \in [Series -> SUBSET Sample] /\ recorded' \in [Series -> SUBSET Sample]
      /\ \A y \in Series : y # x => raw'[y] = raw[y] /\ recorded'[y] = recorded[y]
      /\ \/ raw'[x] = raw[x] /\ recorded'[x] = recorded[x]
         \/ /\ raw'[x] = raw[x] \cup {p} /\ recorded'[x] = recorded[x] \cup ({p} \ raw[x])
            /\ x \in running \cup {Platform}
  BY Recorded DEF Inv
<1>2. /\ ring'[x] \in Seq(Sample) /\ Len(ring'[x]) <= MaxLen
      /\ Len(ring'[x]) >= 1 /\ ring'[x][Len(ring'[x])] = p
      /\ \/ Len(ring'[x]) = Len(ring[x]) + 1 /\ \A i \in 1 .. Len(ring[x]) : ring'[x][i] = ring[x][i]
         \/ /\ Len(ring'[x]) = Len(ring[x]) /\ Len(ring[x]) >= 1
            /\ \A i \in 1 .. Len(ring[x]) - 1 : ring'[x][i] = ring[x][i + 1]
  <2>1. ring'[x] = Pushed(ring[x], p)
    BY <1>0 DEF AppendPoint, Pushed
  <2>2. ring[x] \in Seq(Sample) /\ Len(ring[x]) <= MaxLen
    BY <1>0
  <2> DEFINE u == Pushed(ring[x], p)
  <2>3. /\ u \in Seq(Sample) /\ Len(u) <= MaxLen /\ Len(u) >= 1 /\ u[Len(u)] = p
        /\ \/ Len(u) = Len(ring[x]) + 1 /\ \A i \in 1 .. Len(ring[x]) : u[i] = ring[x][i]
           \/ /\ Len(u) = Len(ring[x]) /\ Len(ring[x]) >= 1
              /\ \A i \in 1 .. Len(ring[x]) - 1 : u[i] = ring[x][i + 1]
    BY <2>2, Appended
  <2> QED  BY <2>1, <2>3
<1>3. /\ ring' \in [Series -> Seq(Sample)]
      /\ \A y \in Series : y # x => ring'[y] = ring[y]
  BY <1>0, <1>2 DEF AppendPoint
<1>4. raw[x] \subseteq recorded[x] /\ p.at \in Nat /\ p.at > now - RawWindow
  BY <1>0, Bounds DEF Inv, Ages
<1>5. job.pc # "idle" => job.cutoff <= now - RawWindow
  BY DEF Inv, JobInv
<1>6. \A y \in Series : job.pc # "idle" => Old(y, job.cutoff)' = Old(y, job.cutoff)
  <2> SUFFICES ASSUME NEW y \in Series, job.pc # "idle"
               PROVE  {q \in raw'[y] : q.at < job.cutoff} = {q \in raw[y] : q.at < job.cutoff}
    BY DEF Old
  <2>1. ~(p.at < job.cutoff)
    BY <1>0, <1>4, <1>5, Bounds
  <2> QED  BY <1>1, <2>1
<1>7. JobInv'
  BY <1>6 DEF Inv, JobInv
<1>8. RingInOrder(x)'
  <2> DEFINE s == ring[x]
             t == ring'[x]
             n == Len(s)
  <2>0. n \in Nat /\ DOMAIN s = 1 .. n /\ Len(t) \in Nat /\ DOMAIN t = 1 .. Len(t)
    BY <1>0, <1>2
  <2>1. /\ \A i \in 1 .. n : s[i].at <= p.at /\ s[i].at \in Nat
        /\ \A i, j \in 1 .. n : i < j => s[i].at <= s[j].at
    <3>1. s \in Seq(Sample)
      BY <1>0
    <3>2. \A i \in 1 .. n : s[i] \in Sample
      BY <2>0, <3>1
    <3>3. \A i, j \in 1 .. n : i < j => s[i].at <= s[j].at
      BY <2>0 DEF Inv, Ages, RingInOrder
    <3> QED  BY <1>0, <2>0, <3>2, <3>3
  <2>2. t[Len(t)] = p /\ Len(t) >= 1
    BY <1>2
  <2>3. now \in Nat /\ p.at \in Nat /\ p.at <= now
    BY <1>0, <1>4
  <2>4. ASSUME \A i \in 1 .. Len(t) : t[i].at <= now,
               \A i, j \in 1 .. Len(t) : i < j => t[i].at <= t[j].at
        PROVE  RingInOrder(x)'
    BY <1>0, <2>0, <2>4 DEF RingInOrder
  <2>5. CASE Len(t) = n + 1 /\ \A i \in 1 .. n : t[i] = s[i]
    <3> HIDE DEF s, t, n
    <3>1. ASSUME NEW i \in 1 .. Len(t), i # Len(t)
          PROVE  i \in 1 .. n /\ t[i] = s[i]
      <4>1. i \in 1 .. n /\ i \in 1 .. n
        BY <2>0, <2>5, <3>1
      <4> QED  BY <2>5, <4>1
    <3>2. ASSUME NEW i \in 1 .. Len(t)
          PROVE  t[i].at \in Nat /\ t[i].at <= p.at /\ t[i].at <= now
      <4>1. CASE i = Len(t)
        BY <2>2, <2>3, <4>1
      <4>2. CASE i # Len(t)
        <5>1. t[i].at \in Nat /\ t[i].at <= p.at
          BY <2>1, <3>1, <4>2
        <5> QED  BY <2>3, <5>1
      <4> QED  BY <4>1, <4>2
    <3>3. ASSUME NEW i \in 1 .. Len(t), NEW j \in 1 .. Len(t), i < j
          PROVE  t[i].at <= t[j].at
      <4>1. i # Len(t)
        BY <2>0, <3>3
      <4>2. CASE j = Len(t)
        BY <2>2, <3>2, <4>2
      <4>3. CASE j # Len(t)
        <5>1. /\ i \in 1 .. n /\ t[i] = s[i]
              /\ j \in 1 .. n /\ t[j] = s[j]
          BY <3>1, <4>1, <4>3
        <5>2. i < j
          BY <3>3
        <5>3. s[i].at <= s[j].at
          BY <2>1, <5>1, <5>2
        <5> QED  BY <5>1, <5>3
      <4> QED  BY <4>2, <4>3
    <3> QED  BY <2>4, <3>2, <3>3
  <2>6. CASE Len(t) = n /\ n >= 1 /\ \A i \in 1 .. n - 1 : t[i] = s[i + 1]
    <3> HIDE DEF s, t, n
    <3>1. ASSUME NEW i \in 1 .. Len(t), i # Len(t)
          PROVE  i + 1 \in 1 .. n /\ t[i] = s[i + 1]
      <4>1. i \in 1 .. n - 1 /\ i + 1 \in 1 .. n
        BY <2>0, <2>6, <3>1
      <4> QED  BY <2>6, <4>1
    <3>2. ASSUME NEW i \in 1 .. Len(t)
          PROVE  t[i].at \in Nat /\ t[i].at <= p.at /\ t[i].at <= now
      <4>1. CASE i = Len(t)
        BY <2>2, <2>3, <4>1
      <4>2. CASE i # Len(t)
        <5>1. t[i].at \in Nat /\ t[i].at <= p.at
          BY <2>1, <3>1, <4>2
        <5> QED  BY <2>3, <5>1
      <4> QED  BY <4>1, <4>2
    <3>3. ASSUME NEW i \in 1 .. Len(t), NEW j \in 1 .. Len(t), i < j
          PROVE  t[i].at <= t[j].at
      <4>1. i # Len(t)
        BY <2>0, <3>3
      <4>2. CASE j = Len(t)
        BY <2>2, <3>2, <4>2
      <4>3. CASE j # Len(t)
        <5>1. /\ i + 1 \in 1 .. n /\ t[i] = s[i + 1]
              /\ j + 1 \in 1 .. n /\ t[j] = s[j + 1]
          BY <3>1, <4>1, <4>3
        <5>2. i + 1 < j + 1
          BY <3>3
        <5>3. s[i + 1].at <= s[j + 1].at
          BY <2>1, <5>1, <5>2
        <5> QED  BY <5>1, <5>3
      <4> QED  BY <4>2, <4>3
    <3> QED  BY <2>4, <3>2, <3>3
  <2> QED  BY <1>2, <2>5, <2>6
<1>9. HoursInOrder(x)'
  <2> SUFFICES ASSUME NEW h \in Hours, NEW q \in hourly[x][h]
               PROVE  HourOf(q) = h /\ q.at < now - RawWindow /\ \A r \in raw'[x] : q.at < r.at
    BY DEF HoursInOrder, HourOf
  <2>1. HourOf(q) = h /\ q.at < now - RawWindow /\ \A r \in raw[x] : q.at < r.at
    BY DEF Inv, Ages, HoursInOrder
  <2>2. q.at \in Nat
    BY <1>0
  <2>3. q.at < p.at
    BY <1>0, <1>4, <2>1, <2>2, Bounds
  <2> QED  BY <1>1, <2>1, <2>3
<1>10. Ages'
  <2> SUFFICES ASSUME NEW y \in Series
               PROVE  /\ raw'[y] \subseteq recorded'[y] /\ \A q \in recorded'[y] : q.at <= now
                      /\ RingInOrder(y)' /\ HoursInOrder(y)'
    BY DEF Ages
  <2>1. /\ raw[y] \subseteq recorded[y] /\ \A q \in recorded[y] : q.at <= now
        /\ RingInOrder(y) /\ HoursInOrder(y)
    BY DEF Inv, Ages
  <2>2. CASE y = x
    BY <1>1, <1>8, <1>9, <2>1, <2>2
  <2>3. CASE y # x
    <3>1. raw'[y] = raw[y] /\ recorded'[y] = recorded[y] /\ ring'[y] = ring[y]
      BY <1>1, <1>3, <2>3
    <3>2. RingInOrder(y)'
      BY <2>1, <3>1 DEF RingInOrder
    <3>3. HoursInOrder(y)'
      BY <2>1, <3>1 DEF HoursInOrder, HourOf
    <3> QED  BY <2>1, <3>1, <3>2, <3>3
  <2> QED  BY <2>2, <2>3
<1>11. Newest(x)'
  <2> DEFINE s == ring[x]
             t == ring'[x]
             n == Len(s)
  <2>0. /\ n \in Nat /\ DOMAIN s = 1 .. n /\ Len(t) \in Nat /\ DOMAIN t = 1 .. Len(t)
        /\ t[Len(t)] = p /\ Len(t) >= 1 /\ (n >= 1 => s # <<>>)
        /\ \A i \in 1 .. n : s[i].at \in Nat
    BY <1>0, <1>2
  <2>1. /\ \A i, j \in 1 .. n : i < j => s[i].at <= s[j].at
        /\ n >= 1 => \A q \in recorded[x] : q.at > s[1].at => \E i \in 1 .. n : s[i] = q
    BY <2>0 DEF Inv, Ages, RingInOrder, StoreInv, Newest
  <2>2. \/ Len(t) = n + 1 /\ \A i \in 1 .. n : t[i] = s[i]
        \/ Len(t) = n /\ n >= 1 /\ \A i \in 1 .. n - 1 : t[i] = s[i + 1]
    BY <1>2
  <2> HIDE DEF s, t, n
  <2>3. ASSUME NEW q \in recorded[x], q.at > t[1].at PROVE \E i \in 1 .. Len(t) : t[i] = q
    <3>1. q.at \in Nat /\ q.at <= p.at
      BY <1>0
    <3>2. Len(t) # 1
      BY <1>4, <2>0, <2>3, <3>1
    <3>3. CASE Len(t) = n + 1 /\ \A i \in 1 .. n : t[i] = s[i]
      <4>1. n >= 1 /\ t[1] = s[1]
        BY <2>0, <3>2, <3>3
      <4>2. PICK i \in 1 .. n : s[i] = q
        BY <2>1, <2>3, <4>1
      <4> QED  BY <2>0, <3>3, <4>2
    <3>4. CASE Len(t) = n /\ n >= 1 /\ \A i \in 1 .. n - 1 : t[i] = s[i + 1]
      <4>1. n >= 2 /\ t[1] = s[2]
        BY <2>0, <3>2, <3>4
      <4>2. s[1].at <= s[2].at /\ s[1].at \in Nat /\ s[2].at \in Nat
        BY <2>0, <2>1, <4>1
      <4>3. q.at > s[1].at
        BY <2>3, <3>1, <4>1, <4>2
      <4>4. PICK i \in 1 .. n : s[i] = q
        BY <2>1, <3>4, <4>3
      <4>5. i # 1
        BY <3>1, <4>2, <4>3, <4>4
      <4>6. i - 1 \in 1 .. n - 1 /\ i - 1 + 1 = i
        BY <2>0, <4>5
      <4>7. t[i - 1] = q
        BY <3>4, <4>4, <4>6
      <4> QED  BY <2>0, <3>4, <4>6, <4>7
    <3> QED  BY <2>2, <3>3, <3>4
  <2>4. \A q \in recorded'[x] : q.at > t[1].at => \E i \in 1 .. Len(t) : t[i] = q
    <3>1. \A q \in recorded'[x] : q \in recorded[x] \/ q = p
      BY <1>1
    <3>2. Len(t) \in 1 .. Len(t) /\ t[Len(t)] = p
      BY <2>0
    <3> QED  BY <2>3, <3>1, <3>2
  <2> QED  BY <2>0, <2>4 DEF Newest, t
<1>12. Raws(x)'
  BY <1>1 DEF Inv, StoreInv, Raws
<1>13. Stays(x)'
  <2> SUFFICES ASSUME NEW q \in recorded'[x]
               PROVE  \/ q \in raw'[x] \/ q \in hourly[x][HourOf(q)]
                      \/ \E r \in recorded'[x] : HourOf(r) = HourOf(q) /\ r.at > q.at
                      \/ HourOf(q) * Hour < now - HourlyWindow
    BY DEF Stays, HourOf
  <2>1. recorded[x] \subseteq recorded'[x] /\ raw[x] \subseteq raw'[x]
    BY <1>1
  <2>2. CASE q \in recorded[x]
    <3>1. \/ q \in raw[x] \/ q \in hourly[x][HourOf(q)]
          \/ \E r \in recorded[x] : HourOf(r) = HourOf(q) /\ r.at > q.at
          \/ HourOf(q) * Hour < now - HourlyWindow
      BY <2>2 DEF Inv, StoreInv, Stays
    <3> QED  BY <2>1, <3>1
  <2>3. CASE q \notin recorded[x]
    BY <1>1, <2>3
  <2> QED  BY <2>2, <2>3
<1>14. ASSUME NEW y \in Series, y # x PROVE (Raws(y) /\ Stays(y) /\ Newest(y))'
  <2>1. raw'[y] = raw[y] /\ recorded'[y] = recorded[y] /\ ring'[y] = ring[y]
    BY <1>1, <1>3, <1>14
  <2>2. Raws(y) /\ Stays(y) /\ Newest(y)
    BY DEF Inv, StoreInv
  <2> QED  BY <2>1, <2>2 DEF Raws, Stays, Newest, HourOf
<1>15. GoneStaysGone'
  <2> SUFFICES ASSUME NEW s \in Servers \ running
               PROVE  raw'[s] = {} /\ \A h \in Hours : hourly[s][h] = {}
    BY DEF GoneStaysGone
  <2>1. raw[s] = {} /\ \A h \in Hours : hourly[s][h] = {}
    BY DEF Inv, StoreInv, GoneStaysGone
  <2>2. s \in Series /\ s # Platform
    BY Bounds DEF Series
  <2> QED  BY <1>1, <2>1, <2>2
<1>16. StoreInv'
  BY <1>11, <1>12, <1>13, <1>14, <1>15 DEF StoreInv
<1> QED  BY <1>0, <1>1, <1>2, <1>3, <1>7, <1>10, <1>16

-----------------------------------------------------------------------------
(* The collectors *)

LEMMA NowTyped ==
    ASSUME Inv
    PROVE  /\ now \in Nat /\ now \in Times /\ pass.at \in Times /\ pass.at \in Nat
           /\ pass.todo \subseteq Servers /\ pass = [todo |-> pass.todo, at |-> pass.at]
           /\ Platform \in Series /\ Servers \subseteq Series
           /\ \A v \in Values : [at |-> now, val |-> v] \in Sample
           /\ \A v \in Values : [at |-> pass.at, val |-> v] \in Sample
  BY Bounds DEF Inv, Typed, HistoryTypeOK, Times, Sample, Series

LEMMA PlatformCollected == Inv /\ CollectPlatform => Inv'
<1> SUFFICES ASSUME Inv, CollectPlatform PROVE Inv'
  OBVIOUS
<1> DEFINE x == Platform
<1>1. PICK v \in Values : LET p == [at |-> now, val |-> v] IN ring' = AppendPoint(x, p) /\ Record(x, p)
  BY DEF CollectPlatform
<1> DEFINE p == [at |-> now, val |-> v]
<1>2. /\ p \in Sample /\ p.at = now /\ x \in Series /\ now \in Nat
      /\ events \in Nat /\ events > 0 /\ events' = events - 1
      /\ UNCHANGED <<now, running, pass, hourly, job>>
  BY NowTyped DEF CollectPlatform, Inv, Typed, HistoryTypeOK
<1>3. /\ \A q \in recorded[x] : q.at <= now
      /\ \A i \in DOMAIN ring[x] : ring[x][i].at <= now
  BY <1>2 DEF Inv, Ages, RingInOrder
<1> HIDE DEF p, x
<1>4. /\ raw' \in [Series -> SUBSET Sample] /\ recorded' \in [Series -> SUBSET Sample]
      /\ ring' \in [Series -> Seq(Sample)] /\ \A y \in Series : Len(ring'[y]) <= MaxLen
      /\ \A y \in Series : y # x => recorded'[y] = recorded[y] /\ ring'[y] = ring[y]
      /\ JobInv' /\ Ages' /\ StoreInv'
  <2>1. ring' = AppendPoint(x, p) /\ Record(x, p)
    BY <1>1 DEF p, x
  <2>2. now - p.at <= MaxLag /\ p.at <= now
    BY <1>2, Bounds
  <2> QED  BY <1>2, <1>3, <2>1, <2>2, SampleArrives
<1>5. Typed'
  <2>1. Typed
    BY DEF Inv
  <2> QED  BY <1>2, <1>4, <2>1 DEF Typed, HistoryTypeOK
<1>6. PassInv'
  <2>1. \A s \in pass.todo : s \in Series /\ s # x
    BY NowTyped, Bounds DEF x
  <2> QED  BY <1>2, <1>4, <2>1 DEF Inv, PassInv
<1> QED  BY <1>4, <1>5, <1>6 DEF Inv

LEMMA ServerCollected == ASSUME Inv, NEW s \in Servers, CollectServer(s) PROVE Inv'
<1>1. /\ s \in pass.todo /\ s \in Series
      /\ pass' = IF pass.todo = {s} THEN NoPass ELSE [pass EXCEPT !.todo = @ \ {s}]
      /\ UNCHANGED <<now, running, hourly, job>>
  BY NowTyped DEF CollectServer
<1>2. pass' \in [todo : SUBSET Servers, at : Times]
  BY <1>1, NowTyped, Bounds DEF NoPass, Times
<1>3. pass'.todo # {} => pass'.at = pass.at /\ pass'.todo = pass.todo \ {s}
  BY <1>1, NowTyped DEF NoPass
<1>4. /\ pass.at <= now /\ now - pass.at <= MaxLag
      /\ \A u \in pass.todo :
           /\ \A p \in recorded[u] : p.at <= pass.at
           /\ \A i \in DOMAIN ring[u] : ring[u][i].at <= pass.at
  BY <1>1 DEF Inv, PassInv
<1>5. CASE UNCHANGED <<ring, raw, recorded, events>>
  <2>1. Typed'
    BY <1>1, <1>2, <1>5 DEF Inv, Typed, HistoryTypeOK
  <2>2. PassInv'
    BY <1>1, <1>3, <1>4, <1>5 DEF PassInv
  <2>3. JobInv'
    BY <1>1, <1>5 DEF Inv, JobInv, Old
  <2>4. Ages' /\ StoreInv'
    BY <1>1, <1>5 DEF Inv, Ages, RingInOrder, HoursInOrder, HourOf, StoreInv, Raws, Stays,
       Newest, GoneStaysGone
  <2> QED  BY <2>1, <2>2, <2>3, <2>4 DEF Inv
<1>6. CASE /\ events > 0 /\ events' = events - 1
           /\ \E v \in Values : LET p == [at |-> pass.at, val |-> v] IN
                ring' = AppendPoint(s, p) /\ Record(s, p)
  <2>1. PICK v \in Values : LET p == [at |-> pass.at, val |-> v] IN
               ring' = AppendPoint(s, p) /\ Record(s, p)
    BY <1>6
  <2> DEFINE p == [at |-> pass.at, val |-> v]
  <2>2. p \in Sample /\ p.at = pass.at
    BY NowTyped
  <2>3. ring' = AppendPoint(s, p) /\ Record(s, p)
    BY <2>1
  <2> HIDE DEF p
  <2>4. /\ raw' \in [Series -> SUBSET Sample] /\ recorded' \in [Series -> SUBSET Sample]
        /\ ring' \in [Series -> Seq(Sample)] /\ \A y \in Series : Len(ring'[y]) <= MaxLen
        /\ \A y \in Series : y # s => recorded'[y] = recorded[y] /\ ring'[y] = ring[y]
        /\ JobInv' /\ Ages' /\ StoreInv'
    BY <1>1, <1>4, <2>2, <2>3, SampleArrives
  <2>5. Typed'
    <3>1. events' \in Nat
      BY <1>6 DEF Inv, Typed, HistoryTypeOK
    <3> QED  BY <1>1, <1>2, <2>4, <3>1 DEF Inv, Typed, HistoryTypeOK
  <2>6. PassInv'
    <3>1. \A u \in pass.todo \ {s} : u \in Series /\ u # s
      BY NowTyped
    <3> QED  BY <1>1, <1>3, <1>4, <2>4, <3>1 DEF PassInv
  <2> QED  BY <2>4, <2>5, <2>6 DEF Inv
<1> QED  BY <1>5, <1>6 DEF CollectServer

LEMMA PassBegins == Inv /\ CollectorTick => Inv'
<1> SUFFICES ASSUME Inv, CollectorTick PROVE Inv'
  OBVIOUS
<1>1. /\ pass' = [todo |-> running, at |-> now]
      /\ UNCHANGED <<now, running, ring, raw, hourly, job, recorded, events>>
  BY DEF CollectorTick
<1>2. Typed'
  BY <1>1, NowTyped DEF Inv, Typed, HistoryTypeOK
<1>3. PassInv'
  <2>1. \A s \in running : s \in Series
    BY NowTyped DEF Inv, Typed, HistoryTypeOK
  <2>2. now - now <= MaxLag /\ now <= now
    BY NowTyped, Bounds
  <2> QED  BY <1>1, <2>1, <2>2 DEF PassInv, Inv, Ages, RingInOrder
<1>4. JobInv'
  BY <1>1 DEF Inv, JobInv, Old
<1>5. Ages' /\ StoreInv'
  BY <1>1 DEF Inv, Ages, RingInOrder, HoursInOrder, HourOf, StoreInv, Raws, Stays, Newest, GoneStaysGone
<1> QED  BY <1>2, <1>3, <1>4, <1>5 DEF Inv

-----------------------------------------------------------------------------
(* The rollup *)

LEMMA JobTyped ==
    ASSUME Inv
    PROVE  /\ job.cutoff \in Int /\ job.hourlyCutoff \in Int
           /\ job.pc \in {"idle", "server", "raw", "hourly"}
           /\ job.summed \in [Series -> SUBSET Sample] /\ job.swept \in [Series -> SUBSET Sample]
           /\ \A x \in Series, c \in Int : Old(x, c) \in SUBSET Sample
           /\ NoJob.pc = "idle" /\ \A x \in Series : NoJob.summed[x] = {} /\ NoJob.swept[x] = {}
           /\ NoJob \in [pc : {"idle", "server", "raw", "hourly"}, cutoff : Int, hourlyCutoff : Int,
                         summed : [Series -> SUBSET Sample], swept : [Series -> SUBSET Sample]]
<1>1. job \in [pc : {"idle", "server", "raw", "hourly"}, cutoff : Int, hourlyCutoff : Int,
               summed : [Series -> SUBSET Sample], swept : [Series -> SUBSET Sample]]
  BY DEF Inv, Typed, HistoryTypeOK
<1>2. \A x \in Series, c \in Int : Old(x, c) \in SUBSET Sample
  BY DEF Inv, Typed, HistoryTypeOK, Old
<1>3. NoJob.pc = "idle" /\ NoJob.summed = Nothing /\ NoJob.swept = Nothing
  BY DEF NoJob
<1>4. Nothing \in [Series -> SUBSET Sample] /\ \A x \in Series : Nothing[x] = {}
  BY DEF Nothing
<1>5. NoJob \in [pc : {"idle", "server", "raw", "hourly"}, cutoff : Int, hourlyCutoff : Int,
                 summed : [Series -> SUBSET Sample], swept : [Series -> SUBSET Sample]]
  BY <1>4 DEF NoJob
<1> QED  BY <1>1, <1>2, <1>3, <1>4, <1>5

\* A step of the job alone: the store is as it was.
LEMMA JobMoves ==
    ASSUME Inv, UNCHANGED <<now, running, pass, ring, raw, hourly, recorded>>,
           events' \in Nat, JobInv',
           job' \in [pc : {"idle", "server", "raw", "hourly"}, cutoff : Int, hourlyCutoff : Int,
                     summed : [Series -> SUBSET Sample], swept : [Series -> SUBSET Sample]]
    PROVE  Inv'
<1>1. Typed'
  BY DEF Inv, Typed, HistoryTypeOK
<1>2. PassInv'
  BY DEF Inv, PassInv
<1>3. Ages' /\ StoreInv'
  BY DEF Inv, Ages, RingInOrder, HoursInOrder, HourOf, StoreInv, Raws, Stays, Newest, GoneStaysGone
<1> QED  BY <1>1, <1>2, <1>3 DEF Inv

LEMMA JobSteps == Inv /\ (RollupBegin \/ SumServers \/ DeleteRaw \/ Rollback) => Inv'
<1> SUFFICES ASSUME Inv, RollupBegin \/ SumServers \/ DeleteRaw \/ Rollback PROVE Inv'
  OBVIOUS
<1> DEFINE JobRow == [pc : {"idle", "server", "raw", "hourly"}, cutoff : Int, hourlyCutoff : Int,
                      summed : [Series -> SUBSET Sample], swept : [Series -> SUBSET Sample]]
<1>0. /\ job \in JobRow /\ events \in Nat /\ now \in Nat
      /\ \A x \in Series : Nothing[x] = {}
      /\ Nothing \in [Series -> SUBSET Sample] /\ Platform \in Series
  BY NowTyped DEF Inv, Typed, HistoryTypeOK, Nothing
<1>1. CASE RollupBegin
  <2> DEFINE cutoff == now - RawWindow
             summed == [Nothing EXCEPT ![Platform] = Old(Platform, cutoff)]
  <2>1. /\ job' = [pc |-> "server", cutoff |-> cutoff, hourlyCutoff |-> now - HourlyWindow,
                   summed |-> summed, swept |-> Nothing]
        /\ UNCHANGED <<now, running, pass, ring, raw, hourly, recorded, events>>
    BY <1>1 DEF RollupBegin
  <2>2. cutoff \in Int /\ now - HourlyWindow \in Int
    BY <1>0, Bounds
  <2>3. /\ summed \in [Series -> SUBSET Sample]
        /\ \A x \in Series : summed[x] = IF x = Platform THEN Old(x, cutoff) ELSE {}
    BY <1>0, <2>2, JobTyped
  <2> HIDE DEF summed, cutoff
  <2>4. job' \in JobRow
    BY <1>0, <2>1, <2>2, <2>3
  <2>5. \A x \in Series : Old(x, cutoff)' = Old(x, cutoff)
    BY <2>1 DEF Old, cutoff
  <2>6. JobInv'
    <3>1. /\ job'.pc = "server" /\ job'.cutoff = cutoff /\ job'.hourlyCutoff = now - HourlyWindow
          /\ job'.summed = summed /\ job'.swept = Nothing
      BY <2>1
    <3>2. cutoff' = cutoff /\ now' = now
      BY <2>1 DEF cutoff
    <3>3. \A x \in Series : Old(x, cutoff) = {p \in raw'[x] : p.at < job'.cutoff}
      BY <2>1, <3>1 DEF Old
    <3>4. now' - RawWindow = cutoff /\ cutoff <= cutoff /\ now - HourlyWindow <= now - HourlyWindow
      BY <2>1, <2>2 DEF cutoff
    <3> QED  BY <1>0, <2>3, <3>1, <3>2, <3>3, <3>4 DEF JobInv, Old
  <2> QED  BY <1>0, <2>1, <2>4, <2>6, JobMoves
<1>2. CASE SumServers
  <2> DEFINE summed == [x \in Series |-> IF x = Platform THEN job.summed[x] ELSE Old(x, job.cutoff)]
  <2>1. /\ job.pc = "server" /\ job' = [job EXCEPT !.pc = "raw", !.summed = summed]
        /\ UNCHANGED <<now, running, pass, ring, raw, hourly, recorded, events>>
    BY <1>0, <1>2 DEF SumServers
  <2>2. summed \in [Series -> SUBSET Sample] /\ \A x \in Series : summed[x] = Old(x, job.cutoff)
    BY <2>1, JobTyped DEF Inv, JobInv
  <2> HIDE DEF summed
  <2>3. /\ job' \in JobRow /\ job'.pc = "raw" /\ job'.cutoff = job.cutoff
        /\ job'.hourlyCutoff = job.hourlyCutoff /\ job'.summed = summed /\ job'.swept = job.swept
    BY <1>0, <2>1, <2>2
  <2>4. \A x \in Series : Old(x, job.cutoff)' = Old(x, job.cutoff)
    BY <2>1, <2>3 DEF Old
  <2>5. JobInv'
    BY <2>1, <2>2, <2>3, <2>4 DEF Inv, JobInv
  <2> QED  BY <1>0, <2>1, <2>3, <2>5, JobMoves
<1>3. CASE DeleteRaw
  <2> DEFINE swept == [x \in Series |-> Old(x, job.cutoff)]
  <2>1. /\ job.pc = "raw" /\ job' = [job EXCEPT !.pc = "hourly", !.swept = swept]
        /\ UNCHANGED <<now, running, pass, ring, raw, hourly, recorded, events>>
    BY <1>3 DEF DeleteRaw
  <2>2. swept \in [Series -> SUBSET Sample] /\ \A x \in Series : swept[x] = Old(x, job.cutoff)
    BY JobTyped
  <2> HIDE DEF swept
  <2>3. /\ job' \in JobRow /\ job'.pc = "hourly" /\ job'.cutoff = job.cutoff
        /\ job'.hourlyCutoff = job.hourlyCutoff /\ job'.summed = job.summed /\ job'.swept = swept
    BY <1>0, <2>1, <2>2
  <2>4. \A x \in Series : Old(x, job.cutoff)' = Old(x, job.cutoff)
    BY <2>1, <2>3 DEF Old
  <2>5. JobInv'
    BY <2>1, <2>2, <2>3, <2>4 DEF Inv, JobInv
  <2> QED  BY <1>0, <2>1, <2>3, <2>5, JobMoves
<1>4. CASE Rollback
  <2>1. /\ job' = NoJob /\ events' \in Nat
        /\ UNCHANGED <<now, running, pass, ring, raw, hourly, recorded>>
    BY <1>0, <1>4 DEF Rollback
  <2>2. JobInv' /\ job' \in JobRow
    BY <2>1, JobTyped DEF JobInv
  <2> QED  BY <2>1, <2>2, JobMoves
<1> QED  BY <1>1, <1>2, <1>3, <1>4

\* The commit: what was summed for an hour is younger than what its row was computed
\* from, older than every row left, and all of what the sweep took.
LEMMA RollupCommits == Inv /\ DeleteHourly => Inv'
<1> SUFFICES ASSUME Inv, DeleteHourly PROVE Inv'
  OBVIOUS
<1> DEFINE Fresh(x, h) == {p \in Old(x, job.cutoff) : HourOf(p) = h}
<1>1. /\ job' = NoJob /\ UNCHANGED <<now, running, pass, ring, recorded, events>>
      /\ job.cutoff <= now - RawWindow /\ job.hourlyCutoff <= now - HourlyWindow
      /\ job.cutoff \in Int /\ job.hourlyCutoff \in Int /\ now \in Nat
      /\ \A x \in Series : job.swept[x] = Old(x, job.cutoff) /\ job.summed[x] = Old(x, job.cutoff)
  BY JobTyped, NowTyped DEF DeleteHourly, Inv, JobInv
<1>2. /\ raw' = [x \in Series |-> raw[x] \ Old(x, job.cutoff)]
      /\ \A x \in Series : raw'[x] = {p \in raw[x] : ~(p.at < job.cutoff)}
  <2>1. raw' = [x \in Series |-> raw[x] \ job.swept[x]]
    BY DEF DeleteHourly
  <2>2. raw' = [x \in Series |-> raw[x] \ Old(x, job.cutoff)]
    BY <1>1, <2>1
  <2> QED  BY <2>2 DEF Old
<1>3. \A x \in Series : \A h \in Hours :
        hourly'[x][h] = IF h * Hour < job.hourlyCutoff THEN {}
                        ELSE IF Fresh(x, h) # {} THEN Fresh(x, h) ELSE hourly[x][h]
  <2>1. hourly' = [x \in Series |-> [h \in Hours |->
                     IF h * Hour < job.hourlyCutoff THEN {} ELSE Summarised(x, h)]]
    BY DEF DeleteHourly
  <2>2. \A x \in Series : \A h \in Hours :
          Summarised(x, h) = IF Fresh(x, h) # {} THEN Fresh(x, h) ELSE hourly[x][h]
    BY <1>1 DEF Summarised
  <2> QED  BY <2>1, <2>2
<1>4. \A x \in Series : /\ raw[x] \in SUBSET Sample /\ Old(x, job.cutoff) \subseteq raw[x]
                        /\ \A h \in Hours : hourly[x][h] \in SUBSET Sample
  BY DEF Inv, Typed, HistoryTypeOK, Old
<1>5. \A p \in Sample : p.at \in Nat
  BY Bounds DEF Sample, Times
<1>6. hourly' \in [Series -> [Hours -> SUBSET Sample]]
  <2>1. \A x \in Series : \A h \in Hours : hourly'[x][h] \in SUBSET Sample
    <3> TAKE x \in Series
    <3> TAKE h \in Hours
    <3>1. Fresh(x, h) \in SUBSET Sample /\ hourly[x][h] \in SUBSET Sample
      BY <1>4
    <3> HIDE DEF Fresh
    <3> QED  BY <1>3, <3>1
  <2>2. hourly' = [x \in Series |-> [h \in Hours |->
                     IF h * Hour < job.hourlyCutoff THEN {} ELSE Summarised(x, h)]]
    BY DEF DeleteHourly
  <2>3. \A x \in Series : hourly'[x] = [h \in Hours |-> hourly'[x][h]]
    BY <2>2
  <2> QED  BY <2>1, <2>2, <2>3
<1>7. Typed'
  <2>1. raw' \in [Series -> SUBSET Sample]
    BY <1>2, <1>4
  <2> QED  BY <1>1, <1>6, <2>1, JobTyped DEF Inv, Typed, HistoryTypeOK
<1>8. JobInv' /\ PassInv'
  <2>1. JobInv'
    BY <1>1, JobTyped DEF JobInv
  <2>2. PassInv'
    BY <1>1 DEF Inv, PassInv
  <2> QED  BY <2>1, <2>2
<1>9. Ages'
  <2> SUFFICES ASSUME NEW x \in Series
               PROVE  /\ raw'[x] \subseteq recorded[x] /\ \A p \in recorded[x] : p.at <= now
                      /\ RingInOrder(x)' /\ HoursInOrder(x)'
    BY <1>1 DEF Ages
  <2>1. /\ raw[x] \subseteq recorded[x] /\ \A p \in recorded[x] : p.at <= now
        /\ RingInOrder(x) /\ HoursInOrder(x)
    BY DEF Inv, Ages
  <2>2. RingInOrder(x)'
    BY <1>1, <2>1 DEF RingInOrder
  <2>3. ASSUME NEW h \in Hours, NEW p \in hourly'[x][h]
        PROVE  HourOf(p) = h /\ p.at < now - RawWindow /\ \A q \in raw'[x] : p.at < q.at
    <3>1. CASE p \in Fresh(x, h)
      <4>1. HourOf(p) = h /\ p \in raw[x] /\ p.at < job.cutoff
        BY <3>1 DEF Old
      <4>2. \A q \in raw'[x] : q \in raw[x] /\ ~(q.at < job.cutoff)
        BY <1>2
      <4>3. \A q \in raw[x] : q.at \in Nat
        BY <1>4, <1>5
      <4>4. RawWindow \in Nat
        BY Bounds
      <4> QED  BY <1>1, <4>1, <4>2, <4>3, <4>4
    <3>2. CASE p \in hourly[x][h]
      BY <1>2, <2>1, <3>2 DEF HoursInOrder
    <3> QED  BY <1>3, <2>3, <3>1, <3>2
  <2>4. HoursInOrder(x)'
    BY <1>1, <2>3 DEF HoursInOrder, HourOf
  <2> QED  BY <1>2, <2>1, <2>2, <2>4
<1>10. ASSUME NEW x \in Series PROVE (Raws(x) /\ Stays(x) /\ Newest(x))'
  <2>0. Raws(x) /\ Stays(x) /\ Newest(x) /\ recorded[x] \in SUBSET Sample
    BY DEF Inv, StoreInv, Typed, HistoryTypeOK
  <2>1. Newest(x)'
    BY <1>1, <2>0 DEF Newest
  <2>2. Raws(x)'
    <3> SUFFICES ASSUME NEW p \in recorded[x], p.at >= now - RawWindow PROVE p \in raw'[x]
      BY <1>1 DEF Raws
    <3>1. p \in raw[x] /\ p.at \in Nat
      BY <1>5, <2>0 DEF Raws
    <3>2. ~(p.at < job.cutoff)
      BY <1>1, <3>1, Bounds
    <3> QED  BY <1>2, <3>1, <3>2
  <2>3. Stays(x)'
    <3> SUFFICES ASSUME NEW p \in recorded[x]
                 PROVE  \/ p \in raw'[x] \/ p \in hourly'[x][HourOf(p)]
                        \/ \E q \in recorded[x] : HourOf(q) = HourOf(p) /\ q.at > p.at
                        \/ HourOf(p) * Hour < now - HourlyWindow
      BY <1>1 DEF Stays, HourOf
    <3> DEFINE h == HourOf(p)
    <3>1. h \in Hours /\ h \in Nat /\ h * Hour \in Nat /\ p.at \in Nat
      BY <1>5, <2>0, HourInHours, Bounds DEF Hours
    <3> HIDE DEF h
    <3>2. CASE h * Hour < job.hourlyCutoff
      <4>1. h * Hour < now - HourlyWindow
        BY <1>1, <3>1, <3>2, Bounds
      <4> QED  BY <4>1 DEF h
    <3>3. CASE p \in raw[x] /\ ~(h * Hour < job.hourlyCutoff)
      <4>1. p \in raw'[x] \/ p \in Old(x, job.cutoff)
        BY <1>2, <3>3
      <4>2. p \in Old(x, job.cutoff) => p \in Fresh(x, h)
        BY DEF h
      <4>3. p \in Fresh(x, h) => p \in hourly'[x][h]
        BY <1>3, <3>1, <3>3
      <4> QED  BY <4>1, <4>2, <4>3 DEF h
    <3>4. CASE p \in hourly[x][h] /\ ~(h * Hour < job.hourlyCutoff)
      <4>1. CASE Fresh(x, h) = {}
        <5>1. p \in hourly'[x][h]
          BY <1>3, <3>1, <3>4, <4>1
        <5> QED  BY <5>1 DEF h
      <4>2. CASE Fresh(x, h) # {}
        <5>1. PICK q \in Fresh(x, h) : TRUE
          BY <4>2
        <5>2. q \in raw[x] /\ HourOf(q) = h
          BY <1>4
        <5>3. q \in recorded[x] /\ p.at < q.at
          BY <3>1, <3>4, <5>2 DEF Inv, Ages, HoursInOrder
        <5>4. q.at > p.at
          BY <1>4, <1>5, <3>1, <5>2, <5>3
        <5> QED  BY <5>2, <5>3, <5>4 DEF h
      <4> QED  BY <4>1, <4>2
    <3>5. CASE p \notin raw[x] /\ p \notin hourly[x][h]
      BY <2>0, <3>5 DEF Stays, h
    <3> QED  BY <3>2, <3>3, <3>4, <3>5
  <2> QED  BY <2>1, <2>2, <2>3
<1>11. GoneStaysGone'
  <2> SUFFICES ASSUME NEW s \in Servers \ running
               PROVE  raw'[s] = {} /\ \A h \in Hours : hourly'[s][h] = {}
    BY <1>1 DEF GoneStaysGone
  <2>1. s \in Series /\ raw[s] = {} /\ \A h \in Hours : hourly[s][h] = {}
    BY NowTyped DEF Inv, StoreInv, GoneStaysGone
  <2>2. Old(s, job.cutoff) = {}
    BY <2>1 DEF Old
  <2> QED  BY <1>2, <1>3, <2>1, <2>2
<1> QED  BY <1>7, <1>8, <1>9, <1>10, <1>11 DEF Inv, StoreInv

-----------------------------------------------------------------------------
(* What happens around them *)

LEMMA TimePasses == Inv /\ Tick => Inv'
<1> SUFFICES ASSUME Inv, Tick PROVE Inv'
  OBVIOUS
<1>1. /\ now' = now + 1 /\ now' \in Times /\ now \in Nat
      /\ UNCHANGED <<running, pass, ring, raw, hourly, job, recorded, events>>
      /\ pass.todo # {} => now - pass.at < MaxLag
  BY NowTyped, Bounds DEF Tick, Times
<1>2. \A p \in Sample : p.at \in Nat
  BY Bounds DEF Sample, Times
<1>3. Typed'
  BY <1>1 DEF Inv, Typed, HistoryTypeOK
<1>4. JobInv'
  <2>1. job.pc # "idle" => /\ job.cutoff <= now' - RawWindow
                           /\ job.hourlyCutoff <= now' - HourlyWindow
    BY <1>1, JobTyped, Bounds DEF Inv, JobInv
  <2>2. \A x \in Series : Old(x, job.cutoff)' = Old(x, job.cutoff)
    BY <1>1 DEF Old
  <2> QED  BY <1>1, <2>1, <2>2 DEF Inv, JobInv
<1>5. PassInv'
  BY <1>1, NowTyped, Bounds DEF Inv, PassInv
<1>6. ASSUME NEW x \in Series
      PROVE  /\ raw[x] \subseteq recorded[x] /\ \A p \in recorded[x] : p.at <= now'
             /\ RingInOrder(x)' /\ HoursInOrder(x)' /\ Raws(x)' /\ Stays(x)' /\ Newest(x)'
  <2>0. /\ raw[x] \subseteq recorded[x] /\ \A p \in recorded[x] : p.at <= now
        /\ RingInOrder(x) /\ HoursInOrder(x) /\ Raws(x) /\ Stays(x) /\ Newest(x)
        /\ recorded[x] \in SUBSET Sample /\ ring[x] \in Seq(Sample)
        /\ \A h \in Hours : hourly[x][h] \in SUBSET Sample
    BY DEF Inv, Ages, StoreInv, Typed, HistoryTypeOK
  <2>1. \A p \in recorded[x] : p.at <= now'
    BY <1>1, <1>2, <2>0
  <2>2. RingInOrder(x)'
    <3>1. \A i \in DOMAIN ring[x] : ring[x][i].at \in Nat
      BY <1>2, <2>0
    <3>2. \A i \in DOMAIN ring[x] : ring[x][i].at <= now'
      BY <1>1, <2>0, <3>1 DEF RingInOrder
    <3> QED  BY <1>1, <2>0, <3>2 DEF RingInOrder
  <2>3. HoursInOrder(x)'
    <3>1. \A h \in Hours : \A p \in hourly[x][h] : p.at < now' - RawWindow
      BY <1>1, <1>2, <2>0, Bounds DEF HoursInOrder
    <3> QED  BY <1>1, <2>0, <3>1 DEF HoursInOrder, HourOf
  <2>4. Raws(x)'
    <3>1. \A p \in recorded[x] : p.at >= now' - RawWindow => p.at >= now - RawWindow
      BY <1>1, <1>2, <2>0, Bounds
    <3> QED  BY <1>1, <2>0, <3>1 DEF Raws
  <2>5. Stays(x)'
    <3>1. \A p \in recorded[x] : HourOf(p) * Hour \in Nat
      BY <2>0, HourInHours, Bounds DEF Hours
    <3>2. \A p \in recorded[x] : HourOf(p) * Hour < now - HourlyWindow => HourOf(p) * Hour < now' - HourlyWindow
      BY <1>1, <3>1, Bounds
    <3> QED  BY <1>1, <2>0, <3>2 DEF Stays, HourOf
  <2>6. Newest(x)'
    BY <1>1, <2>0 DEF Newest
  <2> QED  BY <2>0, <2>1, <2>2, <2>3, <2>4, <2>5, <2>6
<1>7. GoneStaysGone'
  BY <1>1 DEF Inv, StoreInv, GoneStaysGone
<1>8. Ages'
  BY <1>1, <1>6 DEF Ages
<1>9. StoreInv'
  BY <1>6, <1>7 DEF StoreInv
<1> QED  BY <1>3, <1>4, <1>5, <1>8, <1>9 DEF Inv

LEMMA BackendDies == Inv /\ Restart => Inv'
<1> SUFFICES ASSUME Inv, Restart PROVE Inv'
  OBVIOUS
<1>1. /\ events \in Nat /\ events > 0 /\ events' = events - 1
      /\ ring' = [x \in Series |-> <<>>] /\ pass' = NoPass /\ job' = NoJob
      /\ UNCHANGED <<now, running, raw, hourly, recorded>>
  BY DEF Restart, Inv, Typed, HistoryTypeOK
<1>2. /\ ring' \in [Series -> Seq(Sample)] /\ MaxLen \in Nat
      /\ \A x \in Series : ring'[x] = <<>> /\ Len(ring'[x]) = 0 /\ DOMAIN ring'[x] = {}
  BY <1>1, Bounds
<1>3. Typed'
  <2>1. NoPass \in [todo : SUBSET Servers, at : Times]
    BY Bounds DEF NoPass, Times
  <2>2. \A x \in Series : ring'[x] \in Seq(Sample) /\ Len(ring'[x]) <= MaxLen
    BY <1>2
  <2>3. events' \in Nat
    BY <1>1
  <2> QED  BY <1>1, <1>2, <2>1, <2>2, <2>3, JobTyped DEF Inv, Typed, HistoryTypeOK
<1>4. JobInv'
  BY <1>1, JobTyped DEF JobInv
<1>5. PassInv'
  BY <1>1 DEF PassInv, NoPass
<1>6. Ages'
  BY <1>1, <1>2 DEF Inv, Ages, RingInOrder, HoursInOrder, HourOf
<1>7. StoreInv'
  <2>1. \A x \in Series : Newest(x)'
    BY <1>2 DEF Newest
  <2>2. \A x \in Series : Raws(x)' /\ Stays(x)'
    BY <1>1 DEF Inv, StoreInv, Raws, Stays, HourOf
  <2>3. GoneStaysGone'
    BY <1>1 DEF Inv, StoreInv, GoneStaysGone
  <2> QED  BY <2>1, <2>2, <2>3 DEF StoreInv
<1> QED  BY <1>3, <1>4, <1>5, <1>6, <1>7 DEF Inv

LEMMA ServerDeleted == ASSUME Inv, NEW s \in Servers, DeleteServer(s) PROVE Inv'
<1>1. /\ s \in running /\ events \in Nat /\ events > 0 /\ events' = events - 1 /\ s \in Series
      /\ ring' = [ring EXCEPT ![s] = <<>>] /\ UNCHANGED <<now, pass, job>>
      /\ ring \in [Series -> Seq(Sample)] /\ \A x \in Series : Len(ring[x]) <= MaxLen
      /\ raw \in [Series -> SUBSET Sample] /\ recorded \in [Series -> SUBSET Sample]
      /\ hourly \in [Series -> [Hours -> SUBSET Sample]] /\ running \subseteq Servers
  BY NowTyped DEF DeleteServer, Inv, Typed, HistoryTypeOK
<1>2. /\ ring' \in [Series -> Seq(Sample)] /\ ring'[s] = <<>> /\ Len(ring'[s]) = 0
      /\ DOMAIN ring'[s] = {} /\ \A x \in Series : x # s => ring'[x] = ring[x]
  BY <1>1
<1>3. \A x \in Series : ring'[x] \in Seq(Sample) /\ Len(ring'[x]) <= MaxLen
  BY <1>1, <1>2, Bounds
<1>4. /\ raw' \in [Series -> SUBSET Sample] /\ recorded' \in [Series -> SUBSET Sample]
      /\ hourly' \in [Series -> [Hours -> SUBSET Sample]] /\ running' \subseteq Servers
      /\ \A x \in Series : x # s => /\ raw'[x] = raw[x] /\ recorded'[x] = recorded[x]
                                    /\ hourly'[x] = hourly[x]
      /\ \/ /\ ~Locked(s) /\ running' = running \ {s} /\ raw'[s] = {} /\ recorded'[s] = {}
            /\ \A h \in Hours : hourly'[s][h] = {}
         \/ UNCHANGED <<running, raw, recorded, hourly>>
  <2>1. CASE UNCHANGED <<running, raw, recorded, hourly>>
    BY <1>1, <2>1
  <2>2. CASE /\ ~Locked(s) /\ running' = running \ {s}
             /\ raw' = [raw EXCEPT ![s] = {}] /\ recorded' = [recorded EXCEPT ![s] = {}]
             /\ hourly' = [hourly EXCEPT ![s] = [h \in Hours |-> {}]]
    BY <1>1, <2>2
  <2> QED  BY <2>1, <2>2 DEF DeleteServer
<1>5. Typed'
  BY <1>1, <1>2, <1>3, <1>4 DEF Inv, Typed, HistoryTypeOK
<1>6. JobInv'
  <2>1. \A x \in Series : x # s => Old(x, job.cutoff)' = Old(x, job.cutoff)
    BY <1>1, <1>4 DEF Old
  <2>2. CASE UNCHANGED <<running, raw, recorded, hourly>>
    BY <1>1, <2>2 DEF Inv, JobInv, Old
  <2>3. CASE ~Locked(s) /\ raw'[s] = {}
    <3>1. job.summed[s] = {} /\ job.swept[s] = {} /\ Old(s, job.cutoff)' = {}
      BY <1>1, <2>3 DEF Locked, Old
    <3> QED  BY <1>1, <2>1, <3>1 DEF Inv, JobInv
  <2> QED  BY <1>4, <2>2, <2>3
<1>7. PassInv'
  <2>1. \A u \in pass.todo : u \in Series
    BY NowTyped
  <2>2. \A u \in Series : recorded'[u] \subseteq recorded[u]
    BY <1>4
  <2>3. \A u \in Series : DOMAIN ring'[u] = {} \/ ring'[u] = ring[u]
    BY <1>2
  <2> QED  BY <1>1, <2>1, <2>2, <2>3 DEF Inv, PassInv
<1>8. ASSUME NEW x \in Series
      PROVE  /\ raw'[x] \subseteq recorded'[x] /\ \A p \in recorded'[x] : p.at <= now
             /\ RingInOrder(x)' /\ HoursInOrder(x)' /\ Raws(x)' /\ Stays(x)' /\ Newest(x)'
  <2>0. /\ raw[x] \subseteq recorded[x] /\ \A p \in recorded[x] : p.at <= now
        /\ RingInOrder(x) /\ HoursInOrder(x) /\ Raws(x) /\ Stays(x) /\ Newest(x)
    BY DEF Inv, Ages, StoreInv
  <2>1. ring'[x] = ring[x] \/ (ring'[x] = <<>> /\ DOMAIN ring'[x] = {})
    BY <1>2
  <2>2. \/ raw'[x] = raw[x] /\ recorded'[x] = recorded[x] /\ hourly'[x] = hourly[x]
        \/ raw'[x] = {} /\ recorded'[x] = {} /\ \A h \in Hours : hourly'[x][h] = {}
    BY <1>4
  <2>3. RingInOrder(x)'
    BY <1>1, <2>0, <2>1 DEF RingInOrder
  <2>4. HoursInOrder(x)'
    BY <1>1, <2>0, <2>2 DEF HoursInOrder, HourOf
  <2>5. Raws(x)' /\ Stays(x)'
    BY <1>1, <2>0, <2>2 DEF Raws, Stays, HourOf
  <2>6. Newest(x)'
    BY <2>0, <2>1, <2>2 DEF Newest
  <2> QED  BY <2>0, <2>2, <2>3, <2>4, <2>5, <2>6
<1>9. GoneStaysGone'
  <2> SUFFICES ASSUME NEW u \in Servers \ running'
               PROVE  raw'[u] = {} /\ \A h \in Hours : hourly'[u][h] = {}
    BY DEF GoneStaysGone
  <2>1. u \in Series
    BY NowTyped
  <2>2. u \notin running => raw[u] = {} /\ \A h \in Hours : hourly[u][h] = {}
    BY DEF Inv, StoreInv, GoneStaysGone
  <2> QED  BY <1>1, <1>4, <2>1, <2>2
<1>10. Ages'
  BY <1>1, <1>8 DEF Ages
<1>11. StoreInv'
  BY <1>8, <1>9 DEF StoreInv
<1> QED  BY <1>5, <1>6, <1>7, <1>10, <1>11 DEF Inv

-----------------------------------------------------------------------------
(* SamplesKept *)

LEMMA InvInit == HistoryInit => Inv
<1> SUFFICES ASSUME HistoryInit PROVE Inv
  OBVIOUS
<1>1. /\ now = 0 /\ running = Servers /\ pass = NoPass /\ job = NoJob /\ events = Events
      /\ ring = [x \in Series |-> <<>>] /\ raw = Nothing /\ recorded = Nothing
      /\ hourly = [x \in Series |-> [h \in Hours |-> {}]]
  BY DEF HistoryInit
<1>2. /\ Nothing \in [Series -> SUBSET Sample] /\ \A x \in Series : Nothing[x] = {}
      /\ hourly \in [Series -> [Hours -> SUBSET Sample]]
      /\ \A x \in Series : \A h \in Hours : hourly[x][h] = {}
  BY <1>1 DEF Nothing
<1>3. /\ ring \in [Series -> Seq(Sample)]
      /\ \A x \in Series : ring[x] \in Seq(Sample) /\ ring[x] = <<>> /\ Len(ring[x]) <= MaxLen
      /\ \A x \in Series : DOMAIN ring[x] = {}
  BY <1>1, Bounds
<1>4. /\ NoJob \in [pc : {"idle", "server", "raw", "hourly"}, cutoff : Int, hourlyCutoff : Int,
                    summed : [Series -> SUBSET Sample], swept : [Series -> SUBSET Sample]]
      /\ NoJob.pc = "idle" /\ \A x \in Series : NoJob.summed[x] = {} /\ NoJob.swept[x] = {}
  BY <1>2 DEF NoJob
<1>5. NoPass \in [todo : SUBSET Servers, at : Times] /\ NoPass.todo = {} /\ 0 \in Times
  BY Bounds DEF NoPass, Times
<1>6. Typed
  BY <1>1, <1>2, <1>3, <1>4, <1>5, Bounds DEF Typed, HistoryTypeOK
<1>7. JobInv
  BY <1>1, <1>4 DEF JobInv
<1>8. PassInv
  BY <1>1, <1>5 DEF PassInv
<1>9. Ages
  BY <1>1, <1>2, <1>3 DEF Ages, RingInOrder, HoursInOrder
<1>10. StoreInv
  BY <1>1, <1>2, <1>3 DEF StoreInv, Raws, Stays, Newest, GoneStaysGone
<1> QED  BY <1>6, <1>7, <1>8, <1>9, <1>10 DEF Inv

LEMMA NextInv == Inv /\ [HistoryNext]_historyVars => Inv'
<1> SUFFICES ASSUME Inv, [HistoryNext]_historyVars PROVE Inv'
  OBVIOUS
<1>1. CASE CollectorTick
  BY <1>1, PassBegins
<1>2. CASE CollectPlatform
  BY <1>2, PlatformCollected
<1>3. ASSUME NEW s \in Servers, CollectServer(s) PROVE Inv'
  BY <1>3, ServerCollected
<1>4. CASE Rollup
  BY <1>4, JobSteps, RollupCommits DEF Rollup
<1>5. CASE Rollback
  BY <1>5, JobSteps
<1>6. CASE Restart
  BY <1>6, BackendDies
<1>7. CASE Tick
  BY <1>7, TimePasses
<1>8. ASSUME NEW s \in Servers, DeleteServer(s) PROVE Inv'
  BY <1>8, ServerDeleted
<1>9. CASE UNCHANGED historyVars
  <2>1. UNCHANGED <<now, running, pass, ring, raw, hourly, job, recorded, events>>
    BY <1>9 DEF historyVars
  <2>2. Typed' /\ JobInv'
    BY <2>1 DEF Inv, Typed, HistoryTypeOK, JobInv, Old
  <2>3. PassInv' /\ Ages' /\ StoreInv'
    BY <2>1 DEF Inv, PassInv, Ages, RingInOrder, HoursInOrder, HourOf, StoreInv, Raws, Stays,
       Newest, GoneStaysGone
  <2> QED  BY <2>2, <2>3 DEF Inv
<1> QED  BY <1>1, <1>2, <1>3, <1>4, <1>5, <1>6, <1>7, <1>8, <1>9 DEF HistoryNext

\* The two grains of one series share no sample.
LEMMA NothingTwice == Inv => CountedOnce
<1> SUFFICES ASSUME Inv PROVE CountedOnce
  OBVIOUS
<1>1. ASSUME NEW x \in Series, NEW h \in Hours, NEW p \in hourly[x][h]
      PROVE  HourOf(p) = h /\ p \notin raw[x]
  <2>1. HourOf(p) = h /\ \A q \in raw[x] : p.at < q.at
    BY DEF Inv, Ages, HoursInOrder
  <2>2. p.at \in Nat
    BY Bounds DEF Inv, Typed, HistoryTypeOK, Sample, Times
  <2> QED  BY <2>1, <2>2
<1>2. ASSUME NEW x \in Series, NEW a \in Answer(x, 0), NEW b \in Answer(x, 0), a # b
      PROVE  a[2] \cap b[2] = {}
  <2>1. ASSUME NEW c \in Answer(x, 0)
        PROVE  \/ \E p \in raw[x] : c = <<"raw", {p}>>
               \/ \E h \in Hours : c = <<"hourly", hourly[x][h]>>
    BY DEF Answer
  <2>2. ASSUME NEW p \in raw[x], NEW q \in raw[x], a = <<"raw", {p}>>, b = <<"raw", {q}>>
        PROVE  a[2] \cap b[2] = {}
    BY <1>2, <2>2
  <2>3. ASSUME NEW p \in raw[x], NEW h \in Hours, a = <<"raw", {p}>>, b = <<"hourly", hourly[x][h]>>
        PROVE  a[2] \cap b[2] = {}
    BY <1>1, <2>3
  <2>4. ASSUME NEW p \in raw[x], NEW h \in Hours, b = <<"raw", {p}>>, a = <<"hourly", hourly[x][h]>>
        PROVE  a[2] \cap b[2] = {}
    BY <1>1, <2>4
  <2>5. ASSUME NEW g \in Hours, NEW h \in Hours,
               a = <<"hourly", hourly[x][g]>>, b = <<"hourly", hourly[x][h]>>
        PROVE  a[2] \cap b[2] = {}
    <3>1. g # h
      BY <1>2, <2>5
    <3> QED  BY <1>1, <2>5, <3>1
  <2> QED  BY <2>1, <2>2, <2>3, <2>4, <2>5
<1> QED  BY <1>1, <1>2 DEF CountedOnce

\* Whatever fails, crashes, is deleted or overlaps: no sample is counted twice, the
\* last day is raw, sampled hours stay for their window, a deleted server leaves
\* nothing behind, and the ring holds what is newest, for any retention and any lag
\* of a collector shorter than the raw window.
THEOREM HistoryKeepsSamples == HistorySpec => []SamplesKept
<1>1. Inv => SamplesKept
  BY NothingTwice DEF Inv, Typed, StoreInv, Raws, Stays, Newest, SamplesKept, LastDayIsRaw,
     SampledHoursStay, GoneStaysGone, RingHoldsTheNewest
<1> QED  BY <1>1, InvInit, NextInv, PTL DEF HistorySpec
=============================================================================

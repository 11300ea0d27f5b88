----------------------------- MODULE Credential -----------------------------
(***************************************************************************)
(* What the platform promises of anything a caller shows to be let in, a   *)
(* session cookie or the integration key: it is let in only while it is    *)
(* active, and once over it never becomes active again.                    *)
(*                                                                         *)
(* Sessions and IntegrationKeys implement it (SessionsAreCredentials,      *)
(* KeysAreCredentials).                                                    *)
(***************************************************************************)
CONSTANTS
    Ids,        \* the credentials
    Callers,    \* requests that show one
    Nobody      \* inside[c] of a caller that was not let in

VARIABLES
    status,     \* of each credential
    inside      \* which credential each caller was let in with

Statuses == {"fresh", "active", "lapsed", "over"}

Init ==
    /\ status \in [Ids -> {"fresh", "active"}]
    /\ inside = [c \in Callers |-> Nobody]

\* Only somebody who is inside with a credential that idled can renew it.
After(i) ==
    {status[i]} \cup
    (CASE status[i] = "fresh"  -> {"active"}
       [] status[i] = "active" -> {"lapsed", "over"}
       [] status[i] = "lapsed" ->
            {"over"} \cup (IF \E c \in Callers : inside[c] = i THEN {"active"} ELSE {})
       [] OTHER -> {})

Enter(c, i) ==
    /\ inside[c] = Nobody /\ status[i] = "active"
    /\ inside' = [inside EXCEPT ![c] = i]
    /\ UNCHANGED status

\* Credentials are issued, idle, are renewed and end, and callers leave.
Settle ==
    /\ DOMAIN status' = Ids /\ \A i \in Ids : status'[i] \in After(i)
    /\ DOMAIN inside' = Callers /\ \A c \in Callers : inside'[c] \in {inside[c], Nobody}

Next == Settle \/ \E c \in Callers, i \in Ids : Enter(c, i)

Spec == Init /\ [][Next]_<<status, inside>>
=============================================================================

----------------------------- MODULE DriveAccount -----------------------------
(***************************************************************************)
(* The Google Drive the backups may go to (internal/server/gdrive_config.go *)
(* and backup_gdrive_client.go): an OAuth client, the account a consent     *)
(* connected, and the folder the first backup created there.  A consent     *)
(* leaves through AuthURL and comes back to Callback with the state that    *)
(* was stored; backups read the row, and write the folder into it later.    *)
(***************************************************************************)
EXTENDS Integers

CONSTANTS
    Apps,       \* OAuth clients an administrator may configure
    Accounts,   \* Google accounts that may consent
    Visits,     \* callbacks in flight together
    Uses,       \* backups in flight together
    None, Budget

Tokens == [app : Apps, account : Accounts]

DriveAssumption ==
    /\ None \notin Apps \cup Accounts \cup Tokens /\ Budget \in Nat
    /\ Apps # {} /\ Accounts # {}

VARIABLES
    gdrive,     \* the row of gdrive_connection
    flow,       \* consents: the client each stored state was issued for, in order
    expired,    \* states whose ten minutes are over
    visit,      \* callbacks: next call, state and account they bring, state they read, client of their code
    use,        \* backups: next call, token and folder they read, the row changed meanwhile
    completed,  \* history: how many callbacks each state let connect
    reusable,   \* history: states two callbacks read before one cleared it, or that one used and could not clear
    mixed,      \* history: the folder was left or put by another account than the connected one, no disconnect since
    active, rest, budget

driveVars == <<gdrive, flow, expired, visit, use, completed, reusable, mixed>>
Elsewhere == UNCHANGED <<rest, active>>

States == 1 .. Budget
NoVisit == [pc |-> "idle", state |-> 0, account |-> None, held |-> 0]
NoUse == [pc |-> "idle", token |-> None, folder |-> None, crossed |-> FALSE]

Connections == [app : Apps \cup {None}, token : Tokens \cup {None}, folder : Accounts \cup {None}, state : 0 .. Budget]
Callbacks == [pc : {"idle", "read", "clear", "exchange", "save"}, state : 0 .. Budget,
              account : Accounts \cup {None}, held : 0 .. Budget]
BackupCalls == [pc : {"idle", "folder", "keep", "store"}, token : Tokens \cup {None},
            folder : Accounts \cup {None}, crossed : BOOLEAN]

DriveTypeOK ==
    /\ gdrive \in Connections
    /\ flow \in [States -> Apps \cup {None}] /\ expired \subseteq States
    /\ visit \in [Visits -> Callbacks] /\ use \in [Uses -> BackupCalls]
    /\ completed \in [States -> 0 .. 2] /\ reusable \subseteq States /\ mixed \in BOOLEAN

-----------------------------------------------------------------------------
Charged == budget > 0 /\ budget' = budget - 1
Keep == UNCHANGED budget

\* A slot for the next callback: slots are interchangeable.
Ready(v) == visit[v].pc = "idle" /\ v = CHOOSE w \in Visits : visit[w].pc = "idle"
Issued == {s \in States : flow[s] # None}
VisitEnds(v) == visit' = [visit EXCEPT ![v] = NoVisit]
UseEnds(u) == use' = [use EXCEPT ![u] = NoUse]
\* The row changes under the backups that have read it.
Crossed == use' = [u \in Uses |-> [use[u] EXCEPT !.crossed = use[u].pc # "idle"]]

\* SetGDriveConfig: the token of the old client stays.
SetGDriveConfig(a) ==
    /\ active /\ a # gdrive.app /\ Charged
    /\ gdrive' = [gdrive EXCEPT !.app = a]
    /\ UNCHANGED <<flow, expired, visit, use, completed, reusable, mixed>> /\ Elsewhere

\* GDriveAuthURL: a new state takes the place of the stored one.
GDriveAuthURL ==
    /\ active /\ gdrive.app # None /\ Charged
    /\ \E s \in States \ Issued :
          /\ \A t \in States \ Issued : s <= t
          /\ flow' = [flow EXCEPT ![s] = gdrive.app] /\ gdrive' = [gdrive EXCEPT !.state = s]
    /\ UNCHANGED <<expired, visit, use, completed, reusable, mixed>> /\ Elsewhere

TenMinutesPass ==
    /\ active /\ Issued # expired /\ Charged
    /\ expired' = Issued
    /\ UNCHANGED <<gdrive, flow, visit, use, completed, reusable, mixed>> /\ Elsewhere

\* The browser comes back with a code of the account, and the state of its consent.
GDriveCallback(v, s, a) ==
    /\ active /\ Ready(v) /\ s \in Issued /\ Charged
    /\ visit' = [visit EXCEPT ![v] = [pc |-> "read", state |-> s, account |-> a, held |-> 0]]
    /\ UNCHANGED <<gdrive, flow, expired, use, completed, reusable, mixed>> /\ Elsewhere

ReadState(v) ==
    /\ visit[v].pc = "read" /\ Keep
    /\ visit' = [visit EXCEPT ![v].pc = "clear", ![v].held = gdrive.state]
    /\ reusable' = IF \E w \in Visits \ {v} : visit[w].pc = "clear" /\ visit[w].held = gdrive.state
                   THEN reusable \cup ({gdrive.state} \cap States) ELSE reusable
    /\ UNCHANGED <<gdrive, flow, expired, use, completed, mixed>> /\ Elsewhere

\* Mutant: the state is cleared when it is refused only.
ClearState_Refused(v) ==
    /\ visit[v].pc = "clear" /\ Keep
    /\ IF visit[v].held = visit[v].state /\ visit[v].state \notin expired
       THEN visit' = [visit EXCEPT ![v].pc = "exchange"] /\ UNCHANGED gdrive
       ELSE VisitEnds(v) /\ gdrive' = [gdrive EXCEPT !.state = 0]
    /\ UNCHANGED <<flow, expired, use, completed, reusable, mixed>> /\ Elsewhere

\* What was read of the stored state is the state of the request, and not expired.
Valid(v) == visit[v].held = visit[v].state /\ visit[v].state \notin expired

\* The stored state is cleared whatever it is, and a failure to clear it is not
\* looked at; then what was read of it has to be valid.
ClearState(v) ==
    /\ visit[v].pc = "clear"
    /\ \/ gdrive' = [gdrive EXCEPT !.state = 0] /\ Keep /\ UNCHANGED reusable
       \/ /\ UNCHANGED gdrive /\ Charged
          /\ reusable' = IF Valid(v) /\ gdrive.state = visit[v].state
                         THEN reusable \cup {gdrive.state} ELSE reusable
    /\ IF Valid(v) THEN visit' = [visit EXCEPT ![v].pc = "exchange"] ELSE VisitEnds(v)
    /\ UNCHANGED <<flow, expired, use, completed, mixed>> /\ Elsewhere

\* Exchange, with the client as it is configured now: Google takes the code from
\* the client it was issued for.
Exchange(v) ==
    /\ visit[v].pc = "exchange"
    /\ LET same == gdrive.app = flow[visit[v].state] IN
       \/ same /\ visit' = [visit EXCEPT ![v].pc = "save"] /\ Keep
       \/ VisitEnds(v) /\ IF same THEN Charged ELSE Keep
    /\ UNCHANGED <<gdrive, flow, expired, use, completed, reusable, mixed>> /\ Elsewhere

\* The token and the account are saved; the folder is not touched.
SaveToken(v) ==
    /\ visit[v].pc = "save" /\ VisitEnds(v) /\ Keep
    /\ gdrive' = [gdrive EXCEPT !.token = [app |-> flow[visit[v].state], account |-> visit[v].account]]
    /\ completed' = [completed EXCEPT ![visit[v].state] = IF @ = 2 THEN 2 ELSE @ + 1]
    /\ mixed' = (mixed \/ (gdrive.token # None /\ gdrive.token.account # visit[v].account))
    /\ Crossed
    /\ UNCHANGED <<flow, expired, reusable>> /\ Elsewhere

\* Mutant: the folder is kept for the next account.
GDriveDisconnect_KeepFolder ==
    /\ active /\ gdrive.token # None /\ Charged
    /\ gdrive' = [gdrive EXCEPT !.token = None]
    /\ mixed' = FALSE /\ Crossed
    /\ UNCHANGED <<flow, expired, visit, completed, reusable>> /\ Elsewhere

GDriveDisconnect ==
    /\ active /\ gdrive.token # None /\ Charged
    /\ gdrive' = [gdrive EXCEPT !.token = None, !.folder = None]
    /\ mixed' = FALSE /\ Crossed
    /\ UNCHANGED <<flow, expired, visit, completed, reusable>> /\ Elsewhere

-----------------------------------------------------------------------------
\* newGoogleDriveStorage: a backup reads the row.
UseDrive(u) ==
    /\ active /\ use[u].pc = "idle" /\ gdrive.token # None /\ Charged
    /\ use' = [use EXCEPT ![u] = [pc |-> IF gdrive.folder = None THEN "folder" ELSE "store",
                                    token |-> gdrive.token, folder |-> gdrive.folder, crossed |-> FALSE]]
    /\ UNCHANGED <<gdrive, flow, expired, visit, completed, reusable, mixed>> /\ Elsewhere

\* ensureBackupsFolder, in the account of the token that was read; Google
\* refuses a token of another client.
EnsureBackupsFolder(u) ==
    /\ use[u].pc = "folder"
    /\ LET valid == gdrive.app = use[u].token.app IN
       \/ valid /\ use' = [use EXCEPT ![u].pc = "keep", ![u].folder = use[u].token.account] /\ Keep
       \/ UseEnds(u) /\ IF valid THEN Charged ELSE Keep
    /\ UNCHANGED <<gdrive, flow, expired, visit, completed, reusable, mixed>> /\ Elsewhere

\* UPDATE gdrive_connection SET folder_id, whatever the row says by now
KeepFolder(u) ==
    /\ use[u].pc = "keep" /\ Keep
    /\ gdrive' = [gdrive EXCEPT !.folder = use[u].folder]
    /\ mixed' = (mixed \/ use[u].crossed)
    /\ use' = [use EXCEPT ![u].pc = "store"]
    /\ UNCHANGED <<flow, expired, visit, completed, reusable>> /\ Elsewhere

\* Store, Open or Delete: the Drive refuses a folder of another account.
StoreInDrive(u) ==
    /\ use[u].pc = "store" /\ UseEnds(u) /\ Keep
    /\ UNCHANGED <<gdrive, flow, expired, visit, completed, reusable, mixed>> /\ Elsewhere

DriveDropped ==
    /\ visit' = [v \in Visits |-> NoVisit] /\ use' = [u \in Uses |-> NoUse]
    /\ UNCHANGED <<gdrive, flow, expired, completed, reusable, mixed>>

DriveInit ==
    /\ LET a == CHOOSE a \in Apps : TRUE
           x == CHOOSE x \in Accounts : TRUE
           new == [app |-> None, token |-> None, folder |-> None, state |-> 0]
           connected == [new EXCEPT !.app = a, !.token = [app |-> a, account |-> x]]
       IN gdrive \in IF active THEN {new, connected, [connected EXCEPT !.folder = x]} ELSE {new}
    /\ flow = [s \in States |-> None] /\ expired = {}
    /\ visit = [v \in Visits |-> NoVisit] /\ use = [u \in Uses |-> NoUse]
    /\ completed = [s \in States |-> 0] /\ reusable = {} /\ mixed = FALSE

-----------------------------------------------------------------------------
(* What has to hold *)

\* A consent connects an account once, however many callbacks come with its
\* state; except for callbacks that read the state before either cleared it, and
\* for a state whose clearing failed under the callback it let through
\* (gdrive_config.go:158 ignores the error).
StateConnectsOnce == \A s \in States \ reusable : completed[s] <= 1

\* The folder belongs to the account that is connected, so that the next backup
\* can be stored; except after a consent of another account without a disconnect
\* between, or when a backup writes the folder after the connection changed.
FolderIsOfAccount ==
    ~mixed /\ gdrive.token # None /\ gdrive.folder # None => gdrive.folder = gdrive.token.account
=============================================================================

-------------------------- MODULE IsolatedDatabases --------------------------
(***************************************************************************)
(* Databases with a role of their own (internal/server/test_databases.go,  *)
(* databases.go): "new database" and "test database" create a role, a      *)
(* database it owns and grants in it, one statement after the other, and   *)
(* take back what they made when one fails.                                *)
(***************************************************************************)
EXTENDS Naturals

CONSTANTS
    Databases,  \* names asked for; a role has the name of its database
    Clients,    \* requests in flight together
    None, Budget

DatabaseAssumption == Budget \in Nat /\ None \notin Databases

VARIABLES
    role,       \* the server's roles of these names
    database,   \* its databases of these names: whose, and granted what
    ask,        \* requests: next statement, name, what failed
    promised,   \* history: databases whose creation was answered, not dropped since
    halved,     \* history: names an attempt left half-made
    active, rest, budget

databaseVars == <<role, database, ask, promised, halved>>
Elsewhere == UNCHANGED <<rest, active>>

NoAsk == [pc |-> "idle", name |-> None, maker |-> FALSE, closed |-> TRUE]

DatabaseTypeOK ==
    /\ role \subseteq Databases /\ promised \subseteq Databases /\ halved \subseteq Databases
    /\ database \in [Databases -> {"absent", "owned", "granted"}]
    /\ ask \in [Clients -> [pc : {"idle", "role", "database", "connect", "grant", "undatabase", "unrole"},
                            name : Databases \cup {None}, maker : BOOLEAN, closed : BOOLEAN]]

-----------------------------------------------------------------------------
Charged == budget > 0 /\ budget' = budget - 1
Keep == UNCHANGED budget
At(q, pc) == ask[q].pc = pc
Goes(q, pc) == ask' = [ask EXCEPT ![q].pc = pc]
Gone(q) == ask' = [ask EXCEPT ![q] = NoAsk]
Name(q) == ask[q].name

\* CreateDatabase, CreateTestDatabase
CreateDatabase(q, n) ==
    /\ active /\ At(q, "idle") /\ Charged
    /\ ask' = [ask EXCEPT ![q] = [NoAsk EXCEPT !.pc = "role", !.name = n]]
    /\ UNCHANGED <<role, database, promised, halved>> /\ Elsewhere

\* Mutant: whatever fails is cleaned up after.
CreateRole_AlwaysCleansUp(q) ==
    /\ At(q, "role")
    /\ IF Name(q) \in role THEN Goes(q, "undatabase") /\ UNCHANGED role
       ELSE /\ role' = role \cup {Name(q)}
            /\ ask' = [ask EXCEPT ![q].pc = "database", ![q].maker = TRUE]
    /\ UNCHANGED <<database, promised, halved>> /\ Keep /\ Elsewhere

\* The name of a role that is there ends the request, and nothing is undone.
CreateRole(q) ==
    LET free == Name(q) \notin role IN
    /\ At(q, "role")
    /\ \/ /\ free /\ role' = role \cup {Name(q)} /\ Keep
          /\ ask' = [ask EXCEPT ![q].pc = "database", ![q].maker = TRUE]
       \/ Gone(q) /\ UNCHANGED role /\ (IF free THEN Charged ELSE Keep)
    /\ UNCHANGED <<database, promised, halved>> /\ Elsewhere

\* Mutant: a role whose database cannot be created stays.
MakeDatabase_KeepsRole(q) ==
    LET free == database[Name(q)] = "absent" IN
    /\ At(q, "database")
    /\ \/ /\ free /\ database' = [database EXCEPT ![Name(q)] = "owned"] /\ Goes(q, "connect") /\ Keep
       \/ Gone(q) /\ UNCHANGED database /\ (IF free THEN Charged ELSE Keep)
    /\ UNCHANGED <<role, promised, halved>> /\ Elsewhere

MakeDatabase(q) ==
    LET free == database[Name(q)] = "absent" IN
    /\ At(q, "database")
    /\ \/ /\ free /\ database' = [database EXCEPT ![Name(q)] = "owned"] /\ Goes(q, "connect") /\ Keep
       \/ Goes(q, "unrole") /\ UNCHANGED database /\ (IF free THEN Charged ELSE Keep)
    /\ UNCHANGED <<role, promised, halved>> /\ Elsewhere

\* The connection to the new database is open until the request ends.
Connect(q) ==
    LET there == database[Name(q)] # "absent" IN
    /\ At(q, "connect")
    /\ \/ there /\ ask' = [ask EXCEPT ![q].pc = "grant", ![q].closed = FALSE] /\ Keep
       \/ Goes(q, "undatabase") /\ (IF there THEN Charged ELSE Keep)
    /\ UNCHANGED <<role, database, promised, halved>> /\ Elsewhere

\* The three grants; they fail too when the database is dropped, with its
\* connections, or when this connection breaks.
Grant(q) ==
    LET there == database[Name(q)] # "absent" /\ Name(q) \in role IN
    /\ At(q, "grant")
    /\ \/ /\ there /\ database' = [database EXCEPT ![Name(q)] = "granted"] /\ Gone(q) /\ Keep
          /\ promised' = promised \cup {Name(q)}
       \/ /\ ask' \in {[ask EXCEPT ![q].pc = "undatabase", ![q].closed = c] : c \in BOOLEAN}
          /\ UNCHANGED <<database, promised>> /\ (IF there THEN Charged ELSE Keep)
    /\ UNCHANGED <<role, halved>> /\ Elsewhere

\* DROP DATABASE without FORCE is refused while a connection is open; both
\* errors of the undoing are ignored.
UndoDatabase(q) ==
    /\ At(q, "undatabase") /\ Goes(q, "unrole")
    /\ \/ ask[q].closed /\ database' = [database EXCEPT ![Name(q)] = "absent"] /\ Keep
       \/ UNCHANGED database /\ (IF ask[q].closed THEN Charged ELSE Keep)
    /\ UNCHANGED <<role, promised, halved>> /\ Elsewhere

\* The owner of a database cannot be dropped.
UndoRole(q) ==
    LET free == database[Name(q)] = "absent" IN
    /\ At(q, "unrole") /\ Gone(q)
    /\ \/ free /\ role' = role \ {Name(q)} /\ UNCHANGED halved /\ Keep
       \/ UNCHANGED role /\ halved' = halved \cup {Name(q)} /\ (IF free THEN Charged ELSE Keep)
    /\ UNCHANGED <<database, promised>> /\ Elsewhere

\* DropDatabase: with FORCE, and the role stays.
DropDatabase(n) ==
    /\ active /\ database[n] # "absent" /\ Charged
    /\ database' = [database EXCEPT ![n] = "absent"] /\ promised' = promised \ {n}
    /\ halved' = halved \cup {n}
    /\ UNCHANGED <<role, ask>> /\ Elsewhere

\* The backend dies; the statements that are through stay.
DatabasesDropped ==
    /\ ask' = [q \in Clients |-> NoAsk]
    /\ halved' = halved \cup ({Name(q) : q \in {q \in Clients : ask[q].maker}} \ {None})
    /\ UNCHANGED <<role, database, promised>>

DatabaseInit ==
    /\ role = {} /\ database = [n \in Databases |-> "absent"] /\ ask = [q \in Clients |-> NoAsk]
    /\ promised = {} /\ halved = {}

-----------------------------------------------------------------------------
(* What has to hold *)

\* A database whose creation was answered is there with its role and grants
\* until it is dropped: no attempt under the same name, refused or failing at
\* any statement, takes back what it did not make.
PromisedIsThere == \A n \in promised : database[n] = "granted" /\ n \in role

\* Every attempt ends with both role and database or with neither, but for the
\* names a crash, an undoing that failed or a deletion left half-made.
AllOrNothing ==
    \A n \in Databases \ halved :
        (\A q \in Clients : ask[q].name = n => ~ask[q].maker) =>
            (n \in role <=> database[n] = "granted") /\ (n \notin role => database[n] = "absent")
=============================================================================

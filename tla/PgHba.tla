-------------------------------- MODULE PgHba --------------------------------
(***************************************************************************)
(* Rules of pg_hba.conf (internal/server/hba.go): an edit reads the whole  *)
(* file from the container, changes it in memory, writes it back and has   *)
(* PostgreSQL reload it.  Nothing keeps two edits apart.                   *)
(***************************************************************************)
EXTENDS Integers, SequencesExt

CONSTANTS
    Rules,      \* lines of rules, as the page shows them
    Broken,     \* those PostgreSQL cannot parse: nothing checks their addresses
    Editors,    \* requests in flight together
    MaxRules,   \* bound on the length of the file
    None, Budget

HbaAssumption ==
    /\ MaxRules \in Nat /\ Budget \in Nat /\ None \notin Rules
    /\ Broken \subseteq Rules /\ Rules \ Broken # {}

VARIABLES
    conf,       \* the file: its rules, in order
    effective,  \* the rules PostgreSQL has loaded
    edit,       \* requests: next call, rule, what they read
    written,    \* history: rules added, and not deleted since
    undone,     \* history: rules an edit took away that was made on an older file
    unloaded,   \* history: a reload failed, and none has succeeded since
    active, rest, budget

hbaVars == <<conf, effective, edit, written, undone, unloaded>>
Elsewhere == UNCHANGED <<rest, active>>

NoEdit == [pc |-> "idle", op |-> "none", rule |-> None, place |-> 0, read |-> <<>>]
Confs == SeqOf(Rules, MaxRules)

\* PostgreSQL takes a file whole: one line it cannot parse, or none at all, and
\* it keeps the rules it has.
Loads(c) == c # <<>> /\ Range(c) \cap Broken = {}

HbaTypeOK ==
    /\ conf \in Confs /\ effective \in Confs /\ unloaded \in BOOLEAN
    /\ edit \in [Editors -> [pc : {"idle", "read", "write", "reload"}, op : {"none", "add", "delete"},
                             rule : Rules \cup {None}, place : 0 .. MaxRules, read : Confs]]
    /\ written \subseteq Rules /\ undone \subseteq Rules

-----------------------------------------------------------------------------
Charged == budget > 0 /\ budget' = budget - 1
Keep == UNCHANGED budget

\* AddHbaRule, the running server found
AddHbaRule(e, r) ==
    /\ active /\ edit[e].pc = "idle" /\ Charged
    /\ edit' = [edit EXCEPT ![e] = [NoEdit EXCEPT !.pc = "read", !.op = "add", !.rule = r]]
    /\ UNCHANGED <<conf, effective, written, undone, unloaded>> /\ Elsewhere

\* DeleteHbaRule, of a line the page shows
DeleteHbaRule(e, i) ==
    /\ active /\ edit[e].pc = "idle" /\ i \in DOMAIN conf /\ Charged
    /\ edit' = [edit EXCEPT ![e] = [NoEdit EXCEPT !.pc = "read", !.op = "delete", !.rule = conf[i], !.place = i]]
    /\ UNCHANGED <<conf, effective, written, undone, unloaded>> /\ Elsewhere

Ends(e) == edit' = [edit EXCEPT ![e] = NoEdit]

\* ReadFileFromContainer; the deletion of a line that is not there is an error.
ReadHba(e) ==
    /\ edit[e].pc = "read"
    /\ \/ /\ edit[e].op = "add" \/ Contains(conf, edit[e].rule)
          /\ edit[e].op = "add" => Len(conf) < MaxRules
          /\ edit' = [edit EXCEPT ![e].pc = "write", ![e].read = conf] /\ Keep
       \/ Ends(e) /\ (IF edit[e].op = "add" \/ Contains(conf, edit[e].rule) THEN Charged ELSE Keep)
    /\ UNCHANGED <<conf, effective, written, undone, unloaded>> /\ Elsewhere

\* Mutant: the line to delete is found by its place on the page.
Edited_ByPlace(e) ==
    LET x == edit[e] IN
    IF x.op = "add" THEN Append(x.read, x.rule)
    ELSE IF x.place \in DOMAIN x.read THEN RemoveAt(x.read, x.place) ELSE x.read

\* The new rule is the last one; the first line equal to the one to delete goes.
Edited(e) ==
    LET x == edit[e] IN
    IF x.op = "add" THEN Append(x.read, x.rule) ELSE RemoveFirst(x.read, x.rule)

\* WriteFileToContainer
WriteHba(e) ==
    /\ edit[e].pc = "write"
    /\ \/ /\ conf' = Edited(e) /\ edit' = [edit EXCEPT ![e].pc = "reload"] /\ Keep
          /\ undone' = undone \cup {r \in Range(conf) \cup Range(edit[e].read) :
                                       Contains(conf, r) # Contains(edit[e].read, r)}
          /\ written' = IF edit[e].op = "add" THEN written \cup {edit[e].rule} ELSE written \ {edit[e].rule}
       \/ Ends(e) /\ UNCHANGED <<conf, written, undone>> /\ Charged
    /\ UNCHANGED <<effective, unloaded>> /\ Elsewhere

\* Mutant: PostgreSQL is not asked to reload after a deletion.
ReloadHba_AddedOnly(e) ==
    /\ edit[e].pc = "reload" /\ Ends(e) /\ Keep
    /\ effective' = IF edit[e].op = "add" /\ Loads(conf) THEN conf ELSE effective
    /\ UNCHANGED <<conf, written, undone, unloaded>> /\ Elsewhere

\* reloadHba: pg_reload_conf succeeds whether PostgreSQL takes the file as it is
\* now or logs what is wrong with it; when the call fails, the request does, and
\* the file stays changed.
ReloadHba(e) ==
    /\ edit[e].pc = "reload" /\ Ends(e)
    /\ \/ /\ effective' = IF Loads(conf) THEN conf ELSE effective
          /\ unloaded' = FALSE /\ Keep
       \/ unloaded' = TRUE /\ UNCHANGED effective /\ Charged
    /\ UNCHANGED <<conf, written, undone>> /\ Elsewhere

HbaDropped ==
    /\ edit' = [e \in Editors |-> NoEdit]
    /\ unloaded' = (unloaded \/ \E e \in Editors : edit[e].pc = "reload")
    /\ UNCHANGED <<conf, effective, written, undone>>

HbaInit ==
    /\ conf = <<CHOOSE r \in Rules \ Broken : TRUE>>
    /\ effective = conf /\ written = {} /\ undone = {} /\ unloaded = FALSE
    /\ edit = [e \in Editors |-> NoEdit]

-----------------------------------------------------------------------------
(* What has to hold *)

\* A rule that was added stays in the file until it is deleted, whatever other
\* lines come and go, unless an edit made on an older file overwrote it.
AddedRulesStay == \A r \in written \ undone : Contains(conf, r)

\* When no edit is between its write and its reload and the last reload worked,
\* PostgreSQL applies the file, in whatever order overlapping edits came; except a
\* file with a line it cannot parse, or with none: no edit is refused for that
\* (hba.go:168-171), and the rules before it stay in effect until it is repaired.
EffectiveIsFile ==
    (\A e \in Editors : edit[e].pc # "reload") /\ ~unloaded =>
        effective = conf \/ ~Loads(conf)
=============================================================================

---------------------------- MODULE VolumeBackups ----------------------------
(***************************************************************************)
(* Backups of Docker volumes (internal/infra/volume_backups.go) and the    *)
(* file manager of volumes (internal/infra/container_files.go).            *)
(*                                                                         *)
(* A volume is read and written through a helper container that mounts it  *)
(* (withVolumeHelper).  A backup is a row and a file named after the       *)
(* volume and the second; a restore fills a volume from the file.          *)
(***************************************************************************)
EXTENDS Integers, FiniteSets

CONSTANTS
    Stores,     \* volumes
    Seconds,    \* 1 .. n, the seconds in which backups begin
    Backups,    \* rows of volume_backups
    Contents,   \* 1 .. n, what applications write to volumes
    Hands,      \* requests in flight together
    None, Budget

VolumeAssumption ==
    /\ Seconds \subseteq Nat \ {0} /\ {1, 2} \subseteq Contents /\ Contents \subseteq 1 .. 9 /\ Budget \in Nat
    /\ None \notin Stores \cup Backups \cup Int /\ 1 \in Seconds /\ IsFiniteSet(Hands)

Empty == 0      \* a volume without data
Mixed == -1     \* some of one content and some of another
Partial == -2   \* the first part of a backup

VARIABLES
    vol,        \* volumes: None, or what is in them
    second,     \* the clock, in seconds
    vb,         \* volume_backups
    tar,        \* backup files, by volume and second: None, or what is in them
    hand,       \* requests: their next step
    helpers,    \* number of helper containers
    took,       \* what the volume of a backup held while it was copied
    filled,     \* history: volumes a restore filled, and with what backup
    shared,     \* history: rows whose file is another row's too
    astray,      \* history: rows whose file was not closed or removed, or deleted while it was written
    crowded,    \* history: volumes with two requests at a time
    litter,     \* history: helpers that did not start, were not removed, or met a crash
    active, filing, rest, budget    \* filing: whether the file manager is in use

volumeVars == <<vol, second, vb, tar, hand, helpers, took, filled, shared, astray, crowded, litter>>
Elsewhere == UNCHANGED <<rest, active, filing>>

\* What a content is when it is all in a directory "vol"
Inside(d) == IF d = Mixed THEN Mixed ELSE d + 10
Data == Nat \cup {Mixed}
NoRow == [state |-> "absent", store |-> None, at |-> 0]
Free == [pc |-> "idle", op |-> "none", row |-> None, store |-> None, new |-> FALSE, ok |-> FALSE, data |-> Empty]

VolumeTypeOK ==
    /\ vol \in [Stores -> Data \cup {None}] /\ second \in Seconds
    /\ vb \in [Backups -> [state : {"absent", "running", "completed", "failed", "deleted"},
                           store : Stores \cup {None}, at : Seconds \cup {0}]]
    /\ tar \in [Stores \X Seconds -> Data \cup {Partial, None}]
    /\ hand \in [Hands -> [pc : {"idle", "insert", "helper", "stream", "copy", "close", "unhelp", "complete",
                                 "fail", "volume", "open", "clear", "upload", "unlink",
                                 "browse", "change", "serve"},
                           op : {"none", "backup", "restore", "delete", "read", "write", "stat", "download"}, row : Backups \cup {None},
                           store : Stores \cup {None}, new : BOOLEAN, ok : BOOLEAN, data : Data \cup {Partial, None}]]
    /\ helpers \in Nat /\ litter \in Nat
    /\ took \in [Backups -> SUBSET Data] /\ filled \in [Stores -> Data \cup {Partial, None}]
    /\ shared \subseteq Backups /\ astray \subseteq Backups /\ crowded \subseteq Stores

-----------------------------------------------------------------------------
Charged == budget > 0 /\ budget' = budget - 1
Keep == UNCHANGED budget
Step(h, pc) == hand' = [hand EXCEPT ![h].pc = pc]
Listed(b) == vb[b].state \in {"running", "completed", "failed"}
File(b) == <<vb[b].store, vb[b].at>>
HasRoom(h) == hand[h].pc = "idle" /\ h = CHOOSE g \in Hands : hand[g].pc = "idle"
Busy(s) == \E h \in Hands : hand[h].op \in {"restore", "write"} /\ hand[h].store = s
Crowds(s) == crowded' = IF Busy(s) THEN crowded \cup {s} ELSE crowded
\* What a copy under way may see of its volume
Copying(b) == {h \in Hands : hand[h].pc = "copy" /\ hand[h].row = b}
Seen == took' = [b \in Backups |-> took[b] \cup {vol'[hand[h].store] : h \in Copying(b)}]
\* What it can make of what it sees
Archives(seen) == seen \cup (IF \E c, d \in seen : c # d THEN {Mixed} ELSE {})
InUse(b) == \E h \in Hands : hand[h].pc # "idle" /\ hand[h].row = b

\* What the archive and exec calls of the Docker client do to a volume
Holds(s, d) == [vol EXCEPT ![s] = d]
Cleared(s) == Holds(s, Empty)                   \* find -mindepth 1 -delete
HalfDone(s) == {vol, Holds(s, Mixed)}           \* a tar, or a deletion, that breaks off
OneFileMore(s) == {Holds(s, c) : c \in Contents \ {vol[s]}}

-----------------------------------------------------------------------------
(* Requests *)

\* BackupVolume: the row; a name no volume has makes Docker create the volume later.
BackupVolume(h, s) ==
    /\ active /\ HasRoom(h) /\ Charged
    /\ LET b == CHOOSE b \in Backups : vb[b].state = "absent" IN
         /\ \E a \in Backups : vb[a].state = "absent"
         /\ vb' = [vb EXCEPT ![b] = [state |-> "running", store |-> s, at |-> second]]
         /\ hand' = [hand EXCEPT ![h] = [Free EXCEPT !.pc = "helper", !.op = "backup", !.row = b, !.store = s]]
         /\ shared' = shared \cup (IF \E a \in Backups : vb[a].store = s /\ vb[a].at = second
                                   THEN {b} \cup {a \in Backups : vb[a].store = s /\ vb[a].at = second} ELSE {})
    /\ UNCHANGED <<vol, second, tar, helpers, took, filled, astray, crowded, litter>> /\ Elsewhere

\* RestoreVolumeBackup, into a volume it creates or over one that is there
RestoreVolumeBackup(h, b, s, new) ==
    /\ active /\ HasRoom(h) /\ vb[b].state = "completed" /\ Charged
    /\ hand' = [hand EXCEPT ![h] = [Free EXCEPT !.pc = IF new THEN "volume" ELSE "open", !.op = "restore",
                                              !.row = b, !.store = s, !.new = new]]
    /\ Crowds(s)
    /\ UNCHANGED <<vol, second, vb, tar, helpers, took, filled, shared, astray, litter>> /\ Elsewhere

\* DeleteVolumeBackup, in whatever state the backup is
DeleteVolumeBackup(h, b) ==
    /\ active /\ HasRoom(h) /\ Listed(b) /\ Charged
    /\ vb' = [vb EXCEPT ![b].state = "deleted"]
    /\ hand' = [hand EXCEPT ![h] = [Free EXCEPT !.pc = "unlink", !.op = "delete", !.row = b]]
    /\ astray' = IF \E g \in Hands : hand[g].op = "backup" /\ hand[g].row = b THEN astray \cup {b} ELSE astray
    /\ UNCHANGED <<vol, second, tar, helpers, took, filled, shared, crowded, litter>> /\ Elsewhere

\* The file manager: a list, a file or its properties; a file that is written,
\* uploaded or deleted; a download, which asks for the properties first.
UseFiles(h, s, op) ==
    /\ active /\ filing /\ HasRoom(h) /\ Charged /\ op \in {"read", "write", "stat"}
    /\ hand' = [hand EXCEPT ![h] = [Free EXCEPT !.pc = "helper", !.op = op, !.store = s]]
    /\ IF op = "write" THEN Crowds(s) ELSE UNCHANGED crowded
    /\ UNCHANGED <<vol, second, vb, tar, helpers, took, filled, shared, astray, litter>> /\ Elsewhere

-----------------------------------------------------------------------------
(* withVolumeHelper *)

\* The function of the helper is over: the helper goes, then the request ends.
Leaves(h, ok) == hand' = [hand EXCEPT ![h].pc = "unhelp", ![h].ok = ok]
\* What follows: a backup completes or fails, a download makes its own helper,
\* all others answer.
After(h, ok) ==
    hand' = [hand EXCEPT ![h] =
        CASE hand[h].op = "backup" -> [@ EXCEPT !.pc = IF ok THEN "complete" ELSE "fail"]
          [] hand[h].op = "stat" /\ ok -> [@ EXCEPT !.pc = "helper", !.op = "download"]
          [] OTHER -> Free]
FirstStep(h) ==
    CASE hand[h].op = "backup" -> "stream"
      [] hand[h].op = "restore" -> IF hand[h].new THEN "upload" ELSE "clear"
      [] hand[h].op = "write" -> "change"
      [] hand[h].op = "download" -> "serve"
      [] OTHER -> "browse"

\* CreateGenericContainer; a helper that is created and does not start stays.
MakeHelper(h) ==
    LET s == hand[h].store IN
    /\ hand[h].pc = "helper"
    /\ \/ /\ vol' = [vol EXCEPT ![s] = IF @ = None THEN Empty ELSE @] /\ Keep
          /\ Step(h, FirstStep(h))
          /\ helpers' = helpers + 1 /\ UNCHANGED litter
       \/ /\ After(h, FALSE) /\ UNCHANGED vol /\ Charged
          /\ \/ helpers' = helpers + 1 /\ litter' = litter + 1
             \/ UNCHANGED <<helpers, litter>>
    /\ UNCHANGED <<second, vb, tar, took, filled, shared, astray, crowded>> /\ Elsewhere

\* Mutant: the helper is removed under the request's context.
RemoveHelper_RequestContext(h) ==
    /\ hand[h].pc = "unhelp" /\ After(h, hand[h].ok) /\ Keep
    /\ helpers' = IF hand[h].ok THEN helpers - 1 ELSE helpers
    /\ UNCHANGED <<vol, second, vb, tar, took, filled, shared, astray, crowded, litter>> /\ Elsewhere

\* The deferred RemoveContainer, under a context of its own; its error is ignored.
RemoveHelper(h) ==
    /\ hand[h].pc = "unhelp" /\ After(h, hand[h].ok)
    /\ \/ helpers' = helpers - 1 /\ UNCHANGED litter /\ Keep
       \/ litter' = litter + 1 /\ UNCHANGED helpers /\ Charged
    /\ UNCHANGED <<vol, second, vb, tar, took, filled, shared, astray, crowded>> /\ Elsewhere

-----------------------------------------------------------------------------
(* The rest of a backup *)

\* DownloadFromContainer, which opens the stream, and os.Create
Stream(h) ==
    LET b == hand[h].row IN
    /\ hand[h].pc = "stream"
    /\ \/ /\ tar' = [tar EXCEPT ![File(b)] = Partial] /\ Step(h, "copy") /\ Keep
          /\ took' = [took EXCEPT ![b] = @ \cup {vol[hand[h].store]}]
       \/ Leaves(h, FALSE) /\ UNCHANGED <<tar, took>> /\ Charged
    /\ UNCHANGED <<vol, second, vb, helpers, filled, shared, astray, crowded, litter>> /\ Elsewhere

\* io.Copy, during which applications go on writing; it may break off half-way.
Copy(h) ==
    /\ hand[h].pc = "copy"
    /\ \/ \E d \in Archives(took[hand[h].row]) :
             hand' = [hand EXCEPT ![h].pc = "close", ![h].data = d] /\ Keep
       \/ Leaves(h, FALSE) /\ Charged
    /\ UNCHANGED <<vol, second, vb, tar, helpers, took, filled, shared, astray, crowded, litter>> /\ Elsewhere

\* The deferred Close of gzip writer and file, whose errors nobody looks at
Close(h) ==
    LET b == hand[h].row IN
    /\ hand[h].pc = "close" /\ Leaves(h, TRUE)
    /\ \/ tar' = [tar EXCEPT ![File(b)] = hand[h].data] /\ UNCHANGED astray /\ Keep
       \/ astray' = astray \cup {b} /\ UNCHANGED tar /\ Charged
    /\ UNCHANGED <<vol, second, vb, helpers, took, filled, shared, crowded, litter>> /\ Elsewhere

\* The row may have been deleted meanwhile: then nothing is updated.
Sets(b, state) == vb' = IF Listed(b) THEN [vb EXCEPT ![b].state = state] ELSE vb

Complete(h) ==
    /\ hand[h].pc = "complete" /\ hand' = [hand EXCEPT ![h] = Free]
    /\ \/ Sets(hand[h].row, "completed") /\ Keep
       \/ UNCHANGED vb /\ Charged
    /\ UNCHANGED <<vol, second, tar, helpers, took, filled, shared, astray, crowded, litter>> /\ Elsewhere

\* Mutant: the file of a backup that failed stays.
Fail_KeepsFile(h) ==
    /\ hand[h].pc = "fail" /\ hand' = [hand EXCEPT ![h] = Free]
    /\ Sets(hand[h].row, "failed") /\ Keep
    /\ UNCHANGED <<vol, second, tar, helpers, took, filled, shared, astray, crowded, litter>> /\ Elsewhere

\* os.Remove, then the row, which stays "running" when the client is gone
Fail(h) ==
    LET b == hand[h].row IN
    /\ hand[h].pc = "fail" /\ hand' = [hand EXCEPT ![h] = Free]
    /\ \/ /\ tar' = [tar EXCEPT ![File(b)] = None] /\ UNCHANGED astray
          /\ (Sets(b, "failed") /\ Keep) \/ (UNCHANGED vb /\ Charged)
       \/ astray' = astray \cup {b} /\ UNCHANGED tar /\ Sets(b, "failed") /\ Charged
    /\ UNCHANGED <<vol, second, helpers, took, filled, shared, crowded, litter>> /\ Elsewhere

-----------------------------------------------------------------------------
(* The rest of a restore and of a deletion *)

\* CreateVolume: a volume of that name is taken as it is.
CreateVolume(h) ==
    LET s == hand[h].store IN
    /\ hand[h].pc = "volume"
    /\ \/ /\ vol' = [vol EXCEPT ![s] = IF @ = None THEN Empty ELSE @] /\ Step(h, "open") /\ Keep
       \/ hand' = [hand EXCEPT ![h] = Free] /\ UNCHANGED vol /\ Charged
    /\ UNCHANGED <<second, vb, tar, helpers, took, filled, shared, astray, crowded, litter>> /\ Elsewhere

\* The file is read through this descriptor to the end, deleted or not.
Open(h) ==
    /\ hand[h].pc = "open" /\ Keep
    /\ hand' = [hand EXCEPT ![h] = IF tar[File(hand[h].row)] = None THEN Free
                                   ELSE [@ EXCEPT !.pc = "helper", !.data = tar[File(hand[h].row)]]]
    /\ UNCHANGED <<vol, second, vb, tar, helpers, took, filled, shared, astray, crowded, litter>> /\ Elsewhere

\* Mutant: what cannot be cleared is passed over.
Clear_BestEffort(h) ==
    LET s == hand[h].store IN
    /\ hand[h].pc = "clear"
    /\ \/ vol' = Cleared(s) /\ Step(h, "upload") /\ Keep
       \/ UNCHANGED vol /\ Step(h, "upload") /\ Charged
    /\ filled' = [filled EXCEPT ![s] = None]
    /\ Seen
    /\ UNCHANGED <<second, vb, tar, helpers, shared, astray, crowded, litter>> /\ Elsewhere

Clear(h) ==
    LET s == hand[h].store IN
    /\ hand[h].pc = "clear"
    /\ \/ vol' = Cleared(s) /\ Step(h, "upload") /\ Keep
       \/ vol' \in HalfDone(s) /\ Leaves(h, FALSE) /\ Charged
    /\ filled' = [filled EXCEPT ![s] = None]
    /\ Seen
    /\ UNCHANGED <<second, vb, tar, helpers, shared, astray, crowded, litter>> /\ Elsewhere

\* Over whatever the volume holds; a file that was not closed ends the upload.
\* The stream of a directory names it in every entry (docker/files.go:113), and
\* UploadArchiveToContainer extracts it as it is: what was in the volume comes
\* back in a directory of it, with the name of the mount point.
Upload(h) ==
    LET s == hand[h].store
        d == hand[h].data
    IN
    /\ hand[h].pc = "upload"
    /\ \/ /\ d # Partial /\ Leaves(h, TRUE) /\ Keep
          /\ vol' = [vol EXCEPT ![s] = IF @ \in {Empty, Inside(d)} THEN Inside(d) ELSE Mixed]
          /\ filled' = [filled EXCEPT ![s] = IF vol[s] = Empty \/ ~hand[h].new THEN d ELSE None]
       \/ /\ vol' \in HalfDone(s) /\ Leaves(h, FALSE)
          /\ filled' = [filled EXCEPT ![s] = None]
          /\ IF d = Partial THEN Keep ELSE Charged
    /\ Seen
    /\ UNCHANGED <<second, vb, tar, helpers, shared, astray, crowded, litter>> /\ Elsewhere

\* os.Remove; its error is ignored.
Unlink(h) ==
    LET b == hand[h].row IN
    /\ hand[h].pc = "unlink" /\ hand' = [hand EXCEPT ![h] = Free]
    /\ \/ tar' = [tar EXCEPT ![File(b)] = None] /\ UNCHANGED astray /\ Keep
       \/ astray' = astray \cup {b} /\ UNCHANGED tar /\ Charged
    /\ UNCHANGED <<vol, second, vb, helpers, took, filled, shared, crowded, litter>> /\ Elsewhere

-----------------------------------------------------------------------------
(* The rest of the file manager *)

\* ListDirectoryInContainer, ReadFileFromContainer, StatPathInContainer
Browse(h) ==
    /\ hand[h].pc = "browse"
    /\ (Leaves(h, TRUE) /\ Keep) \/ (Leaves(h, FALSE) /\ Charged)
    /\ UNCHANGED <<vol, second, vb, tar, helpers, took, filled, shared, astray, crowded, litter>> /\ Elsewhere

\* WriteFileToContainer, UploadFileToContainer, DeleteInContainer: a tar that
\* breaks off, or a deletion half done, leaves some of each.
Change(h) ==
    LET s == hand[h].store IN
    /\ hand[h].pc = "change"
    /\ \/ vol' \in OneFileMore(s) /\ Leaves(h, TRUE) /\ Keep
       \/ vol' \in HalfDone(s) /\ Leaves(h, FALSE) /\ Charged
    /\ filled' = [filled EXCEPT ![s] = None]
    /\ Seen
    /\ UNCHANGED <<second, vb, tar, helpers, shared, astray, crowded, litter>> /\ Elsewhere

\* Mutant: a download that cannot begin does not clean up.
Serve_KeepsHelper(h) ==
    /\ hand[h].pc = "serve"
    /\ \/ Leaves(h, TRUE) /\ Keep
       \/ hand' = [hand EXCEPT ![h] = Free] /\ Charged
    /\ UNCHANGED <<vol, second, vb, tar, helpers, took, filled, shared, astray, crowded, litter>> /\ Elsewhere

\* The helper is there until the stream is over, or did not begin.
Serve(h) ==
    /\ hand[h].pc = "serve"
    /\ (Leaves(h, TRUE) /\ Keep) \/ (Leaves(h, FALSE) /\ Charged)
    /\ UNCHANGED <<vol, second, vb, tar, helpers, took, filled, shared, astray, crowded, litter>> /\ Elsewhere

-----------------------------------------------------------------------------
(* Around the requests *)

\* The client goes away: the daemon call or statement under way fails.
VolumeAbandon(h) ==
    /\ hand[h].pc \in {"clear", "upload"} /\ Leaves(h, FALSE) /\ Charged
    /\ UNCHANGED <<vol, second, vb, tar, helpers, took, filled, shared, astray, crowded, litter>> /\ Elsewhere

\* An application writes to its volume.
Write(s) ==
    /\ active /\ vol[s] # None /\ Charged
    /\ vol' \in OneFileMore(s)
    /\ Seen
    /\ filled' = [filled EXCEPT ![s] = None] /\ Crowds(s)
    /\ UNCHANGED <<second, vb, tar, hand, helpers, shared, astray, litter>> /\ Elsewhere

SecondPasses ==
    /\ active /\ second + 1 \in Seconds /\ second' = second + 1 /\ Keep
    /\ UNCHANGED <<vol, vb, tar, hand, helpers, took, filled, shared, astray, crowded, litter>> /\ Elsewhere

Helped(h) == hand[h].pc \in {"stream", "copy", "close", "unhelp", "clear", "upload", "browse", "change", "serve"}

\* The backend dies; half-written files, rows and helpers stay.
VolumesDropped ==
    /\ hand' = [h \in Hands |-> Free]
    /\ litter' = litter + Cardinality({h \in Hands : Helped(h)})
    /\ astray' = astray \cup {hand[h].row : h \in {h \in Hands : hand[h].pc \in {"fail", "unlink"}}}
    /\ UNCHANGED <<vol, second, vb, tar, helpers, took, filled, shared, crowded>>

\* Another volume holds something else, or does not exist yet.
VolumeInit ==
    /\ \E d \in {2, None} :
          /\ ~active => d = None
          /\ vol = [s \in Stores |-> IF s = CHOOSE t \in Stores : TRUE THEN 1 ELSE d]
    /\ second = 1 /\ vb = [b \in Backups |-> NoRow] /\ tar = [f \in Stores \X Seconds |-> None]
    /\ hand = [h \in Hands |-> Free] /\ helpers = 0 /\ litter = 0
    /\ took = [b \in Backups |-> {}] /\ filled = [s \in Stores |-> None]
    /\ shared = {} /\ astray = {} /\ crowded = {}

-----------------------------------------------------------------------------
(* What has to hold *)

\* A listed completed backup has a file with what the volume held while it was
\* copied, and some of each only if the volume was written to in that time (the
\* stream is no snapshot); a failed or deleted one has no file: retries,
\* deletions half-way and crashes included, but for two rows of one second, which
\* share a file, a row deleted while its file is written, and files that did not
\* close or go.
FileFollowsRow ==
    \A b \in Backups \ (shared \cup astray) :
        /\ vb[b].state = "completed" => tar[File(b)] \in Archives(took[b])
        /\ vb[b].state = "failed" => tar[File(b)] = None
        /\ vb[b].state = "deleted" /\ ~InUse(b) => tar[File(b)] = None

\* A restore that answers success over a volume, or into a new one, leaves the
\* data of the backup there and nothing else, until the volume is written to
\* again; but all of it is in a directory "vol" (RestoreReversesDownload).
RestoredIsBackup ==
    \A s \in Stores \ crowded : filled[s] # None => vol[s] = Inside(filled[s])

\* What docker/files.go:183 says of UploadArchiveToContainer, with which a volume is
\* restored: it is the reverse of the download the backup was made with, so a
\* restored volume holds what was backed up.
RestoreReversesDownload ==
    \A s \in Stores \ crowded : filled[s] # None => vol[s] = filled[s]

\* A helper outlives its request only if it did not start, could not be
\* removed or lost its backend: clients that go away leave none behind.
NoHelperLeft == helpers = litter + Cardinality({h \in Hands : Helped(h)})
=============================================================================

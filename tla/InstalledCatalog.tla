---------------------------- MODULE InstalledCatalog ----------------------------
(***************************************************************************)
(* The catalog of installed titles: InstalledCatalog::generate, removeTree, *)
(* ensureDirectory and writeFileAtomic                                     *)
(* (switch_app/source/adapters/installed_catalog.cpp), and run_mtp in      *)
(* main.cpp, which serves the catalog exactly when generate() says so.     *)
(*                                                                         *)
(* A session rebuilds the tree in cache/installed/: a directory for every  *)
(* record NS lists, with info.txt and icon.jpg, and catalog.txt beside     *)
(* them.  Every call may fail, what is installed may change while it is    *)
(* being listed, and the console may lose power between two steps; the     *)
(* next session finds the tree as it was left.                             *)
(***************************************************************************)
EXTENDS Naturals, Sequences, SequencesExt

CONSTANTS
    Apps,         \* application ids
    WithIcon,     \* those whose control data holds an icon
    Untitled,     \* those whose control data has no usable name
    Lists,        \* the lists NS may keep, in the order of its records
    Batch,        \* records asked for at a time (32)
    MaxCount,     \* where the count of titles stops, above any length of a list
    MaxFaults     \* calls that fail, crashes and changes of NS, to bound the model

ASSUME CatalogAssumption ==
    /\ WithIcon \subseteq Apps /\ Untitled \subseteq Apps
    /\ Lists \subseteq Seq(Apps)
    /\ \A list \in Lists : Len(list) < MaxCount
    /\ Batch \in Nat \ {0} /\ MaxCount \in Nat /\ MaxFaults \in Nat

VARIABLES
    (* What survives a crash. *)
    installed,    \* the records of NS
    dirs,         \* the directories of the tree
    files,        \* [Paths -> absent, torn, unsynced, old or new]
    partial,      \* the paths with a .partial file beside them
    (* generate(): its locals and fields. *)
    pc,
    records,      \* what is left of the batch, its first record being worked on
    record_count, offset,
    control,      \* what nsGetApplicationControlData returned for it
    writing,      \* the path writeFileAtomic was called with
    application_count_, metadata_failure_count_,
    result_,      \* "OK" or "failed"
    (* For the properties. *)
    cleared,      \* removeTree removed everything
    steady,       \* NS has not changed since the first batch was asked for
    listed,       \* the records it returned
    faults

tree == <<dirs, files, partial>>
loop == <<records, record_count, offset>>
counts == <<application_count_, metadata_failure_count_>>
ghosts == <<cleared, steady, listed>>
vars == <<installed, tree, pc, loop, control, writing, counts, result_, ghosts, faults>>

Dirs == Apps \X {"titled", "untitled"}
Summary == <<"catalog.txt">>
Paths == {<<d, name>> : d \in Dirs, name \in {"info.txt", "icon.jpg"}} \cup {Summary}
NoPath == <<>>

Controls == [ok: BOOLEAN, titled: BOOLEAN, icon: BOOLEAN]
NoControl == [ok |-> FALSE, titled |-> FALSE, icon |-> FALSE]

Init ==
    /\ installed \in Lists
    /\ dirs = {}
    /\ files = [p \in Paths |-> "absent"]
    /\ partial = {}
    /\ pc = "idle"
    /\ records = <<>> /\ record_count = 0 /\ offset = 0
    /\ control = NoControl
    /\ writing = NoPath
    /\ application_count_ = 0 /\ metadata_failure_count_ = 0
    /\ result_ = "OK"
    /\ cleared = FALSE /\ steady = FALSE /\ listed = {}
    /\ faults = 0

(* A step in which a call fails, or something happens from outside. *)
Fault == faults < MaxFaults /\ faults' = faults + 1
NoFault == UNCHANGED faults

-----------------------------------------------------------------------------
(* The start of generate(). *)

InDir(d) == {p \in Paths \ {Summary} : p[1] = d}
Aged == [p \in Paths |-> IF files[p] \in {"new", "unsynced"} THEN "old" ELSE files[p]]

(* Mutant of Emptied: removeTree leaves the directories it cannot see into. *)
EmptiedFilesOnly(gone, some) ==
    /\ dirs' = dirs
    /\ files' = [p \in Paths |->
                    IF p \in some \/ p \in UNION {InDir(d) : d \in gone} THEN "absent"
                    ELSE Aged[p]]
    /\ partial' = {p \in partial : p \notin some /\ \A d \in gone : p \notin InDir(d)}

(* The directories of "gone" are removed with all they hold, and the files   *)
(* and .partial files of "some".                                             *)
Emptied(gone, some) ==
    /\ dirs' = dirs \ gone
    /\ files' = [p \in Paths |->
                    IF p \in some \/ p \in UNION {InDir(d) : d \in gone} THEN "absent"
                    ELSE Aged[p]]
    /\ partial' = {p \in partial : p \notin some /\ \A d \in gone : p \notin InDir(d)}

(* removeTree goes through the tree in any order and stops at the first call *)
(* that fails, inside some directory or at the root; nobody looks at what it *)
(* returns.  Its parents exist by then, or are created after it.             *)
RemoveTree ==
    /\ pc = "idle"
    /\ pc' = "prepare"
    /\ application_count_' = 0
    /\ metadata_failure_count_' = 0
    /\ result_' = "OK"
    /\ listed' = {}
    /\ \/ NoFault /\ cleared' = TRUE /\ Emptied(dirs, Paths)
       \/ /\ Fault /\ cleared' = FALSE
          /\ \E gone \in SUBSET dirs, root \in SUBSET {Summary} :
                \/ Emptied(gone, root)
                \/ \E d \in dirs \ gone : \E some \in SUBSET InDir(d) : Emptied(gone, root \cup some)
    /\ UNCHANGED <<installed, loop, control, writing, steady>>

(* The four directories, nsInitialize and the control data buffer.           *)
Prepare ==
    /\ pc = "prepare"
    /\ \/ NoFault /\ pc' = "list" /\ offset' = 0 /\ steady' = TRUE /\ UNCHANGED result_
       \/ Fault /\ pc' = "unavailable" /\ result_' = "failed" /\ UNCHANGED <<offset, steady>>
    /\ UNCHANGED <<installed, tree, records, record_count, control, writing, counts, cleared,
                   listed>>

-----------------------------------------------------------------------------
(* The loop over the records. *)

NoteFailure == metadata_failure_count_' = metadata_failure_count_ + 1

(* writeFileAtomic is called, or the last call of generate() is reached. *)
Write(path) == pc' = "create" /\ writing' = path

MinOf(a, b) == IF a < b THEN a ELSE b

(* nsListApplicationRecord returns what it has from the offset on, at most a *)
(* batch; a failure or an empty batch leaves the loop for catalog.txt.       *)
ListRecords ==
    /\ pc = "list"
    /\ \/ /\ NoFault
          /\ records' = SubSeq(installed, offset + 1, MinOf(offset + Batch, Len(installed)))
          /\ record_count' = Len(records')
          /\ listed' = listed \cup ToSet(records')
          /\ UNCHANGED result_
       \/ /\ Fault
          /\ result_' = "failed" /\ records' = <<>> /\ record_count' = 0
          /\ UNCHANGED listed
    /\ IF records' = <<>> THEN Write(Summary) ELSE pc' = "title" /\ UNCHANGED writing
    /\ UNCHANGED <<installed, tree, offset, control, counts, cleared, steady>>

App == Head(records)
Directory == <<App, IF control.titled THEN "titled" ELSE "untitled">>

(* The control data of the record, or a failure and the name "Application".  *)
GetControlData ==
    /\ pc = "title"
    /\ pc' = "directory"
    /\ \/ /\ NoFault
          /\ control' = [ok |-> TRUE, titled |-> App \notin Untitled, icon |-> App \in WithIcon]
          /\ UNCHANGED metadata_failure_count_
       \/ Fault /\ control' = NoControl /\ NoteFailure
    /\ UNCHANGED <<installed, tree, loop, writing, application_count_, result_, ghosts>>

(* Mutant of Advanced: the next batch starts where this one did. *)
SameOffset == offset

Advanced == offset + record_count

(* Mutant of LastBatch: a full batch is taken for the last one. *)
FullBatchIsLast == record_count <= Batch

(* A batch that is not full is the last one. *)
LastBatch == record_count < Batch

(* The next record, the next batch, or catalog.txt after the last one. *)
NextRecord ==
    /\ records' = Tail(records)
    /\ IF Len(records) > 1
       THEN pc' = "title" /\ UNCHANGED <<offset, writing>>
       ELSE /\ offset' = Advanced
            /\ IF LastBatch THEN Write(Summary) ELSE pc' = "list" /\ UNCHANGED writing
    /\ UNCHANGED record_count

(* The directory of the title; without it the title is skipped.              *)
MakeDirectory ==
    /\ pc = "directory"
    /\ \/ /\ NoFault
          /\ dirs' = dirs \cup {Directory}
          /\ Write(<<Directory, "info.txt">>)
          /\ UNCHANGED <<loop, metadata_failure_count_>>
       \/ Fault /\ NoteFailure /\ NextRecord /\ UNCHANGED dirs
    /\ UNCHANGED <<installed, files, partial, control, application_count_, result_, ghosts>>

-----------------------------------------------------------------------------
(* writeFileAtomic. *)

(* Mutant of Uncounted: a failure is not counted for any file. *)
UncountedAlways == UNCHANGED metadata_failure_count_

(* generate() counts a file of a title that could not be written, and does   *)
(* not look at catalog.txt.                                                  *)
Uncounted == IF writing = Summary THEN UNCHANGED metadata_failure_count_ ELSE NoteFailure

(* What generate() does when writeFileAtomic has returned.                   *)
AfterWrite ==
    CASE writing = Summary ->
            /\ pc' = IF result_ = "OK" THEN "serving" ELSE "unavailable"
            /\ UNCHANGED <<loop, writing, application_count_>>
      [] writing # Summary /\ writing[2] = "info.txt" /\ control.icon ->
            Write(<<Directory, "icon.jpg">>) /\ UNCHANGED <<loop, application_count_>>
      [] OTHER -> NextRecord /\ application_count_' = MinOf(application_count_ + 1, MaxCount)

(* It failed: the .partial file is unlinked, if that can be done.            *)
WriteFails ==
    /\ Fault
    /\ partial' \in {partial, partial \ {writing}}
    /\ Uncounted
    /\ AfterWrite

(* An earlier .partial file is unlinked, or truncated by open().             *)
CreatePartial ==
    /\ pc = "create"
    /\ \/ /\ NoFault
          /\ partial' = partial \cup {writing}
          /\ pc' = "fill"
          /\ UNCHANGED <<loop, writing, counts>>
       \/ WriteFails
    /\ UNCHANGED <<installed, dirs, files, control, result_, ghosts>>

(* The write() calls, fsync() and close(): until then the file is torn, or   *)
(* whole only in memory.                                                     *)
FillPartial ==
    /\ pc = "fill"
    /\ \/ NoFault /\ pc' = "rename" /\ UNCHANGED <<partial, loop, writing, counts>>
       \/ WriteFails
    /\ UNCHANGED <<installed, dirs, files, control, result_, ghosts>>

(* Mutant of Publishable: the file is renamed before it was synced. *)
PublishableEarly == pc \in {"fill", "rename"}

Publishable == pc = "rename"

(* rename() takes the place of a file that is there, or refuses to.          *)
PublishPartial ==
    /\ Publishable
    /\ \/ /\ NoFault
          /\ files' = [files EXCEPT ![writing] = IF pc = "rename" THEN "new" ELSE "unsynced"]
          /\ partial' = partial \ {writing}
          /\ UNCHANGED metadata_failure_count_
          /\ AfterWrite
       \/ WriteFails /\ UNCHANGED files
    /\ UNCHANGED <<installed, dirs, control, result_, ghosts>>

-----------------------------------------------------------------------------
(* The session ends; the tree stays until the next one.                      *)
EndSession ==
    /\ pc \in {"serving", "unavailable"}
    /\ pc' = "idle"
    /\ UNCHANGED <<installed, tree, loop, control, writing, counts, result_, ghosts, faults>>

(* The process is killed or the console loses power: a file that was not     *)
(* synced loses its data.                                                    *)
Crash ==
    /\ pc # "idle"
    /\ Fault
    /\ pc' = "idle"
    /\ files' = [p \in Paths |-> IF files[p] = "unsynced" THEN "torn" ELSE files[p]]
    /\ UNCHANGED <<installed, dirs, partial, loop, control, writing, counts, result_, ghosts>>

(* External: a title is installed, removed or started, which reorders NS.    *)
InstalledChanges ==
    /\ installed' \in Lists \ {installed}
    /\ steady' = FALSE
    /\ Fault
    /\ UNCHANGED <<tree, pc, loop, control, writing, counts, result_, cleared, listed>>

GenerateStep ==
    \/ RemoveTree \/ Prepare \/ ListRecords \/ GetControlData \/ MakeDirectory
    \/ CreatePartial \/ FillPartial \/ PublishPartial

Next == GenerateStep \/ EndSession \/ Crash \/ InstalledChanges

Spec == Init /\ [][Next]_vars

(* generate() is not suspended for ever; the user may never open a session,   *)
(* so nothing is assumed of RemoveTree, its first step.                      *)
FairSpec == Spec /\ WF_vars(pc # "idle" /\ GenerateStep)

-----------------------------------------------------------------------------
(* Every variable has its type. *)
TypeOK ==
    /\ installed \in Lists
    /\ dirs \subseteq Dirs
    /\ files \in [Paths -> {"absent", "torn", "unsynced", "old", "new"}]
    /\ partial \subseteq Paths
    /\ pc \in {"idle", "prepare", "list", "title", "directory", "create", "fill", "rename",
               "serving", "unavailable"}
    /\ records \in Seq(Apps)
    /\ record_count \in 0..Batch /\ offset \in Nat
    /\ control \in Controls
    /\ writing \in Paths \cup {NoPath}
    /\ application_count_ \in 0..MaxCount /\ metadata_failure_count_ \in Nat
    /\ result_ \in {"OK", "failed"}
    /\ cleared \in BOOLEAN /\ steady \in BOOLEAN
    /\ listed \subseteq Apps
    /\ faults \in 0..MaxFaults

Info(a) == {files[<<<<a, t>>, "info.txt">>] : t \in {"titled", "untitled"}}
Icon(a) == {files[<<<<a, t>>, "icon.jpg">>] : t \in {"titled", "untitled"}}

(* A file of the catalog is never seen torn under its own name: whatever     *)
(* call fails and wherever the power goes, info.txt, icon.jpg and            *)
(* catalog.txt are absent or whole, each of one run (writeFileAtomic).       *)
FilesAreWhole == \A p \in Paths : files[p] # "torn"

(* The menu shows the count of failures ("fail") next to that of titles.     *)
(* When generate() succeeds with none, no title is missing or left with the  *)
(* files of an earlier run: every record has its info.txt, and its icon.jpg  *)
(* when it has one, was counted, and unless NS changed meanwhile every title *)
(* of NS had its record.                                                     *)
NothingMissingSilently ==
    pc = "serving" /\ metadata_failure_count_ = 0 =>
        /\ \A a \in listed :
               "new" \in Info(a) /\ (a \in WithIcon => "new" \in Icon(a))
        /\ steady => ToSet(installed) \subseteq listed /\ application_count_ = Len(installed)

(* A catalog that is served shows this run and nothing else: no title that   *)
(* was removed since the last session, no file of an earlier run, and no     *)
(* .partial file but one that was counted as a failure (or catalog.txt's).   *)
(* It needs removeTree to have got through, which generate() does not check. *)
ServedIsCurrent ==
    pc = "serving" /\ cleared =>
        /\ \A d \in dirs : d[1] \in listed
        /\ \A p \in Paths : files[p] # "old"
        /\ partial \ {Summary} # {} => metadata_failure_count_ > 0

(* generate() ends, whatever NS answers: the offset passes the records it    *)
(* has seen, and a full batch at the end of the list is followed by an empty *)
(* one.                                                                      *)
GenerateEnds == pc = "prepare" ~> pc \in {"serving", "unavailable", "idle"}
=============================================================================

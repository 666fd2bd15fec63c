-------------------------- MODULE InstalledCatalogProofs --------------------------
(***************************************************************************)
(* Proofs about InstalledCatalog: no file of the catalog is ever torn, and  *)
(* a catalog that is served holds nothing of an earlier run, for any titles, *)
(* lists, sizes of a batch, and any failures, crashes and changes of NS.    *)
(***************************************************************************)
EXTENDS InstalledCatalog, SequenceTheorems, TLAPS

Writing == pc \in {"create", "fill", "rename"}

(* generate() is working on the first of "records". *)
InTitle == pc \in {"title", "directory"} \/ (Writing /\ writing # Summary)

(* The tree is well formed, and what has a name of its own is whole. *)
TreeInv ==
    /\ dirs \subseteq Dirs
    /\ files \in [Paths -> {"absent", "old", "new"}]
    /\ partial \subseteq Paths

LoopInv ==
    /\ installed \in Lists
    /\ records \in Seq(Apps) /\ record_count \in Nat /\ offset \in Nat
    /\ metadata_failure_count_ \in Nat
    /\ InTitle => records # <<>>
    /\ Writing => writing \in Paths

(* The .partial file that is being written, if there is one. *)
Current == IF pc \in {"fill", "rename"} THEN {writing} ELSE {}

(* After a removal that got through, everything in the tree is of this run,  *)
(* and a .partial file that stayed behind was counted.                       *)
ClearedInv ==
    cleared /\ pc # "idle" =>
        /\ \A d \in dirs : d[1] \in listed
        /\ \A p \in Paths : files[p] # "old"
        /\ InTitle => ToSet(records) \subseteq listed
        /\ partial \subseteq Current \cup {Summary} \/ metadata_failure_count_ > 0

IInv == TreeInv /\ LoopInv /\ ClearedInv

-----------------------------------------------------------------------------
LEMMA InitInv == Init => IInv
<1> SUFFICES ASSUME Init PROVE IInv
  OBVIOUS
<1>1. TreeInv
  BY DEF Init, TreeInv
<1>2. LoopInv
  <2>1. records \in Seq(Apps)
    BY DEF Init
  <2> QED
    BY <2>1 DEF Init, LoopInv, InTitle, Writing
<1>3. ClearedInv
  BY DEF Init, ClearedInv
<1> QED
  BY <1>1, <1>2, <1>3 DEF IInv

(* The files of the record being worked on have places in the tree. *)
LEMMA PlacesOfRecord ==
    ASSUME LoopInv, InTitle
    PROVE  /\ App \in Apps /\ Directory \in Dirs /\ Directory[1] = App
           /\ App \in ToSet(records)
           /\ <<Directory, "info.txt">> \in Paths /\ <<Directory, "icon.jpg">> \in Paths
<1>1. App \in Apps /\ App = records[1] /\ 1 \in DOMAIN records
  BY DEF LoopInv, App
<1>2. Directory \in Dirs /\ Directory[1] = App
  BY <1>1 DEF Directory, Dirs
<1> QED
  BY <1>1, <1>2 DEF Paths, ToSet

(* The records that are left are of those there were, and the loop goes on   *)
(* with one of them, with the next batch, or with catalog.txt.               *)
LEMMA NextRecordKeeps ==
    ASSUME LoopInv, InTitle, NextRecord
    PROVE  /\ records' \in Seq(Apps) /\ ToSet(records') \subseteq ToSet(records)
           /\ record_count' \in Nat /\ offset' \in Nat
           /\ \/ pc' = "title" /\ records' # <<>>
              \/ pc' = "list"
              \/ pc' = "create" /\ writing' = Summary
<1>1. records \in Seq(Apps) /\ records # <<>>
  BY DEF LoopInv
<1>2. /\ Tail(records) \in Seq(Apps) /\ Len(Tail(records)) = Len(records) - 1
      /\ \A i \in 1..Len(Tail(records)) : Tail(records)[i] = records[i + 1]
  BY <1>1, HeadTailProperties
<1>3. ToSet(Tail(records)) \subseteq ToSet(records)
  BY <1>1, <1>2 DEF ToSet
<1>4. ASSUME Len(records) > 1 PROVE Tail(records) # <<>>
  <2>1. Len(Tail(records)) # 0
    BY <1>1, <1>2, <1>4
  <2> QED
    BY <2>1, <1>2, EmptySeq
<1> QED
  BY <1>1, <1>2, <1>3, <1>4 DEF NextRecord, LoopInv, Advanced, Write

(* Where generate() goes on when writeFileAtomic has returned. *)
LEMMA AfterWriteKeeps ==
    ASSUME LoopInv, Writing, AfterWrite
    PROVE  /\ records' \in Seq(Apps) /\ ToSet(records') \subseteq ToSet(records)
           /\ record_count' \in Nat /\ offset' \in Nat
           /\ InTitle' => records' # <<>> /\ InTitle
           /\ Writing' => writing' \in Paths
           /\ pc' \notin {"idle", "fill", "rename"}
<1>1. CASE writing = Summary
  <2>1. pc' \in {"serving", "unavailable"} /\ UNCHANGED loop
    BY <1>1 DEF AfterWrite
  <2> QED
    BY <2>1 DEF loop, LoopInv, InTitle, Writing
<1>2. CASE writing # Summary
  <2>1. InTitle
    BY <1>2 DEF InTitle
  <2>2. CASE NextRecord
    BY <2>1, <2>2, NextRecordKeeps DEF InTitle, Writing, Paths, Summary
  <2>3. CASE ~NextRecord
    <3>1. Write(<<Directory, "icon.jpg">>) /\ UNCHANGED loop
      BY <1>2, <2>3 DEF AfterWrite
    <3> QED
      BY <2>1, <3>1, PlacesOfRecord DEF Write, loop, LoopInv, InTitle, Writing
  <2> QED
    BY <2>2, <2>3
<1> QED
  BY <1>1, <1>2

-----------------------------------------------------------------------------
(* One action each. *)
LEMMA RemoveTreeKeeps == IInv /\ RemoveTree => IInv'
<1> SUFFICES ASSUME IInv, RemoveTree PROVE IInv'
  OBVIOUS
<1> USE DEF IInv
<1>1. ASSUME NEW gone, NEW some, Emptied(gone, some) PROVE TreeInv'
  BY <1>1 DEF Emptied, Aged, TreeInv
<1>2. TreeInv'
  BY <1>1 DEF RemoveTree
<1>3. LoopInv'
  BY DEF RemoveTree, LoopInv, loop, InTitle, Writing
<1>4. CASE cleared' = FALSE
  BY <1>2, <1>3, <1>4 DEF ClearedInv
<1>5. CASE Emptied(dirs, Paths)
  <2>1. dirs' = {} /\ \A p \in Paths : files'[p] = "absent"
    BY <1>5 DEF Emptied
  <2>2. partial' = {}
    BY <1>5 DEF Emptied, TreeInv
  <2> QED
    BY <1>2, <1>3, <2>1, <2>2 DEF RemoveTree, ClearedInv, InTitle, Writing
<1> QED
  BY <1>4, <1>5 DEF RemoveTree

LEMMA PrepareKeeps == IInv /\ Prepare => IInv'
<1> SUFFICES ASSUME IInv, Prepare PROVE IInv'
  OBVIOUS
<1> USE DEF IInv, Prepare
<1>1. TreeInv'
  BY DEF TreeInv, tree
<1>2. LoopInv'
  BY DEF LoopInv, counts, InTitle, Writing
<1>3. ClearedInv'
  BY DEF ClearedInv, tree, counts, InTitle, Writing, Current
<1> QED
  BY <1>1, <1>2, <1>3

LEMMA ListRecordsKeeps == IInv /\ ListRecords => IInv'
<1> SUFFICES ASSUME IInv, ListRecords PROVE IInv'
  OBVIOUS
<1> USE DEF IInv
<1>1. TreeInv'
  BY DEF ListRecords, TreeInv, tree
<1>2. records' \in Seq(Apps) /\ record_count' \in Nat
  <2> DEFINE last == MinOf(offset + Batch, Len(installed))
  <2>1. installed \in Seq(Apps) /\ Len(installed) \in Nat
    BY CatalogAssumption DEF LoopInv
  <2>2. last \in Int /\ last <= Len(installed)
    BY <2>1, CatalogAssumption DEF LoopInv, MinOf
  <2>3. SubSeq(installed, offset + 1, last) \in Seq(Apps)
    <3>1. \A i \in offset + 1 .. last : installed[i] \in Apps
      BY <2>1, <2>2 DEF LoopInv
    <3> QED
      BY <2>1, <2>2, <3>1, SubSeqProperties DEF LoopInv
  <2>4. CASE records' = SubSeq(installed, offset + 1, last) /\ record_count' = Len(records')
    BY <2>3, <2>4
  <2>5. CASE records' = <<>> /\ record_count' = 0
    BY <2>5
  <2> QED
    BY <2>4, <2>5 DEF ListRecords
<1>3. \/ records' = <<>> /\ pc' = "create" /\ writing' = Summary
      \/ records' # <<>> /\ pc' = "title" /\ ToSet(records') \subseteq listed'
  BY DEF ListRecords, Write
<1>4. listed \subseteq listed'
  BY DEF ListRecords
<1>5. LoopInv'
  BY <1>2, <1>3 DEF ListRecords, LoopInv, counts, InTitle, Writing, Paths
<1>6. ClearedInv'
  BY <1>3, <1>4 DEF ListRecords, ClearedInv, tree, counts, InTitle, Writing, Current
<1> QED
  BY <1>1, <1>5, <1>6

LEMMA GetControlDataKeeps == IInv /\ GetControlData => IInv'
<1> SUFFICES ASSUME IInv, GetControlData PROVE IInv'
  OBVIOUS
<1> USE DEF IInv, GetControlData, NoteFailure
<1>1. TreeInv'
  BY DEF TreeInv, tree
<1>2. LoopInv'
  BY DEF LoopInv, loop, InTitle, Writing
<1>3. ClearedInv'
  BY DEF ClearedInv, LoopInv, tree, loop, ghosts, InTitle, Writing, Current
<1> QED
  BY <1>1, <1>2, <1>3

LEMMA MakeDirectoryKeeps == IInv /\ MakeDirectory => IInv'
<1> SUFFICES ASSUME IInv, MakeDirectory PROVE IInv'
  OBVIOUS
<1> USE DEF IInv
<1>1. InTitle
  BY DEF MakeDirectory, InTitle
<1>2. CASE dirs' = dirs \cup {Directory} /\ Write(<<Directory, "info.txt">>)
              /\ UNCHANGED <<loop, metadata_failure_count_>>
  <2>1. TreeInv'
    BY <1>1, <1>2, PlacesOfRecord DEF MakeDirectory, TreeInv
  <2>2. LoopInv'
    BY <1>1, <1>2, PlacesOfRecord DEF MakeDirectory, LoopInv, Write, loop, InTitle, Writing
  <2>3. ClearedInv'
    BY <1>1, <1>2, PlacesOfRecord DEF MakeDirectory, ClearedInv, Write, loop, ghosts, Current
  <2> QED
    BY <2>1, <2>2, <2>3
<1>3. CASE NoteFailure /\ NextRecord /\ UNCHANGED dirs
  <2>1. TreeInv'
    BY <1>3 DEF MakeDirectory, TreeInv
  <2>2. LoopInv'
    BY <1>1, <1>3, NextRecordKeeps DEF MakeDirectory, LoopInv, NoteFailure, InTitle, Writing, Paths
  <2>3. ClearedInv'
    BY <1>1, <1>3, NextRecordKeeps DEF MakeDirectory, ClearedInv, LoopInv, NoteFailure, ghosts,
       InTitle, Writing
  <2> QED
    BY <2>1, <2>2, <2>3
<1> QED
  BY <1>2, <1>3 DEF MakeDirectory

(* A write that fails leaves the tree, but for the .partial file that is     *)
(* counted, unless it is that of catalog.txt.                                *)
LEMMA WriteFailsKeeps ==
    ASSUME IInv, Writing, WriteFails, UNCHANGED <<installed, dirs, files, control, result_, ghosts>>
    PROVE  IInv'
<1> USE DEF IInv
<1>1. partial' \subseteq partial
  BY DEF WriteFails
<1>2. TreeInv'
  BY <1>1 DEF TreeInv
<1>3. metadata_failure_count_' \in Nat
      /\ \/ metadata_failure_count_' = metadata_failure_count_ /\ writing = Summary
         \/ metadata_failure_count_' > 0
  BY DEF WriteFails, Uncounted, NoteFailure, LoopInv
<1>4. LoopInv'
  BY <1>3, AfterWriteKeeps DEF WriteFails, LoopInv
<1>5. partial' \subseteq Current' \cup {Summary} \/ metadata_failure_count_' > 0
      \/ ~(cleared /\ pc # "idle")
  BY <1>1, <1>3 DEF ClearedInv, Current, LoopInv
<1>6. ClearedInv'
  BY <1>5, AfterWriteKeeps DEF WriteFails, ClearedInv, ghosts, Writing
<1> QED
  BY <1>2, <1>4, <1>6

LEMMA CreatePartialKeeps == IInv /\ CreatePartial => IInv'
<1> SUFFICES ASSUME IInv, CreatePartial PROVE IInv'
  OBVIOUS
<1> USE DEF IInv
<1>1. Writing
  BY DEF CreatePartial, Writing
<1>2. CASE WriteFails
  BY <1>1, <1>2, WriteFailsKeeps DEF CreatePartial
<1>3. CASE partial' = partial \cup {writing} /\ pc' = "fill" /\ UNCHANGED <<loop, writing, counts>>
  <2>1. TreeInv'
    BY <1>1, <1>3 DEF CreatePartial, TreeInv, LoopInv
  <2>2. LoopInv'
    BY <1>1, <1>3 DEF CreatePartial, LoopInv, loop, counts, InTitle, Writing
  <2>3. ClearedInv'
    BY <1>1, <1>3 DEF CreatePartial, ClearedInv, loop, counts, ghosts, InTitle, Writing, Current
  <2> QED
    BY <2>1, <2>2, <2>3
<1> QED
  BY <1>2, <1>3 DEF CreatePartial

LEMMA FillPartialKeeps == IInv /\ FillPartial => IInv'
<1> SUFFICES ASSUME IInv, FillPartial PROVE IInv'
  OBVIOUS
<1> USE DEF IInv
<1>1. Writing
  BY DEF FillPartial, Writing
<1>2. CASE WriteFails
  BY <1>1, <1>2, WriteFailsKeeps DEF FillPartial
<1>3. CASE pc' = "rename" /\ UNCHANGED <<partial, loop, writing, counts>>
  <2>1. TreeInv'
    BY <1>3 DEF FillPartial, TreeInv
  <2>2. LoopInv'
    BY <1>1, <1>3 DEF FillPartial, LoopInv, loop, counts, InTitle, Writing
  <2>3. ClearedInv'
    BY <1>1, <1>3 DEF FillPartial, ClearedInv, loop, counts, ghosts, InTitle, Writing, Current
  <2> QED
    BY <2>1, <2>2, <2>3
<1> QED
  BY <1>2, <1>3 DEF FillPartial

LEMMA PublishPartialKeeps == IInv /\ PublishPartial => IInv'
<1> SUFFICES ASSUME IInv, PublishPartial PROVE IInv'
  OBVIOUS
<1> USE DEF IInv
<1>1. Writing /\ pc = "rename"
  BY DEF PublishPartial, Publishable, Writing
<1>2. CASE WriteFails /\ UNCHANGED files
  BY <1>1, <1>2, WriteFailsKeeps DEF PublishPartial
<1>3. CASE /\ files' = [files EXCEPT ![writing] = IF pc = "rename" THEN "new" ELSE "unsynced"]
           /\ partial' = partial \ {writing}
           /\ UNCHANGED metadata_failure_count_
           /\ AfterWrite
  <2>1. TreeInv'
    BY <1>1, <1>3 DEF PublishPartial, TreeInv, LoopInv
  <2>2. LoopInv'
    BY <1>1, <1>3, AfterWriteKeeps DEF PublishPartial, LoopInv
  <2>3. ClearedInv'
    <3> SUFFICES ASSUME cleared', pc' # "idle" PROVE ClearedInv'
      BY DEF ClearedInv
    <3>1. cleared /\ pc # "idle" /\ listed' = listed /\ dirs' = dirs
      BY <1>1 DEF PublishPartial, ghosts
    <3>2. \A d \in dirs' : d[1] \in listed'
      BY <3>1 DEF ClearedInv
    <3>3. \A p \in Paths : files'[p] # "old"
      BY <1>1, <1>3, <3>1 DEF ClearedInv, TreeInv
    <3>4. InTitle' => ToSet(records') \subseteq listed'
      BY <1>1, <1>3, <3>1, AfterWriteKeeps DEF ClearedInv
    <3>5. partial' \subseteq Current' \cup {Summary} \/ metadata_failure_count_' > 0
      BY <1>1, <1>3, <3>1 DEF ClearedInv, Current
    <3> QED
      BY <3>2, <3>3, <3>4, <3>5 DEF ClearedInv
  <2> QED
    BY <2>1, <2>2, <2>3
<1> QED
  BY <1>2, <1>3 DEF PublishPartial

(* A session that ends, a crash and NS leave the tree alone: there is no     *)
(* file a crash could tear.                                                  *)
LEMMA OutsideKeeps == IInv /\ (EndSession \/ Crash \/ InstalledChanges) => IInv'
<1> SUFFICES ASSUME IInv, EndSession \/ Crash \/ InstalledChanges PROVE IInv'
  OBVIOUS
<1> USE DEF IInv
<1>1. CASE EndSession
  BY <1>1 DEF EndSession, TreeInv, LoopInv, ClearedInv, tree, loop, counts, InTitle, Writing
<1>2. CASE Crash
  <2>1. files' = files
    BY <1>2 DEF Crash, TreeInv
  <2> QED
    BY <1>2, <2>1 DEF Crash, TreeInv, LoopInv, ClearedInv, loop, counts, InTitle, Writing
<1>3. CASE InstalledChanges
  BY <1>3 DEF InstalledChanges, TreeInv, LoopInv, ClearedInv, tree, loop, counts, InTitle,
     Writing, Current
<1> QED
  BY <1>1, <1>2, <1>3

LEMMA StutterKeeps == IInv /\ UNCHANGED vars => IInv'
BY DEF vars, tree, loop, counts, ghosts, IInv, TreeInv, LoopInv, ClearedInv, InTitle, Writing,
   Current

LEMMA NextKeeps == IInv /\ [Next]_vars => IInv'
BY RemoveTreeKeeps, PrepareKeeps, ListRecordsKeeps, GetControlDataKeeps, MakeDirectoryKeeps,
   CreatePartialKeeps, FillPartialKeeps, PublishPartialKeeps, OutsideKeeps, StutterKeeps
   DEF Next, GenerateStep

(* The inductive invariant: every place in the tree is absent or whole, the  *)
(* loop is at a record it was given, and after a removal that got through    *)
(* everything is of this run.                                                *)
THEOREM Inductive == Spec => []IInv
BY InitInv, NextKeeps, PTL DEF Spec

(* Whatever call fails and wherever the power goes, no file of the catalog   *)
(* is torn under its own name (writeFileAtomic).                             *)
THEOREM FilesWhole == Spec => []FilesAreWhole
<1>1. IInv => FilesAreWhole
  BY DEF IInv, TreeInv, FilesAreWhole
<1> QED
  BY <1>1, Inductive, PTL

(* A catalog that is served after a removal that got through holds no title  *)
(* and no file of an earlier run, and no .partial file that was not counted. *)
THEOREM ServesThisRun == Spec => []ServedIsCurrent
<1>1. IInv => ServedIsCurrent
  BY DEF IInv, ClearedInv, Current, ServedIsCurrent
<1> QED
  BY <1>1, Inductive, PTL
-----------------------------------------------------------------------------
(* What is missing is counted. *)

Running == pc \notin {"idle", "prepare"}

(* A title has the files it should have. *)
Complete(app) == "new" \in Info(app) /\ (app \in WithIcon => "new" \in Icon(app))

(* Without a failure, the titles that were listed are complete or among those *)
(* still to be worked on, and the first of these has what was written of it. *)
FilesInv ==
    /\ listed \subseteq Apps
    /\ metadata_failure_count_ = 0 =>
          /\ pc = "prepare" => listed = {} /\ application_count_ = 0
          /\ Running => \A app \in listed : Complete(app) \/ (InTitle /\ app \in ToSet(records))
          /\ InTitle /\ pc # "title" =>
                (control.icon <=> App \in WithIcon)
          /\ InTitle /\ Writing =>
                \/ writing = <<Directory, "info.txt">>
                \/ writing = <<Directory, "icon.jpg">> /\ "new" \in Info(App)

Reached(place) == \A n \in 1..place : installed[n] \in listed

(* As long as NS answers and does not change, the loop has listed what is     *)
(* before its place, and counted what it has gone past.                      *)
CountInv ==
    Running /\ metadata_failure_count_ = 0 /\ steady /\ result_ = "OK" =>
        /\ InTitle =>
              /\ offset + record_count = MinOf(offset + Batch, Len(installed))
              /\ application_count_ = offset + record_count - Len(records)
              /\ Reached(offset + record_count)
        /\ ~InTitle =>
              /\ application_count_ = offset /\ offset <= Len(installed)
              /\ Reached(offset)
              /\ pc # "list" => offset = Len(installed)

MissingInv == FilesInv /\ CountInv

LEMMA InitMissing == Init => MissingInv
BY DEF Init, MissingInv, FilesInv, CountInv, Running, InTitle, Writing

(* After a failure that was counted there is nothing to show. *)
LEMMA CountedFailure ==
    ASSUME metadata_failure_count_' # 0, listed' \subseteq Apps
    PROVE  MissingInv'
BY DEF MissingInv, FilesInv, CountInv

(* A file of this run stays as it is. *)
LEMMA CompleteStays ==
    ASSUME \A p \in Paths : files[p] = "new" => files'[p] = "new"
    PROVE  /\ \A app \in Apps : Complete(app) => Complete(app)'
           /\ \A app \in Apps : "new" \in Info(app) => "new" \in Info(app)'
<1>1. \A app \in Apps, t \in {"titled", "untitled"}, name \in {"info.txt", "icon.jpg"} :
         <<<<app, t>>, name>> \in Paths
  <2> SUFFICES ASSUME NEW app \in Apps, NEW t \in {"titled", "untitled"},
                      NEW name \in {"info.txt", "icon.jpg"}
               PROVE  <<<<app, t>>, name>> \in Paths
    OBVIOUS
  <2>1. <<app, t>> \in Dirs
    BY DEF Dirs
  <2> QED
    BY <2>1 DEF Paths
<1>2. \A app \in Apps : "new" \in Info(app) => "new" \in Info(app)'
  BY <1>1 DEF Info
<1>3. \A app \in Apps : "new" \in Icon(app) => "new" \in Icon(app)'
  BY <1>1 DEF Icon
<1> QED
  BY <1>2, <1>3 DEF Complete

(* The record that is done with leaves the batch, and with the last one the   *)
(* batch is passed.                                                          *)
LEMMA NextRecordPasses ==
    ASSUME LoopInv, InTitle, NextRecord
    PROVE  /\ \A app \in ToSet(records) : app = App \/ app \in ToSet(records')
           /\ Len(records) \in Nat \ {0} /\ Len(records') = Len(records) - 1
           /\ record_count' = record_count
           /\ Len(records) > 1 => pc' = "title" /\ offset' = offset
           /\ Len(records) = 1 =>
                 /\ offset' = offset + record_count
                 /\ IF record_count < Batch THEN pc' = "create" /\ writing' = Summary
                    ELSE pc' = "list"
<1>1. records \in Seq(Apps) /\ records # <<>> /\ records' = Tail(records)
  BY DEF LoopInv, NextRecord
<1>2. /\ Len(records) \in Nat \ {0} /\ Len(records') = Len(records) - 1
      /\ DOMAIN records = 1..Len(records) /\ DOMAIN records' = 1..Len(records')
      /\ \A i \in 1..Len(records') : records'[i] = records[i + 1]
      /\ App = records[1]
  BY <1>1, HeadTailProperties DEF App
<1>3. ASSUME NEW i \in DOMAIN records, i # 1
      PROVE  records[i] \in ToSet(records')
  <2>1. i - 1 \in DOMAIN records' /\ records[i] = records'[i - 1]
    BY <1>2, <1>3
  <2> QED
    BY <2>1 DEF ToSet
<1>4. \A app \in ToSet(records) : app = App \/ app \in ToSet(records')
  BY <1>2, <1>3 DEF ToSet
<1> QED
  BY <1>2, <1>4 DEF NextRecord, Advanced, LastBatch, Write

LEMMA RemoveTreeMisses == RemoveTree => MissingInv'
BY DEF RemoveTree, MissingInv, FilesInv, CountInv, Running, InTitle, Writing

LEMMA PrepareMisses == LoopInv /\ MissingInv /\ Prepare => MissingInv'
<1> SUFFICES ASSUME LoopInv, MissingInv, Prepare PROVE MissingInv'
  OBVIOUS
<1>1. ~InTitle' /\ UNCHANGED <<listed, metadata_failure_count_, application_count_, installed>>
      /\ pc = "prepare" /\ pc' # "prepare"
  BY DEF Prepare, InTitle, Writing, counts
<1>2. FilesInv'
  BY <1>1 DEF MissingInv, FilesInv
<1>3. Len(installed) \in Nat
  BY CatalogAssumption DEF LoopInv
<1>4. CountInv'
  BY <1>1, <1>3 DEF Prepare, MissingInv, FilesInv, CountInv, Reached
<1> QED
  BY <1>2, <1>4 DEF MissingInv

LEMMA GetControlDataMisses == LoopInv /\ MissingInv /\ GetControlData => MissingInv'
<1> SUFFICES ASSUME LoopInv, MissingInv, GetControlData PROVE MissingInv'
  OBVIOUS
<1>1. /\ UNCHANGED <<installed, files, records, record_count, offset, writing, application_count_, result_>>
      /\ UNCHANGED <<listed, steady>> /\ pc = "title" /\ pc' = "directory" /\ InTitle /\ InTitle'
  BY DEF GetControlData, tree, loop, ghosts, InTitle
<1>2. CASE NoteFailure
  BY <1>1, <1>2, CountedFailure DEF NoteFailure, LoopInv, MissingInv, FilesInv
<1>3. CASE metadata_failure_count_' = metadata_failure_count_
           /\ control' = [ok |-> TRUE, titled |-> App \notin Untitled, icon |-> App \in WithIcon]
  <2>1. FilesInv'
    BY <1>1, <1>3 DEF MissingInv, FilesInv, Running, App, Writing, Complete, Info, Icon
  <2>2. CountInv'
    BY <1>1, <1>3 DEF MissingInv, CountInv, Running, Reached
  <2> QED
    BY <2>1, <2>2 DEF MissingInv
<1> QED
  BY <1>2, <1>3 DEF GetControlData

LEMMA MakeDirectoryMisses == LoopInv /\ MissingInv /\ MakeDirectory => MissingInv'
<1> SUFFICES ASSUME LoopInv, MissingInv, MakeDirectory PROVE MissingInv'
  OBVIOUS
<1>1. UNCHANGED <<installed, files, control, application_count_, result_, listed, steady>>
      /\ pc = "directory"
  BY DEF MakeDirectory, ghosts
<1>2. CASE NoteFailure
  BY <1>1, <1>2, CountedFailure DEF NoteFailure, LoopInv, MissingInv, FilesInv
<1>3. CASE Write(<<Directory, "info.txt">>) /\ UNCHANGED <<loop, metadata_failure_count_>>
  <2>1. UNCHANGED <<records, record_count, offset>> /\ pc' = "create" /\ InTitle /\ InTitle'
        /\ writing' = <<Directory, "info.txt">>
    BY <1>1, <1>3 DEF Write, loop, InTitle, Writing, Summary
  <2>2. FilesInv'
    BY <1>1, <1>3, <2>1 DEF MissingInv, FilesInv, Running, App, Directory, Complete, Info, Icon
  <2>3. CountInv'
    BY <1>1, <1>3, <2>1 DEF MissingInv, CountInv, Running, Reached
  <2> QED
    BY <2>2, <2>3 DEF MissingInv
<1> QED
  BY <1>2, <1>3 DEF MakeDirectory

LEMMA ListRecordsMisses == LoopInv /\ MissingInv /\ ListRecords => MissingInv'
<1> SUFFICES ASSUME LoopInv, MissingInv, ListRecords PROVE MissingInv'
  OBVIOUS
<1> DEFINE last == MinOf(offset + Batch, Len(installed))
<1>1. /\ UNCHANGED <<installed, files, offset, application_count_, metadata_failure_count_, steady>>
      /\ pc = "list" /\ ~InTitle
  BY DEF ListRecords, tree, counts, InTitle, Writing
<1>2. /\ records' = <<>> => pc' = "create" /\ writing' = Summary
      /\ records' # <<>> => pc' = "title"
  BY DEF ListRecords, Write
<1>3. InTitle' <=> records' # <<>>
  BY <1>2 DEF InTitle, Writing
<1>4. CASE result_' = "failed" /\ records' = <<>> /\ UNCHANGED listed
  <2>1. FilesInv'
    BY <1>1, <1>2, <1>3, <1>4 DEF MissingInv, FilesInv, Running, Complete, Info, Icon
  <2> QED
    BY <1>4, <2>1 DEF MissingInv, CountInv
<1>5. CASE /\ records' = SubSeq(installed, offset + 1, last) /\ record_count' = Len(records')
           /\ listed' = listed \cup ToSet(records') /\ UNCHANGED result_
  <2>1. /\ installed \in Seq(Apps) /\ Len(installed) \in Nat /\ offset \in Nat
        /\ last \in Int /\ last <= Len(installed) /\ last <= offset + Batch
        /\ offset <= Len(installed) => last >= offset /\ (last = offset => offset = Len(installed))
    BY CatalogAssumption DEF LoopInv, MinOf
  <2>2. /\ records' \in Seq(Apps)
        /\ Len(records') = IF offset + 1 <= last THEN last - offset ELSE 0
        /\ \A n \in 1..last - offset : records'[n] = installed[offset + n]
    <3>1. \A n \in offset + 1..last : installed[n] \in Apps
      BY <2>1
    <3> HIDE DEF last
    <3> QED
      BY <1>5, <2>1, <3>1, SubSeqProperties
  <2> HIDE DEF last
  <2>3. ToSet(records') \subseteq Apps
    BY <2>2 DEF ToSet
  <2>4. FilesInv'
    <3>1. listed' \subseteq Apps
      BY <1>5, <2>3 DEF MissingInv, FilesInv
    <3>2. \A app \in ToSet(records') : records' # <<>>
      BY DEF ToSet
    <3>3. ASSUME metadata_failure_count_ = 0
          PROVE  \A app \in listed' : Complete(app)' \/ (InTitle' /\ app \in ToSet(records'))
      <4>1. \A app \in listed : Complete(app)'
        BY <1>1, <3>3 DEF MissingInv, FilesInv, Running, Complete, Info, Icon
      <4> QED
        BY <1>3, <1>5, <3>2, <4>1
    <3>4. pc' # "prepare" /\ ~(InTitle' /\ pc' # "title")
      BY <1>2, <1>3
    <3> QED
      BY <1>1, <3>1, <3>3, <3>4 DEF FilesInv, Writing
  <2>5. CountInv'
    <3> SUFFICES ASSUME metadata_failure_count_ = 0, steady, result_ = "OK"
                 PROVE  CountInv'
      BY <1>1, <1>5 DEF CountInv
    <3>1. application_count_ = offset /\ offset <= Len(installed) /\ Reached(offset)
      BY <1>1 DEF MissingInv, CountInv, Running
    <3>2. Len(records') = last - offset
      BY <2>1, <2>2, <3>1
    <3>3. \A n \in 1..last : installed[n] \in listed'
      <4> SUFFICES ASSUME NEW n \in 1..last PROVE installed[n] \in listed'
        OBVIOUS
      <4>1. CASE n \in 1..offset
        BY <1>5, <3>1, <4>1 DEF Reached
      <4>2. CASE n \in offset + 1..last
        <5>1. n - offset \in 1..last - offset /\ n = offset + (n - offset)
          BY <2>1, <4>2
        <5>2. records'[n - offset] = installed[n] /\ n - offset \in DOMAIN records'
          BY <2>2, <3>2, <5>1
        <5> QED
          BY <1>5, <5>2 DEF ToSet
      <4> QED
        BY <2>1, <4>1, <4>2
    <3>4. CASE records' = <<>>
      <4>1. offset = Len(installed)
        BY <2>1, <3>1, <3>2, <3>4
      <4> QED
        BY <1>1, <1>3, <1>5, <3>1, <3>4, <4>1 DEF CountInv, Reached
    <3>5. CASE records' # <<>>
      <4>1. /\ offset + record_count' = last
            /\ application_count_ = offset + record_count' - Len(records')
        BY <1>5, <2>1, <3>1, <3>2
      <4>2. last' = last
        BY <1>1 DEF last
      <4> QED
        BY <1>1, <1>3, <3>3, <3>5, <4>1, <4>2 DEF CountInv, Reached, last
    <3> QED
      BY <3>4, <3>5
  <2> QED
    BY <2>4, <2>5 DEF MissingInv
<1> QED
  BY <1>4, <1>5 DEF ListRecords

(* A write that fails is counted, unless it is that of catalog.txt, which     *)
(* says nothing of its own.                                                  *)
LEMMA WriteFailsMisses ==
    ASSUME LoopInv, MissingInv, Writing, WriteFails,
           UNCHANGED <<installed, dirs, files, control, result_, ghosts>>
    PROVE  MissingInv'
<1>1. UNCHANGED <<listed, steady>>
  BY DEF ghosts
<1>2. CASE writing # Summary
  BY <1>1, <1>2, CountedFailure DEF WriteFails, Uncounted, NoteFailure, LoopInv, MissingInv, FilesInv
<1>3. CASE writing = Summary
  <2>1. /\ UNCHANGED <<metadata_failure_count_, application_count_, records, record_count, offset>>
        /\ pc' = IF result_ = "OK" THEN "serving" ELSE "unavailable"
        /\ ~InTitle /\ ~InTitle' /\ Running
    BY <1>3 DEF WriteFails, Uncounted, AfterWrite, loop, InTitle, Writing, Running, Summary
  <2>2. FilesInv'
    BY <1>1, <2>1 DEF MissingInv, FilesInv, Running, Complete, Info, Icon
  <2>3. CountInv'
    BY <1>1, <2>1 DEF MissingInv, CountInv, Reached, Writing
  <2> QED
    BY <2>2, <2>3 DEF MissingInv
<1> QED
  BY <1>2, <1>3

LEMMA CreateFillMisses == LoopInv /\ MissingInv /\ (CreatePartial \/ FillPartial) => MissingInv'
<1> SUFFICES ASSUME LoopInv, MissingInv, CreatePartial \/ FillPartial PROVE MissingInv'
  OBVIOUS
<1>1. /\ UNCHANGED <<installed, dirs, files, control, result_, ghosts>> /\ Writing
      /\ WriteFails \/ (UNCHANGED <<loop, writing, counts>> /\ pc' \in {"fill", "rename"})
  BY DEF CreatePartial, FillPartial, Writing
<1>2. CASE WriteFails
  BY <1>1, <1>2, WriteFailsMisses
<1>3. CASE UNCHANGED <<loop, writing, counts>> /\ pc' \in {"fill", "rename"}
  <2>1. /\ UNCHANGED <<records, record_count, offset, application_count_, metadata_failure_count_>>
        /\ UNCHANGED <<listed, steady, files, control, installed, writing, result_>>
        /\ (InTitle' <=> InTitle) /\ Writing' /\ Running /\ pc \notin {"title", "list", "prepare"}
        /\ pc' \notin {"title", "list", "prepare"}
    BY <1>1, <1>3 DEF loop, counts, ghosts, InTitle, Writing, Running
  <2>2. FilesInv'
    BY <1>1, <2>1 DEF MissingInv, FilesInv, Running, App, Directory, Complete, Info, Icon
  <2>3. CountInv'
    BY <2>1 DEF MissingInv, CountInv, Reached
  <2> QED
    BY <2>2, <2>3 DEF MissingInv
<1> QED
  BY <1>1, <1>2, <1>3

LEMMA PublishPartialMisses == TreeInv /\ LoopInv /\ MissingInv /\ PublishPartial => MissingInv'
<1> SUFFICES ASSUME TreeInv, LoopInv, MissingInv, PublishPartial PROVE MissingInv'
  OBVIOUS
<1>1. /\ UNCHANGED <<installed, dirs, control, result_, ghosts, listed, steady>>
      /\ Writing /\ Running /\ pc = "rename" /\ writing \in Paths
  BY DEF PublishPartial, Publishable, Writing, Running, ghosts, LoopInv
<1>2. CASE WriteFails /\ UNCHANGED files
  BY <1>1, <1>2, WriteFailsMisses
<1>3. CASE /\ files' = [files EXCEPT ![writing] = IF pc = "rename" THEN "new" ELSE "unsynced"]
           /\ UNCHANGED metadata_failure_count_
           /\ AfterWrite
  <2>1. files'[writing] = "new" /\ \A p \in Paths : files[p] = "new" => files'[p] = "new"
    BY <1>1, <1>3 DEF TreeInv
  <2>2. /\ \A app \in Apps : Complete(app) => Complete(app)'
        /\ \A app \in Apps : "new" \in Info(app) => "new" \in Info(app)'
    BY <2>1, CompleteStays
  <2>3. CASE writing = Summary
    <3>1. /\ UNCHANGED <<application_count_, records, record_count, offset>>
          /\ pc' = IF result_ = "OK" THEN "serving" ELSE "unavailable"
          /\ ~InTitle /\ ~InTitle'
      <4>1. AfterWrite
        BY <1>3
      <4> QED
        BY <1>1, <2>3, <4>1 DEF AfterWrite, loop, InTitle, Writing
    <3>2. FilesInv'
      BY <1>1, <1>3, <2>2, <3>1 DEF MissingInv, FilesInv, Running
    <3>3. CountInv'
      BY <1>1, <1>3, <3>1 DEF MissingInv, CountInv, Reached
    <3> QED
      BY <3>2, <3>3 DEF MissingInv
  <2>4. CASE writing # Summary
    <3>1. InTitle
      BY <1>1, <2>4 DEF InTitle
    <3>2. CASE metadata_failure_count_ # 0
      BY <1>1, <1>3, <3>2, CountedFailure DEF MissingInv, FilesInv
    <3>3. CASE metadata_failure_count_ = 0
      <4>1. /\ control.icon <=> App \in WithIcon
            /\ \/ writing = <<Directory, "info.txt">>
               \/ writing = <<Directory, "icon.jpg">> /\ "new" \in Info(App)
        BY <1>1, <3>1, <3>3 DEF MissingInv, FilesInv
      <4>2. App \in Apps /\ App \in ToSet(records)
            /\ \E t \in {"titled", "untitled"} : Directory = <<App, t>>
        BY <3>1, PlacesOfRecord DEF Directory
      <4>3. PICK app \in Apps : app = App
        BY <4>2
      <4>4. "new" \in Info(app)'
        <5>1. CASE writing = <<Directory, "info.txt">>
          BY <2>1, <4>2, <4>3, <5>1 DEF Info
        <5>2. CASE "new" \in Info(App)
          BY <2>2, <4>3, <5>2
        <5> QED
          BY <4>1, <5>1, <5>2
      <4>5. AfterWrite
        BY <1>3
      <4>6. CASE writing[2] = "info.txt" /\ control.icon
        <5>1. /\ UNCHANGED <<application_count_, records, record_count, offset>>
              /\ pc' = "create" /\ writing' = <<Directory, "icon.jpg">> /\ InTitle'
          BY <2>4, <4>5, <4>6 DEF AfterWrite, Write, loop, InTitle, Writing, Summary
        <5>2. App' = App /\ Directory' = Directory
          BY <1>1, <5>1 DEF App, Directory
        <5>3. FilesInv'
          BY <1>1, <1>3, <2>2, <3>1, <3>3, <4>1, <4>3, <4>4, <5>1, <5>2 DEF MissingInv, FilesInv
        <5>4. CountInv'
          BY <1>1, <1>3, <3>1, <5>1 DEF MissingInv, CountInv, Reached
        <5> QED
          BY <5>3, <5>4 DEF MissingInv
      <4>7. CASE ~(writing[2] = "info.txt" /\ control.icon)
        <5>1. NextRecord /\ application_count_' = MinOf(application_count_ + 1, MaxCount)
          BY <2>4, <4>5, <4>7 DEF AfterWrite
        <5>2. Complete(app)'
          <6>1. app \in WithIcon => writing = <<Directory, "icon.jpg">>
            BY <4>1, <4>3, <4>7
          <6>2. writing = <<Directory, "icon.jpg">> => "new" \in Icon(app)'
            BY <2>1, <4>2, <4>3 DEF Icon
          <6> QED
            BY <4>4, <6>1, <6>2 DEF Complete
        <5>3. /\ \A other \in ToSet(records) : other = app \/ other \in ToSet(records')
              /\ Len(records) \in Nat \ {0} /\ Len(records') = Len(records) - 1
              /\ record_count' = record_count
              /\ Len(records) > 1 => pc' = "title" /\ offset' = offset
              /\ Len(records) = 1 =>
                    /\ offset' = offset + record_count
                    /\ IF record_count < Batch THEN pc' = "create" /\ writing' = Summary
                       ELSE pc' = "list"
          BY <3>1, <4>3, <5>1, NextRecordPasses
        <5>4. /\ InTitle' <=> Len(records) > 1
              /\ ~(InTitle' /\ pc' # "title") /\ pc' # "prepare"
          BY <5>3 DEF InTitle, Writing
        <5>5. \A other \in ToSet(records') : Len(records) > 1
          BY <3>1, <5>1, <5>3, NextRecordKeeps DEF ToSet
        <5>6. FilesInv'
          BY <1>1, <1>3, <2>2, <3>3, <5>2, <5>3, <5>4, <5>5 DEF MissingInv, FilesInv, Writing
        <5>7. CountInv'
          <6> SUFFICES ASSUME steady, result_ = "OK" PROVE CountInv'
            BY <1>1 DEF CountInv
          <6>1. /\ offset + record_count = MinOf(offset + Batch, Len(installed))
                /\ application_count_ = offset + record_count - Len(records)
                /\ Reached(offset + record_count)
            BY <1>1, <3>1, <3>3 DEF MissingInv, CountInv
          <6>2. /\ offset \in Nat /\ record_count \in Nat
                /\ Len(installed) \in Nat /\ Len(installed) < MaxCount
                /\ Batch \in Nat \ {0} /\ MaxCount \in Nat
            BY CatalogAssumption DEF LoopInv
          <6>3. offset + record_count <= Len(installed)
            BY <6>1, <6>2 DEF MinOf
          <6>4. application_count_' = offset + record_count - Len(records')
            BY <5>1, <5>3, <6>1, <6>2, <6>3 DEF MinOf
          <6>5. \A n \in 1..(offset + record_count) : installed'[n] \in listed'
            BY <1>1, <6>1 DEF Reached
          <6>6. CASE Len(records) > 1
            BY <1>1, <5>3, <5>4, <6>1, <6>4, <6>5, <6>6 DEF CountInv, Reached
          <6>7. CASE Len(records) = 1
            <7>1. application_count_' = offset' /\ offset' <= Len(installed)
              BY <5>3, <6>2, <6>3, <6>4, <6>7
            <7>2. pc' # "list" => offset' = Len(installed)
              BY <5>3, <6>1, <6>2, <6>7 DEF MinOf
            <7>3. \A n \in 1..offset' : installed'[n] \in listed'
              BY <5>3, <6>5, <6>7
            <7> QED
              BY <1>1, <5>4, <6>7, <7>1, <7>2, <7>3 DEF CountInv, Reached
          <6> QED
            BY <5>3, <6>6, <6>7
        <5> QED
          BY <5>6, <5>7 DEF MissingInv
      <4> QED
        BY <4>6, <4>7
    <3> QED
      BY <3>2, <3>3
  <2> QED
    BY <2>3, <2>4
<1> QED
  BY <1>2, <1>3 DEF PublishPartial

LEMMA OutsideMisses ==
    MissingInv /\ (EndSession \/ Crash \/ InstalledChanges \/ UNCHANGED vars) => MissingInv'
<1> SUFFICES ASSUME MissingInv, EndSession \/ Crash \/ InstalledChanges \/ UNCHANGED vars
             PROVE  MissingInv'
  OBVIOUS
<1>1. CASE EndSession \/ Crash
  <2>1. pc' = "idle" /\ listed' = listed
    BY <1>1 DEF EndSession, Crash, ghosts
  <2> QED
    BY <2>1 DEF MissingInv, FilesInv, CountInv, Running, InTitle, Writing
<1>2. CASE InstalledChanges \/ UNCHANGED vars
  <2>1. /\ UNCHANGED <<files, pc, records, record_count, offset, control, writing, application_count_,
                       metadata_failure_count_, result_, listed>>
        /\ steady' = FALSE \/ (UNCHANGED <<installed, steady>>)
    BY <1>2 DEF InstalledChanges, vars, tree, loop, counts, ghosts
  <2>2. FilesInv'
    BY <2>1 DEF MissingInv, FilesInv, Running, InTitle, Writing, App, Directory, Complete, Info, Icon
  <2>3. CountInv'
    BY <2>1 DEF MissingInv, CountInv, Running, InTitle, Writing, Reached
  <2> QED
    BY <2>2, <2>3 DEF MissingInv
<1> QED
  BY <1>1, <1>2

(* A catalog is served when generate() says so. *)
ServingInv == pc = "serving" => result_ = "OK"

LEMMA InitServing == Init => ServingInv
BY DEF Init, ServingInv

LEMMA ServingKept == ServingInv /\ [Next]_vars => ServingInv'
<1> SUFFICES ASSUME ServingInv, [Next]_vars PROVE ServingInv'
  OBVIOUS
<1>1. ASSUME AfterWrite, result_' = result_ PROVE ServingInv'
  BY <1>1 DEF AfterWrite, Write, NextRecord, ServingInv
<1>2. CASE CreatePartial \/ FillPartial \/ PublishPartial
  BY <1>1, <1>2 DEF CreatePartial, FillPartial, PublishPartial, WriteFails, ServingInv
<1>3. CASE RemoveTree \/ Prepare \/ ListRecords \/ GetControlData \/ MakeDirectory
  BY <1>3 DEF RemoveTree, Prepare, ListRecords, GetControlData, MakeDirectory, NextRecord, Write,
              ServingInv
<1>4. CASE EndSession \/ Crash \/ InstalledChanges \/ UNCHANGED vars
  BY <1>4 DEF EndSession, Crash, InstalledChanges, vars, ServingInv
<1> QED
  BY <1>2, <1>3, <1>4 DEF Next, GenerateStep

(* A session that succeeds without a counted failure has written every title  *)
(* it was told of, and while NS stands still it was told of all of them.      *)
THEOREM NothingMissing == Spec => []NothingMissingSilently
<1>1. IInv /\ MissingInv /\ [Next]_vars => MissingInv'
  BY RemoveTreeMisses, PrepareMisses, ListRecordsMisses, GetControlDataMisses, MakeDirectoryMisses,
     CreateFillMisses, PublishPartialMisses, OutsideMisses DEF IInv, Next, GenerateStep
<1>2. IInv /\ MissingInv /\ ServingInv => NothingMissingSilently
  <2> SUFFICES ASSUME IInv, MissingInv, ServingInv, pc = "serving", metadata_failure_count_ = 0
               PROVE  /\ \A a \in listed :
                            "new" \in Info(a) /\ (a \in WithIcon => "new" \in Icon(a))
                      /\ steady => ToSet(installed) \subseteq listed /\ application_count_ = Len(installed)
    BY DEF NothingMissingSilently
  <2>1. Running /\ ~InTitle /\ result_ = "OK"
    BY DEF Running, InTitle, Writing, ServingInv
  <2>2. \A a \in listed : "new" \in Info(a) /\ (a \in WithIcon => "new" \in Icon(a))
    BY <2>1 DEF MissingInv, FilesInv, Complete
  <2>3. ASSUME steady
        PROVE  ToSet(installed) \subseteq listed /\ application_count_ = Len(installed)
    <3>1. application_count_ = offset /\ offset = Len(installed) /\ Reached(offset)
      BY <2>1, <2>3 DEF MissingInv, CountInv
    <3>2. DOMAIN installed = 1..Len(installed)
      BY CatalogAssumption DEF IInv, LoopInv
    <3> QED
      BY <3>1, <3>2 DEF Reached, ToSet
  <2> QED
    BY <2>2, <2>3
<1> QED
  BY InitMissing, InitServing, ServingKept, <1>1, <1>2, Inductive, PTL DEF Spec
=============================================================================

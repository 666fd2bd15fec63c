------------------------- MODULE ObjectDatabaseProofs -------------------------
(***************************************************************************)
(* Proofs about ObjectDatabase, for any disk, any storages and any number  *)
(* of handles: type correctness, that a handle is never reused in a        *)
(* session, that what the PC sends never replaces anything and that only   *)
(* a file open for editing changes, and that what the PC is shown is so,   *)
(* up to what the server does behind the database's back: the entries      *)
(* agree with the disk, the listings stay complete, the objects form       *)
(* trees, and a file is sent as it was announced.                          *)
(***************************************************************************)
EXTENDS ObjectDatabase, TLAPS, FiniteSetTheorems, FunctionTheorems

-----------------------------------------------------------------------------
(* Numbering. *)

(* The elements of a finite set get consecutive handles. *)
LEMMA NumberingType ==
    ASSUME NEW S, IsFiniteSet(S), NEW n \in Nat
    PROVE  /\ Cardinality(S) \in Nat
           /\ DOMAIN Numbering(S, n) = n..(n + Cardinality(S) - 1)
           /\ \A h \in DOMAIN Numbering(S, n) : Numbering(S, n)[h] \in S
<1> DEFINE m == Cardinality(S)
           f == CHOOSE g \in [1..m -> S] : \A x \in S : \E i \in 1..m : g[i] = x
<1>1. m \in Nat /\ ExistsBijection(1..m, S)
  BY FS_CardinalityType
<1>2. \E g \in [1..m -> S] : \A x \in S : \E i \in 1..m : g[i] = x
  BY <1>1 DEF ExistsBijection, Bijection, Injection, Surjection
<1>3. f \in [1..m -> S]
  BY <1>2
<1>4. Numbering(S, n) = [h \in n..(n + m - 1) |-> f[h - n + 1]]
  BY DEF Numbering
<1>5. ASSUME NEW h \in n..(n + m - 1) PROVE f[h - n + 1] \in S
  <2>1. h - n + 1 \in 1..m
    BY <1>1
  <2> QED
    BY <2>1, <1>3
<1> QED
  BY <1>1, <1>4, <1>5

(* The mounted saves have the first handles. *)
LEMMA SeedsType ==
    /\ DOMAIN SeedEntries \subseteq 1..Cardinality(Seeds)
    /\ Cardinality(Seeds) \in Nat
    /\ \A h \in DOMAIN SeedEntries : SeedEntries[h] \in Entry
<1> DEFINE f == [seed \in Seeds |-> SeedEntry(seed)]
           T == {SeedEntry(seed) : seed \in Seeds}
<1>1. Cardinality(Seeds) \in Nat
  BY StorageAssumption, FS_CardinalityType
<1>2. f \in Surjection(Seeds, T)
  BY DEF Surjection
<1>3. IsFiniteSet(T) /\ Cardinality(T) <= Cardinality(Seeds)
  <2>1. IsFiniteSet(Seeds)
    BY StorageAssumption
  <2> HIDE DEF f, T
  <2> QED
    BY <2>1, <1>2, FS_Surjection
<1>4. T \subseteq Entry
  <2> SUFFICES ASSUME NEW seed \in Seeds PROVE SeedEntry(seed) \in Entry
    OBVIOUS
  <2>1. seed.storage \in Storages /\ seed.path \in Paths
    BY StorageAssumption
  <2> QED
    BY <2>1 DEF SeedEntry, Entry
<1> HIDE DEF T
<1>5. /\ DOMAIN Numbering(T, 1) = 1..(1 + Cardinality(T) - 1)
      /\ \A h \in DOMAIN Numbering(T, 1) : Numbering(T, 1)[h] \in T
      /\ Cardinality(T) \in Nat
  BY <1>3, NumberingType
<1>6. SeedEntries = Numbering(T, 1)
  BY DEF SeedEntries, T
<1> QED
  BY <1>1, <1>3, <1>4, <1>5, <1>6

-----------------------------------------------------------------------------
(* What scan() finds. *)

(* The directories a listing reads belong to a storage and to an object of it. *)
LEMMA TargetsType ==
    ASSUME TypeOK, NEW target,
           \/ \E storages \in SUBSET Storages : target \in RootsToScan(storages)
           \/ \E h \in Handles : target \in DirectoryToScan(h)
    PROVE  target.storage \in Storages /\ target.parent \in Handles \cup {0}
<1>1. CASE \E storages \in SUBSET Storages : target \in RootsToScan(storages)
  BY <1>1 DEF RootsToScan
<1>2. CASE \E h \in Handles : target \in DirectoryToScan(h)
  <2>1. PICK x \in DOMAIN Kept : target = [storage |-> Kept[x].storage, parent |-> x,
                                          path |-> Kept[x].path]
    BY <1>2 DEF DirectoryToScan
  <2>2. x \in DOMAIN entries_ /\ Kept[x] = entries_[x]
    BY DEF Kept, Without
  <2>3. x \in Handles /\ entries_[x] \in Entry
    BY <2>2 DEF TypeOK
  <2> QED
    BY <2>1, <2>2, <2>3 DEF Entry
<1> QED
  BY <1>1, <1>2

(* It is a finite set of entries. *)
LEMMA FoundType ==
    ASSUME TypeOK, NEW targets,
           \A t \in targets : t.storage \in Storages /\ t.parent \in Handles \cup {0}
    PROVE  LET found == UNION {Found(t) : t \in targets}
           IN  found \subseteq Entry /\ IsFiniteSet(found)
<1> DEFINE found == UNION {Found(t) : t \in targets}
           I == (Storages \X (0..MaxHandle)) \X Paths
           EntryAt(i) == [storage |-> i[1][1], parent |-> i[1][2], path |-> i[2],
                          dir |-> disk[i[2]] = Directory, size |-> disk[i[2]].size,
                          scanned |-> FALSE]
           f == [i \in I |-> EntryAt(i)]
           T == {EntryAt(i) : i \in I}
<1>1. IsFiniteSet(I)
  <2>1. IsFiniteSet(0..MaxHandle)
    BY BoundsAssumption, FS_Interval
  <2> QED
    BY <2>1, StorageAssumption, DiskAssumption, FS_Product
<1>2. IsFiniteSet(T)
  <2>1. f \in Surjection(I, T)
    BY DEF Surjection
  <2> HIDE DEF I, f, T
  <2> QED
    BY <1>1, <2>1, FS_Surjection
<1>3. found \subseteq T
  <2> SUFFICES ASSUME NEW t \in targets, NEW e \in Found(t) PROVE e \in T
    OBVIOUS
  <2>1. PICK p \in Paths : e = [storage |-> t.storage, parent |-> t.parent, path |-> p,
                               dir |-> disk[p] = Directory, size |-> disk[p].size,
                               scanned |-> FALSE]
    BY DEF Found, Children
  <2>2. t.parent \in 0..MaxHandle
    BY BoundsAssumption DEF Handles
  <2>3. <<<<t.storage, t.parent>>, p>> \in I
    BY <2>2
  <2>4. e = EntryAt(<<<<t.storage, t.parent>>, p>>)
    BY <2>1
  <2> HIDE DEF I
  <2> QED
    BY <2>3, <2>4
<1>4. T \subseteq Entry
  <2> SUFFICES ASSUME NEW i \in I PROVE EntryAt(i) \in Entry
    OBVIOUS
  <2>1. i[1][1] \in Storages /\ i[1][2] \in Handles \cup {0} /\ i[2] \in Paths
    BY BoundsAssumption DEF Handles
  <2>2. disk[i[2]].size \in Nat
    BY <2>1 DEF TypeOK, Node, Missing, Directory
  <2> QED
    BY <2>1, <2>2 DEF Entry
<1>5. IsFiniteSet(found)
  <2> HIDE DEF T, found
  <2> QED
    BY <1>2, <1>3, FS_Subset
<1> QED
  BY <1>3, <1>4, <1>5

-----------------------------------------------------------------------------
(* Handles. *)

Object(entry) == [storage |-> entry.storage, path |-> entry.path]

(* Every handle given is below the next one, and the objects have theirs. *)
HandlesInv ==
    /\ \A h \in DOMAIN issued : h \in Nat /\ h < next_handle_
    /\ \A h \in DOMAIN entries_ : h \in DOMAIN issued /\ issued[h] = Object(entries_[h])

EntriesType ==
    /\ DOMAIN entries_ \subseteq Handles
    /\ \A h \in DOMAIN entries_ : entries_[h] \in Entry
    /\ next_handle_ \in 1..(MaxHandle + 1)

LEMMA KeptType ==
    ASSUME EntriesType
    PROVE  /\ DOMAIN Kept \subseteq DOMAIN entries_
           /\ \A h \in DOMAIN Kept : Kept[h] = entries_[h] /\ Kept[h] \in Entry
BY DEF EntriesType, Kept, Without

(* A request keeps what it does not drop, perhaps marked as read, and gives  *)
(* handles from next_handle_ on.                                             *)
LEMMA RequestKeepsHandles ==
    ASSUME EntriesType, HandlesInv,
           NEW old, DOMAIN old \subseteq DOMAIN entries_,
           \A h \in DOMAIN old : old[h] \in Entry /\ Object(old[h]) = Object(entries_[h]),
           NEW added, DOMAIN added \subseteq next_handle_..(next_handle_' - 1),
           \A h \in DOMAIN added : added[h] \in Entry,
           next_handle_' \in next_handle_..(MaxHandle + 1),
           entries_' = old \/ entries_' = With(old, added),
           issued' = With(issued, Objects(added))
    PROVE  EntriesType' /\ HandlesInv'
<1>1. next_handle_ \in Nat /\ next_handle_' \in Nat /\ MaxHandle \in Nat
  BY BoundsAssumption DEF EntriesType
<1>2. /\ DOMAIN issued' = DOMAIN issued \cup DOMAIN added
      /\ \A h \in DOMAIN issued : issued'[h] = issued[h]
      /\ \A h \in DOMAIN added \ DOMAIN issued : issued'[h] = Object(added[h])
  BY DEF With, Objects, Object
<1>3. ASSUME NEW h \in DOMAIN entries_'
      PROVE  \/ h \in DOMAIN old /\ entries_'[h] = old[h]
             \/ h \in DOMAIN added /\ entries_'[h] = added[h]
  BY DEF With
<1>4. DOMAIN added \cap DOMAIN issued = {}
  BY <1>1 DEF HandlesInv
<1>5. EntriesType'
  <2>1. ASSUME NEW h \in DOMAIN entries_' PROVE h \in Handles /\ entries_'[h] \in Entry
    <3>1. CASE h \in DOMAIN old /\ entries_'[h] = old[h]
      BY <3>1 DEF EntriesType
    <3>2. CASE h \in DOMAIN added /\ entries_'[h] = added[h]
      <4>1. h \in next_handle_..(next_handle_' - 1)
        BY <3>2
      <4>2. h \in Handles
        BY <4>1, <1>1 DEF EntriesType, Handles
      <4> QED
        BY <3>2, <4>2
    <3> QED
      BY <1>3, <3>1, <3>2
  <2>2. next_handle_' \in 1..(MaxHandle + 1)
    BY <1>1 DEF EntriesType
  <2> QED
    BY <2>1, <2>2 DEF EntriesType, Entry, Handles
<1>6. ASSUME NEW h \in DOMAIN issued' PROVE h \in Nat /\ h < next_handle_'
  <2>1. CASE h \in DOMAIN issued
    BY <2>1, <1>1 DEF HandlesInv
  <2>2. CASE h \in DOMAIN added
    <3>1. h \in next_handle_..(next_handle_' - 1)
      BY <2>2
    <3> QED
      BY <3>1, <1>1
  <2> QED
    BY <1>2, <2>1, <2>2
<1>7. ASSUME NEW h \in DOMAIN entries_'
      PROVE  h \in DOMAIN issued' /\ issued'[h] = Object(entries_'[h])
  <2>1. CASE h \in DOMAIN old /\ entries_'[h] = old[h]
    BY <2>1, <1>2 DEF HandlesInv
  <2>2. CASE h \in DOMAIN added /\ entries_'[h] = added[h]
    BY <2>2, <1>2, <1>4
  <2> QED
    BY <1>3, <2>1, <2>2
<1> QED
  BY <1>5, <1>6, <1>7 DEF HandlesInv, Object
(* A request that gives no handle. *)
LEMMA RequestDropsHandles ==
    ASSUME EntriesType, HandlesInv, UNCHANGED <<next_handle_, issued>>,
           DOMAIN entries_' \subseteq DOMAIN entries_,
           \A h \in DOMAIN entries_' :
               entries_'[h] \in Entry /\ Object(entries_'[h]) = Object(entries_[h])
    PROVE  EntriesType' /\ HandlesInv'
<1>1. EntriesType'
  BY DEF EntriesType, Entry, Handles
<1>2. HandlesInv'
  BY DEF HandlesInv, Object
<1> QED
  BY <1>1, <1>2

(* The object that is being received is in the database, in a directory of   *)
(* its storage, and not yet on the disk.                                     *)
PendingInv ==
    mSendObjectHandle # kInvalidObjectHandle =>
        /\ mSendObjectHandle \in DOMAIN entries_
        /\ disk[entries_[mSendObjectHandle].path] = Missing
        /\ ParentPath(entries_[mSendObjectHandle].storage,
                      entries_[mSendObjectHandle].parent) \in Paths

(* What is open for editing is a file that may be written, and what a sink   *)
(* took in place of a file was given a handle.                               *)
OutsideInv ==
    /\ \A edit \in mObjectEditList :
          disk[edit.path] \notin {Missing, Directory} /\ edit.path \notin Frozen
    /\ unfiled \subseteq DOMAIN issued

IndInv == TypeOK /\ HandlesInv /\ PendingInv /\ OutsideInv

LEMMA TypeOKEntries == TypeOK => EntriesType
BY DEF TypeOK, EntriesType

LEMMA InitInd == Init => IndInv
<1> SUFFICES ASSUME Init PROVE IndInv
  OBVIOUS
<1>1. EntriesType /\ HandlesInv
  <2>1. \A h \in DOMAIN SeedEntries : h \in Nat /\ h < Cardinality(Seeds) + 1 /\ h \in Handles
    BY SeedsType, BoundsAssumption DEF Handles
  <2>2. Cardinality(Seeds) + 1 \in 1..(MaxHandle + 1)
    BY SeedsType, BoundsAssumption
  <2>3. EntriesType
    BY <2>1, <2>2, SeedsType DEF Init, EntriesType
  <2>4. HandlesInv
    BY <2>1 DEF Init, HandlesInv, Objects, Object
  <2> QED
    BY <2>3, <2>4
<1>2. TypeOK
  <2>1. disk \in [Paths -> Node]
    BY DiskAssumption DEF Init
  <2> QED
    BY <1>1, <2>1 DEF Init, TypeOK, EntriesType
<1>3. PendingInv /\ OutsideInv
  BY DEF Init, PendingInv, OutsideInv
<1> QED
  BY <1>1, <1>2, <1>3 DEF IndInv

(* Listing. *)
LEMMA ScanEntries ==
    ASSUME TypeOK, HandlesInv, NEW targets, Scan(targets),
           \A t \in targets : t.storage \in Storages /\ t.parent \in Handles \cup {0}
    PROVE  EntriesType' /\ HandlesInv'
<1>1. PICK opened \in SUBSET targets :
          LET found == UNION {Found(t) : t \in opened}
              added == Numbering(found, next_handle_)
              read == {t.parent : t \in opened}
              marked == [h \in DOMAIN Kept |-> [Kept[h] EXCEPT !.scanned = @ \/ h \in read]]
          IN  /\ next_handle_ + Cardinality(found) <= MaxHandle + 1
              /\ entries_' = With(marked, added)
              /\ next_handle_' = next_handle_ + Cardinality(found)
              /\ issued' = With(issued, Objects(added))
  BY DEF Scan
<1> DEFINE found == UNION {Found(t) : t \in opened}
           added == Numbering(found, next_handle_)
           read == {t.parent : t \in opened}
           marked == [h \in DOMAIN Kept |-> [Kept[h] EXCEPT !.scanned = @ \/ h \in read]]
<1>2. found \subseteq Entry /\ IsFiniteSet(found)
  BY FoundType
<1>3. EntriesType /\ next_handle_ \in Nat /\ MaxHandle \in Nat
  BY TypeOKEntries, BoundsAssumption DEF EntriesType
<1>4. /\ entries_' = With(marked, added)
      /\ issued' = With(issued, Objects(added))
      /\ next_handle_' = next_handle_ + Cardinality(found)
      /\ next_handle_ + Cardinality(found) <= MaxHandle + 1
  BY <1>1
<1>5. \A h \in DOMAIN marked : marked[h] \in Entry /\ Object(marked[h]) = Object(entries_[h])
  <2> SUFFICES ASSUME NEW h \in DOMAIN Kept
               PROVE  marked[h] \in Entry /\ Object(marked[h]) = Object(entries_[h])
    OBVIOUS
  <2>1. Kept[h] = entries_[h] /\ Kept[h] \in Entry
    BY <1>3, KeptType
  <2>2. marked[h] = [Kept[h] EXCEPT !.scanned = @ \/ h \in read]
    OBVIOUS
  <2>3. (Kept[h].scanned \/ h \in read) \in BOOLEAN
    OBVIOUS
  <2> HIDE DEF read, marked
  <2> QED
    BY <2>1, <2>2, <2>3 DEF Entry, Object
<1>6. DOMAIN marked \subseteq DOMAIN entries_
  BY <1>3, KeptType
<1> HIDE DEF found
<1>7. /\ Cardinality(found) \in Nat
      /\ DOMAIN added = next_handle_..(next_handle_ + Cardinality(found) - 1)
      /\ \A h \in DOMAIN added : added[h] \in Entry
  BY <1>2, <1>3, NumberingType
<1>8. /\ next_handle_' \in next_handle_..(MaxHandle + 1)
      /\ DOMAIN added \subseteq next_handle_..(next_handle_' - 1)
  BY <1>3, <1>4, <1>7
<1> HIDE DEF added, marked
<1> QED
  BY <1>3, <1>4, <1>5, <1>6, <1>7, <1>8, RequestKeepsHandles

(* SendObjectInfo. *)
LEMMA AnnouncedType ==
    ASSUME TypeOK, HandlesInv, NEW s \in Storages, NEW parent \in Handles \cup {0},
           NEW item \in Sendable, TakesHandle(s, parent, item),
           NEW new \in [path: Paths, dir: BOOLEAN, size: Nat], new.path = item.path
    PROVE  /\ DOMAIN Announced(s, parent, new) = {next_handle_}
           /\ Announced(s, parent, new)[next_handle_] \in Entry
           /\ Announced(s, parent, new)[next_handle_].path = item.path
           /\ Object(Announced(s, parent, new)[next_handle_])
                  = Object(Announced(s, parent, item)[next_handle_])
           /\ next_handle_ \in Handles /\ next_handle_ \notin DOMAIN entries_
<1>1. item \in [path: Paths, dir: BOOLEAN, size: Nat]
  BY StorageAssumption
<1>2. next_handle_ \in Handles /\ next_handle_ \notin DOMAIN entries_
  <2>1. next_handle_ \in 1..MaxHandle
    BY BoundsAssumption DEF TypeOK, TakesHandle
  <2> QED
    BY <2>1 DEF Handles, HandlesInv
<1> QED
  BY <1>1, <1>2 DEF Announced, FreshHandle, Entry, Object

LEMMA SendEntries ==
    ASSUME TypeOK, HandlesInv, NEW s \in Storages, NEW parent \in Handles \cup {0},
           NEW item \in Sendable, TakesHandle(s, parent, item),
           NEW new \in [path: Paths, dir: BOOLEAN, size: Nat], new.path = item.path,
           entries_' = Kept \/ entries_' = With(Kept, Announced(s, parent, new))
    PROVE  EntriesType' /\ HandlesInv'
<1>1. /\ DOMAIN Announced(s, parent, new) = {next_handle_}
      /\ Announced(s, parent, new)[next_handle_] \in Entry
      /\ Announced(s, parent, new)[next_handle_].path = item.path
      /\ Object(Announced(s, parent, new)[next_handle_])
             = Object(Announced(s, parent, item)[next_handle_])
      /\ next_handle_ \in Handles /\ next_handle_ \notin DOMAIN entries_
  BY AnnouncedType
<1> DEFINE added == Announced(s, parent, new)
<1>2. Objects(Announced(s, parent, item)) = Objects(added)
  <2>1. DOMAIN Announced(s, parent, item) = {next_handle_}
    BY DEF Announced, FreshHandle
  <2> QED
    BY <1>1, <2>1 DEF Objects, Object
<1>3. issued' = With(issued, Objects(added))
  BY <1>2 DEF TakesHandle
<1>4. next_handle_ \in Nat /\ next_handle_' = next_handle_ + 1 /\ next_handle_ <= MaxHandle
  BY BoundsAssumption DEF TakesHandle, TypeOK
<1>5. /\ next_handle_' \in next_handle_..(MaxHandle + 1)
      /\ DOMAIN added \subseteq next_handle_..(next_handle_' - 1)
  BY <1>1, <1>4, BoundsAssumption
<1>6. EntriesType
  BY TypeOKEntries
<1>7. /\ DOMAIN Kept \subseteq DOMAIN entries_
      /\ \A h \in DOMAIN Kept : Kept[h] \in Entry /\ Object(Kept[h]) = Object(entries_[h])
  BY <1>6, KeptType
<1>8. \A h \in DOMAIN added : added[h] \in Entry
  BY <1>1
<1>9. entries_' = Kept \/ entries_' = With(Kept, added)
  OBVIOUS
<1> HIDE DEF added
<1> QED
  BY <1>3, <1>5, <1>6, <1>7, <1>8, <1>9, RequestKeepsHandles

-----------------------------------------------------------------------------
LEMMA HandlesPreserved == IndInv /\ [Next]_vars => EntriesType' /\ HandlesInv'
<1> SUFFICES ASSUME TypeOK, HandlesInv, PendingInv, [Next]_vars
             PROVE  EntriesType' /\ HandlesInv'
  BY DEF IndInv
<1>1. EntriesType
  BY TypeOKEntries
<1>2. CASE UNCHANGED vars
  BY <1>1, <1>2, RequestDropsHandles DEF vars, editVars, sinkVars, EntriesType
<1>3. CASE OpenSession
  <2>1. \A h \in DOMAIN SeedEntries : h \in Nat /\ h < Cardinality(Seeds) + 1 /\ h \in Handles
    BY SeedsType, BoundsAssumption DEF Handles
  <2>2. Cardinality(Seeds) + 1 \in 1..(MaxHandle + 1)
    BY SeedsType, BoundsAssumption
  <2>3. EntriesType'
    BY <1>3, <2>1, <2>2, SeedsType DEF OpenSession, EntriesType, Entry, Handles
  <2>4. HandlesInv'
    BY <1>3, <2>1 DEF OpenSession, HandlesInv, Objects, Object
  <2> QED
    BY <2>3, <2>4
<1>4. CASE OtherRequest \/ CloseSession \/ ObjectFails \/ EditStep
  <2> USE DEF EditStep, BeginEditObject, TruncateObject, SendPartialObject, Edit, EndEditObject
  <2>1. DOMAIN entries_' \subseteq DOMAIN Kept /\ \A h \in DOMAIN entries_' : entries_'[h] = Kept[h]
    BY <1>4 DEF OtherRequest, CloseSession, ObjectFails, Without
  <2>2. UNCHANGED <<next_handle_, issued>>
    BY <1>4 DEF OtherRequest, CloseSession, ObjectFails
  <2> QED
    BY <1>1, <2>1, <2>2, KeptType, RequestDropsHandles
<1>5. CASE GetObjectHandles
  <2>1. ASSUME NEW storages \in SUBSET Storages, Scan(RootsToScan(storages))
        PROVE  EntriesType' /\ HandlesInv'
    BY <2>1, TargetsType, ScanEntries
  <2>2. ASSUME NEW h \in Handles, Scan(DirectoryToScan(h))
        PROVE  EntriesType' /\ HandlesInv'
    BY <2>2, TargetsType, ScanEntries
  <2> QED
    BY <1>5, <2>1, <2>2 DEF GetObjectHandles, ListRoots, ListDirectory
<1>6. CASE SendObjectInfo
  <2>1. PICK s \in Storages, parent \in Handles \cup {0}, item \in Sendable :
            \/ CreateDirectory(s, parent, item)
            \/ AnnounceFile(s, parent, item)
            \/ AnnounceFails(s, parent, item)
    BY <1>6 DEF SendObjectInfo
  <2>2. TakesHandle(s, parent, item)
    BY <2>1 DEF CreateDirectory, AnnounceFile, AnnounceFails
  <2>3. item \in [path: Paths, dir: BOOLEAN, size: Nat]
    BY StorageAssumption
  <2>4. CASE entries_' = Kept \/ entries_' = With(Kept, Announced(s, parent, item))
    BY <2>2, <2>3, <2>4, SendEntries
  <2>5. CASE entries_' = With(Kept, Announced(s, parent, [item EXCEPT !.size = 0]))
    <3>1. /\ [item EXCEPT !.size = 0] \in [path: Paths, dir: BOOLEAN, size: Nat]
          /\ [item EXCEPT !.size = 0].path = item.path
      BY <2>3
    <3> QED
      BY <2>2, <2>5, <3>1, SendEntries
  <2> QED
    BY <2>1, <2>4, <2>5 DEF CreateDirectory, AnnounceFile, AnnounceFails
<1>7. CASE ObjectArrives
  <2>1. \A h \in DOMAIN entries_ : entries_[h] \in Entry
    BY <1>1 DEF EntriesType
  <2>2. /\ DOMAIN entries_' = DOMAIN entries_
        /\ \A h \in DOMAIN entries_ :
              entries_'[h] = entries_[h] \/ entries_'[h] = [entries_[h] EXCEPT !.scanned = TRUE]
    BY <1>7 DEF ObjectArrives, PackageArrives, FileArrives, FileIsInstalled
  <2>3. \A h \in DOMAIN entries_' :
            entries_'[h] \in Entry /\ Object(entries_'[h]) = Object(entries_[h])
    <3> SUFFICES ASSUME NEW h \in DOMAIN entries_
                 PROVE  entries_'[h] \in Entry /\ Object(entries_'[h]) = Object(entries_[h])
      BY <2>2
    <3>1. entries_[h] \in Entry
      BY <2>1
    <3>2. CASE entries_'[h] = entries_[h]
      BY <3>1, <3>2
    <3>3. CASE entries_'[h] = [entries_[h] EXCEPT !.scanned = TRUE]
      BY <3>1, <3>3 DEF Entry, Object
    <3> QED
      BY <2>2, <3>2, <3>3
  <2>4. UNCHANGED <<next_handle_, issued>>
    BY <1>7 DEF ObjectArrives
  <2> QED
    BY <1>1, <2>2, <2>3, <2>4, RequestDropsHandles
<1> QED
  BY <1>2, <1>3, <1>4, <1>5, <1>6, <1>7 DEF Next

(* Every request but the announcement of a file leaves nothing pending. *)
LEMMA PendingSteps ==
    ASSUME [Next]_vars
    PROVE  \/ mSendObjectHandle' = kInvalidObjectHandle
           \/ UNCHANGED vars
           \/ \E s \in Storages, parent \in Handles \cup {0}, item \in Sendable :
                 AnnounceFile(s, parent, item)
<1> USE DEF Drop
<1>1. CASE OpenSession \/ CloseSession \/ OtherRequest \/ ObjectArrives \/ ObjectFails
  BY <1>1 DEF OpenSession, CloseSession, OtherRequest, ObjectArrives, ObjectFails
<1>2. CASE GetObjectHandles
  BY <1>2 DEF GetObjectHandles, ListRoots, ListDirectory, Scan
<1>3. CASE SendObjectInfo
  BY <1>3 DEF SendObjectInfo, CreateDirectory, AnnounceFails
<1>4. CASE EditStep
  BY <1>4 DEF EditStep, BeginEditObject, TruncateObject, SendPartialObject, Edit, EndEditObject
<1> QED
  BY <1>1, <1>2, <1>3, <1>4 DEF Next

(* The directory something is sent into is one. *)
LEMMA ParentPathType ==
    ASSUME NEW s \in Storages, NEW parent \in Handles \cup {0}, NEW item \in Sendable,
           CanSend(s, parent, item)
    PROVE  ParentPath(s, parent) \in Paths
<1>1. item.path \in Paths
  BY StorageAssumption
<1>2. Up[item.path] \in Paths
  BY <1>1, DiskAssumption DEF CanSend
<1> QED
  BY <1>2 DEF CanSend

LEMMA PendingPreserved == IndInv /\ [Next]_vars => PendingInv'
<1> SUFFICES ASSUME TypeOK, HandlesInv, PendingInv, [Next]_vars PROVE PendingInv'
  BY DEF IndInv
<1>1. CASE mSendObjectHandle' = kInvalidObjectHandle
  BY <1>1 DEF PendingInv
<1>2. CASE UNCHANGED vars
  BY <1>2 DEF PendingInv, vars, editVars, sinkVars, ParentPath, Kept, Dropped, Without
<1>3. ASSUME NEW s \in Storages, NEW parent \in Handles \cup {0}, NEW item \in Sendable,
             AnnounceFile(s, parent, item)
      PROVE  PendingInv'
  <2>1. TakesHandle(s, parent, item) /\ CanSend(s, parent, item)
    BY <1>3 DEF AnnounceFile, TakesHandle
  <2>2. next_handle_ \in Handles /\ next_handle_ \notin DOMAIN entries_
    <3>1. item \in [path: Paths, dir: BOOLEAN, size: Nat]
      BY StorageAssumption
    <3> QED
      BY <2>1, <3>1, AnnouncedType
  <2>3. DOMAIN Kept \subseteq DOMAIN entries_
    BY TypeOKEntries, KeptType
  <2>4. /\ mSendObjectHandle' = next_handle_
        /\ entries_' = With(Kept, Announced(s, parent, item))
        /\ disk' = disk
    BY <1>3 DEF AnnounceFile, FreshHandle
  <2>5. /\ DOMAIN entries_' = DOMAIN Kept \cup {next_handle_}
        /\ \A h \in DOMAIN Kept : entries_'[h] = Kept[h]
        /\ entries_'[next_handle_].path = item.path
        /\ entries_'[next_handle_].storage = s
        /\ entries_'[next_handle_].parent = parent
    BY <2>2, <2>3, <2>4 DEF With, Announced, FreshHandle
  <2>6. disk'[item.path] = Missing
    BY <2>1, <2>4 DEF CanSend
  <2>7. ParentPath(s, parent) \in Paths
    BY <2>1, ParentPathType
  <2>8. ParentPath(s, parent)' = ParentPath(s, parent)
    <3>1. CASE parent = 0
      BY <3>1 DEF ParentPath
    <3>2. CASE parent # 0
      <4>1. parent \in DOMAIN Kept
        BY <3>2, <2>7, DiskAssumption DEF ParentPath
      <4>2. parent # next_handle_
        BY <4>1, <2>2, <2>3
      <4>3. parent \in DOMAIN Kept' /\ Kept'[parent] = Kept[parent]
        BY <4>1, <4>2, <2>4, <2>5 DEF Kept, Dropped, Without
      <4> QED
        BY <3>2, <4>1, <4>3 DEF ParentPath
    <3> QED
      BY <3>1, <3>2
  <2> QED
    BY <2>4, <2>5, <2>6, <2>7, <2>8 DEF PendingInv
<1> QED
  BY <1>1, <1>2, <1>3, PendingSteps

(* What a step does to the disk: a directory or a file appears where nothing *)
(* was, or a file that is open for editing changes.                          *)
LEMMA DiskSteps ==
    ASSUME IndInv, [Next]_vars
    PROVE  \/ UNCHANGED disk
           \/ \E p \in Paths, node \in Node :
                 disk[p] = Missing /\ disk' = [disk EXCEPT ![p] = node]
           \/ \E edit \in mObjectEditList, size \in Nat :
                 disk' = [disk EXCEPT ![edit.path] = File(size)]
<1>1. CASE OpenSession \/ CloseSession \/ OtherRequest \/ ObjectFails \/ GetObjectHandles
           \/ UNCHANGED vars
  BY <1>1 DEF OpenSession, CloseSession, OtherRequest, ObjectFails, GetObjectHandles,
              ListRoots, ListDirectory, Scan, vars, editVars, sinkVars
<1>2. CASE SendObjectInfo
  <2>1. PICK s \in Storages, parent \in Handles \cup {0}, item \in Sendable :
            \/ CreateDirectory(s, parent, item)
            \/ AnnounceFile(s, parent, item)
            \/ AnnounceFails(s, parent, item)
    BY <1>2 DEF SendObjectInfo
  <2>2. CASE CreateDirectory(s, parent, item)
    <3>1. item.path \in Paths /\ disk[item.path] = Missing
      BY <2>2, StorageAssumption DEF CreateDirectory, TakesHandle, CanSend
    <3>2. disk' = [disk EXCEPT ![item.path] = Directory] /\ Directory \in Node
      BY <2>2 DEF CreateDirectory, Node
    <3> QED
      BY <3>1, <3>2
  <2> QED
    BY <2>1, <2>2 DEF AnnounceFile, AnnounceFails
<1>3. CASE ObjectArrives
  <2> DEFINE entry == entries_[mSendObjectHandle]
  <2>1. mSendObjectHandle \in DOMAIN entries_ /\ disk[entry.path] = Missing
    BY <1>3 DEF ObjectArrives, IndInv, PendingInv
  <2>2. entry \in Entry
    BY <2>1 DEF IndInv, TypeOK
  <2>3. entry.path \in Paths /\ File(entry.size) \in Node
    BY <2>2 DEF Entry, File, Node
  <2>4. UNCHANGED disk \/ disk' = [disk EXCEPT ![entry.path] = File(entry.size)]
    BY <1>3 DEF ObjectArrives, PackageArrives, FileArrives, FileIsInstalled
  <2> QED
    BY <2>1, <2>3, <2>4
<1>4. CASE EditStep
  <2>1. \A size \in EditSizes : size \in Nat
    BY BoundsAssumption
  <2> QED
    BY <1>4, <2>1 DEF EditStep, BeginEditObject, TruncateObject, SendPartialObject, Edit,
                      EndEditObject
<1> QED
  BY <1>1, <1>2, <1>3, <1>4 DEF Next

(* A file stays one. *)
LEMMA FilesStay ==
    ASSUME IndInv, [Next]_vars, NEW p \in Paths, disk[p] \notin {Missing, Directory}
    PROVE  disk'[p] \notin {Missing, Directory}
<1>1. disk \in [Paths -> Node]
  BY DEF IndInv, TypeOK
<1>2. \A size \in Nat : File(size) \notin {Missing, Directory}
  BY DEF File, Missing, Directory
<1> QED
  BY <1>1, <1>2, DiskSteps

LEMMA OutsidePreserved == IndInv /\ [Next]_vars => OutsideInv'
<1> SUFFICES ASSUME IndInv, [Next]_vars PROVE OutsideInv'
  OBVIOUS
<1> USE DEF IndInv
<1>1. ASSUME NEW edit \in mObjectEditList'
      PROVE  edit.path \in Paths /\ disk[edit.path] \notin {Missing, Directory} /\ edit.path \notin Frozen
  <2>1. CASE edit \in mObjectEditList
    BY <2>1 DEF OutsideInv, TypeOK
  <2>2. CASE edit \notin mObjectEditList
    <3>1. PICK h \in Handles : BeginEditObject(h)
      <4>1. CASE UNCHANGED vars
        BY <2>2, <4>1 DEF vars, editVars
      <4>2. CASE OpenSession \/ CloseSession \/ OtherRequest \/ ObjectFails
        BY <2>2, <4>2 DEF OpenSession, CloseSession, OtherRequest, ObjectFails, editVars
      <4>3. CASE GetObjectHandles
        BY <2>2, <4>3 DEF GetObjectHandles, ListRoots, ListDirectory, Scan, editVars
      <4>4. CASE SendObjectInfo \/ ObjectArrives
        BY <2>2, <4>4 DEF SendObjectInfo, CreateDirectory, AnnounceFile, AnnounceFails,
                          ObjectArrives, editVars
      <4>5. CASE EditStep
        BY <2>2, <4>5 DEF EditStep, TruncateObject, SendPartialObject, Edit, EndEditObject
      <4> QED
        BY <4>1, <4>2, <4>3, <4>4, <4>5 DEF Next
    <3>2. h \in DOMAIN Kept /\ edit.path = Kept[h].path
      BY <2>2, <3>1 DEF BeginEditObject
    <3>3. Kept[h] \in Entry
      BY <3>2, TypeOKEntries, KeptType
    <3> QED
      BY <3>1, <3>2, <3>3 DEF BeginEditObject, Entry
  <2> QED
    BY <2>1, <2>2
<1>2. unfiled' \subseteq DOMAIN issued'
  <2> USE DEF OutsideInv
  <2>1. CASE UNCHANGED vars
    BY <2>1 DEF vars, sinkVars
  <2>2. CASE OpenSession \/ CloseSession \/ OtherRequest \/ ObjectFails
    BY <2>2 DEF OpenSession, CloseSession, OtherRequest, ObjectFails, sinkVars
  <2>3. CASE GetObjectHandles
    BY <2>3 DEF GetObjectHandles, ListRoots, ListDirectory, Scan, With, sinkVars
  <2>4. CASE SendObjectInfo
    BY <2>4 DEF SendObjectInfo, CreateDirectory, AnnounceFile, AnnounceFails, TakesHandle, With,
                sinkVars
  <2>5. CASE ObjectArrives
    <3>1. mSendObjectHandle \in DOMAIN issued
      BY <2>5 DEF ObjectArrives, PendingInv, HandlesInv
    <3>2. unfiled' \subseteq unfiled \cup {mSendObjectHandle} /\ issued' = issued
      BY <2>5 DEF ObjectArrives, PackageArrives, FileArrives, FileIsInstalled
    <3> QED
      BY <3>1, <3>2
  <2>6. CASE EditStep
    BY <2>6 DEF EditStep, BeginEditObject, TruncateObject, SendPartialObject, Edit, EndEditObject,
                sinkVars
  <2> QED
    BY <2>1, <2>2, <2>3, <2>4, <2>5, <2>6 DEF Next
<1> QED
  BY <1>1, <1>2, FilesStay DEF OutsideInv

LEMMA TypePreserved == IndInv /\ [Next]_vars => TypeOK'
<1> SUFFICES ASSUME IndInv, [Next]_vars PROVE TypeOK'
  OBVIOUS
<1>1. TypeOK /\ PendingInv
  BY DEF IndInv
<1>2. EntriesType'
  BY HandlesPreserved
<1>3. disk' \in [Paths -> Node]
  <2>1. \A size \in Nat : File(size) \in Node
    BY DEF File, Node
  <2> QED
    BY <1>1, <2>1, DiskSteps DEF TypeOK
<1>4. /\ pending_handles_' \subseteq Handles
      /\ scanned' \subseteq Storages
      /\ mSessionOpen' \in BOOLEAN
      /\ mSendObjectHandle' \in Handles \cup {kInvalidObjectHandle}
      /\ mSendObjectSink' \in BOOLEAN
      /\ mObjectEditList' \subseteq [handle: Handles, path: Paths]
      /\ early' \subseteq Storages \X Paths
      /\ edited' \subseteq Handles
      /\ unfiled' \subseteq Handles
  <2> USE <1>1 DEF TypeOK, Drop, StillPending, editVars, sinkVars
  <2>1. CASE OpenSession \/ CloseSession \/ OtherRequest \/ ObjectFails \/ UNCHANGED vars
    BY <2>1 DEF OpenSession, CloseSession, OtherRequest, ObjectFails, vars
  <2>2. CASE GetObjectHandles
    <3>1. PICK targets : /\ Scan(targets)
                         /\ \A t \in targets : t.storage \in Storages
      <4>1. CASE \E storages \in SUBSET Storages : Scan(RootsToScan(storages))
        BY <4>1 DEF RootsToScan
      <4>2. CASE \E h \in Handles : Scan(DirectoryToScan(h))
        BY <4>2, TargetsType
      <4> QED
        BY <2>2, <4>1, <4>2 DEF GetObjectHandles, ListRoots, ListDirectory
    <3>2. scanned' \subseteq Storages
      BY <3>1 DEF Scan
    <3> QED
      BY <3>1, <3>2 DEF Scan
  <2>3. CASE SendObjectInfo
    <3>1. PICK s \in Storages, parent \in Handles \cup {0}, item \in Sendable :
              \/ CreateDirectory(s, parent, item)
              \/ AnnounceFile(s, parent, item)
              \/ AnnounceFails(s, parent, item)
      BY <2>3 DEF SendObjectInfo
    <3>2. TakesHandle(s, parent, item) /\ CanSend(s, parent, item)
      BY <3>1 DEF CreateDirectory, AnnounceFile, AnnounceFails, TakesHandle
    <3>3. FreshHandle \in Handles
      BY <3>2, BoundsAssumption DEF TakesHandle, FreshHandle, Handles
    <3>4. Early(s, parent) \subseteq Storages \X Paths
      BY <3>2, ParentPathType DEF Early
    <3> QED
      BY <3>1, <3>3, <3>4 DEF CreateDirectory, AnnounceFile, AnnounceFails
  <2>4. CASE ObjectArrives
    <3> DEFINE entry == entries_[mSendObjectHandle]
    <3>1. mSendObjectHandle \in DOMAIN entries_ /\ ParentPath(entry.storage, entry.parent) \in Paths
      BY <2>4 DEF ObjectArrives, PendingInv
    <3>2. entry.storage \in Storages
      BY <3>1 DEF Entry
    <3>3. Early(entry.storage, entry.parent) \subseteq Storages \X Paths
      BY <3>1, <3>2 DEF Early
    <3>4. early' \subseteq Storages \X Paths /\ unfiled' \subseteq Handles
      BY <2>4, <3>3 DEF ObjectArrives, PackageArrives, FileArrives, FileIsInstalled,
                        kInvalidObjectHandle
    <3> QED
      BY <2>4, <3>4 DEF ObjectArrives
  <2>5. CASE EditStep
    <3>1. /\ DOMAIN Kept \subseteq Handles
          /\ \A h \in DOMAIN Kept : Kept[h].path \in Paths
      BY TypeOKEntries, KeptType DEF Entry
    <3>2. CASE \E h \in Handles : BeginEditObject(h)
      BY <3>1, <3>2 DEF BeginEditObject
    <3>3. CASE \E edit \in mObjectEditList : \E size \in EditSizes : Edit(edit, size)
      BY <3>1, <3>3 DEF Edit
    <3>4. CASE \E edit \in mObjectEditList : EndEditObject(edit)
      BY <3>4 DEF EndEditObject
    <3> QED
      BY <2>5, <3>2, <3>3, <3>4 DEF EditStep, TruncateObject, SendPartialObject
  <2> QED
    BY <2>1, <2>2, <2>3, <2>4, <2>5 DEF Next
<1> QED
  BY <1>2, <1>3, <1>4 DEF TypeOK, EntriesType

(* The inductive invariant: types, handles, the object under way, and what   *)
(* the server does without the database.                                     *)
THEOREM Inductive == Spec => []IndInv
<1>1. IndInv /\ [Next]_vars => IndInv'
  BY TypePreserved, HandlesPreserved, PendingPreserved, OutsidePreserved DEF IndInv
<1> QED
  BY InitInd, <1>1, PTL DEF Spec

(* Every variable keeps its type. *)
THEOREM TypeCorrect == Spec => []TypeOK
<1>1. IndInv => TypeOK
  BY DEF IndInv
<1> QED
  BY Inductive, <1>1, PTL

(* No handle of a session is reused: beginSendObject, failed or not, and     *)
(* scan() take handles from one counter that only a new session resets.      *)
THEOREM HandlesAreNotReused == Spec => []HandleMeansOneObject
<1>1. IndInv => HandleMeansOneObject
  BY DEF IndInv, HandlesInv, HandleMeansOneObject, Objects, Object
<1> QED
  BY Inductive, <1>1, PTL

-----------------------------------------------------------------------------
(* The objects, their places and their listings. *)

(* A path lies in the directory it is in and in those that one lies in.      *)
LEMMA AncestorsGrow ==
    ASSUME NEW p \in Paths, Up[p] # NoPath
    PROVE  /\ Up[p] \in Paths /\ Up[p] \in Ancestors[p]
           /\ \A q \in Ancestors[Up[p]] : q \in Ancestors[p]
<1>1. Up[p] \in Paths
  BY DiskAssumption
<1>2. Up[p] \in Ancestors[p]
  BY <1>1 DEF Ancestors
<1>3. ASSUME NEW q \in Ancestors[Up[p]] PROVE q \in Ancestors[p]
  <2>1. q \in Paths
    BY <1>1 DEF Ancestors
  <2>2. ASSUME NEW S \in SUBSET Paths, Up[p] \in S \cup {NoPath},
               \A x \in S : Up[x] \in S \cup {NoPath}
        PROVE  q \in S
    <3>1. Up[Up[p]] \in S \cup {NoPath}
      BY <2>2
    <3> QED
      BY <1>1, <2>2, <3>1 DEF Ancestors
  <2> QED
    BY <2>1, <2>2 DEF Ancestors
<1> QED
  BY <1>1, <1>2, <1>3

LEMMA NoLoop == ASSUME NEW p \in Paths PROVE p \notin Ancestors[p]
BY DiskAssumption

(* The elements of a finite set get a handle each, and one only. *)
LEMMA NumberingOnto ==
    ASSUME NEW S, IsFiniteSet(S), NEW n \in Nat
    PROVE  /\ \A x \in S : \E h \in DOMAIN Numbering(S, n) : Numbering(S, n)[h] = x
           /\ \A g, h \in DOMAIN Numbering(S, n) :
                 Numbering(S, n)[g] = Numbering(S, n)[h] => g = h
<1> DEFINE m == Cardinality(S)
           f == CHOOSE g \in [1..m -> S] : \A x \in S : \E i \in 1..m : g[i] = x
<1>1. m \in Nat /\ ExistsBijection(1..m, S)
  BY FS_CardinalityType
<1>2. \E g \in [1..m -> S] : \A x \in S : \E i \in 1..m : g[i] = x
  BY <1>1 DEF ExistsBijection, Bijection, Injection, Surjection
<1>3. f \in [1..m -> S] /\ \A x \in S : \E i \in 1..m : f[i] = x
  BY <1>2
<1>4. Numbering(S, n) = [h \in n..(n + m - 1) |-> f[h - n + 1]]
  BY DEF Numbering
<1> HIDE DEF f
<1>5. f \in Surjection(1..m, S)
  BY <1>3 DEF Surjection
<1>6. f \in Injection(1..m, S)
  <2>1. IsFiniteSet(1..m) /\ Cardinality(1..m) = m
    <3>1. 1 \in Int /\ m \in Int
      BY <1>1
    <3> HIDE DEF m
    <3>2. IsFiniteSet(1..m) /\ Cardinality(1..m) = IF 1 > m THEN 0 ELSE m - 1 + 1
      BY <3>1, FS_Interval
    <3> QED
      BY <1>1, <3>2
  <2>2. m = Cardinality(S)
    OBVIOUS
  <2> HIDE DEF m
  <2> QED
    BY <1>5, <2>1, <2>2, FS_Surjection
<1> HIDE DEF m
<1>7. ASSUME NEW x \in S PROVE \E h \in n..(n + m - 1) : f[h - n + 1] = x
  <2>1. PICK i \in 1..m : f[i] = x
    BY <1>3
  <2>2. n + i - 1 \in n..(n + m - 1) /\ (n + i - 1) - n + 1 = i
    BY <1>1
  <2> QED
    BY <2>1, <2>2
<1>8. ASSUME NEW g \in n..(n + m - 1), NEW h \in n..(n + m - 1), f[g - n + 1] = f[h - n + 1]
      PROVE  g = h
  <2>1. g - n + 1 \in 1..m /\ h - n + 1 \in 1..m
    BY <1>1
  <2>2. g - n + 1 = h - n + 1
    BY <1>6, <1>8, <2>1 DEF Injection, IsInjective
  <2> QED
    BY <1>1, <2>2
<1> QED
  BY <1>4, <1>7, <1>8

-----------------------------------------------------------------------------
(* What is announced is the only pending object, a file of a writable        *)
(* storage, and the only one with its path.                                  *)
UnderWay ==
    /\ pending_handles_ = {mSendObjectHandle} \ {kInvalidObjectHandle}
    /\ mSendObjectHandle # kInvalidObjectHandle =>
          /\ mSendObjectHandle \notin unfiled
          /\ ~entries_[mSendObjectHandle].dir
          /\ Storage[entries_[mSendObjectHandle].storage].writable
          /\ \A h \in DOMAIN entries_ :
                entries_[h].path = entries_[mSendObjectHandle].path => h = mSendObjectHandle

(* The mounted saves stay where they are, and their storage is never read.   *)
SeedsInv ==
    /\ \A seed \in Seeds : disk[seed.path] = Directory
    /\ \A s \in Storages : Storage[s].virtual_root => s \in scanned

(* An object lies in its parent and below the root of its storage. *)
InPlace(h) ==
    LET entry == entries_[h]
        storage == Storage[entry.storage]
    IN  /\ entry.parent = 0 =>
              Up[entry.path] = IF storage.virtual_root THEN NoPath ELSE storage.path
        /\ entry.parent # 0 =>
              /\ entry.parent \in DOMAIN entries_
              /\ entries_[entry.parent].dir
              /\ entries_[entry.parent].storage = entry.storage
              /\ Up[entry.path] = entries_[entry.parent].path
        /\ entry.dir => ~storage.action
        /\ ~storage.virtual_root => storage.path \in Ancestors[entry.path]
PlaceInv == \A h \in DOMAIN entries_ : InPlace(h)

(* An object is what the disk holds, but for the size if it was edited; what *)
(* went into a sink is no file.                                              *)
Installed(h) == Storage[entries_[h].storage].action \/ h \in unfiled
Agrees(h) ==
    LET entry == entries_[h]
        node == disk[entry.path]
    IN  /\ Installed(h) => node = Missing
        /\ ~Installed(h) =>
              IF entry.dir THEN node = Directory
              ELSE /\ node \notin {Missing, Directory}
                   /\ h \notin edited => node = File(entry.size)
AgreeInv == \A h \in DOMAIN entries_ \ pending_handles_ : Agrees(h)

(* An object in a directory that was not read was sent there before.         *)
WasRead(s, parent) == IF parent = 0 THEN s \in scanned ELSE entries_[parent].scanned
SentInv ==
    \A h \in DOMAIN entries_ \ pending_handles_ :
        LET entry == entries_[h]
        IN  \/ WasRead(entry.storage, entry.parent)
            \/ Installed(h)
            \/ <<entry.storage, Up[entry.path]>> \in early

(* An object has one handle, unless something was sent too early. *)
UniqueInv ==
    \A g, h \in DOMAIN entries_ :
        /\ g # h
        /\ entries_[g].storage = entries_[h].storage /\ entries_[g].path = entries_[h].path
        => EarlyAbove(entries_[g].storage, entries_[g].path)

ViewInv == SeedsInv /\ UnderWay /\ PlaceInv /\ AgreeInv /\ SentInv /\ UniqueInv /\ ListingIsComplete

(* What a request does not drop is what was not pending. *)
LEMMA KeptIs ==
    ASSUME UnderWay, PendingInv
    PROVE  /\ DOMAIN Kept = DOMAIN entries_ \ pending_handles_
           /\ \A h \in DOMAIN Kept : Kept[h] = entries_[h]
           /\ StillPending = {}
           /\ \A h \in DOMAIN entries_ \ DOMAIN Kept :
                 ~entries_[h].dir /\ disk[entries_[h].path] = Missing
BY DEF UnderWay, PendingInv, Kept, Dropped, Without, StillPending

LEMMA EarlyUp ==
    ASSUME NEW s, NEW p \in Paths, Up[p] # NoPath,
           <<s, Up[p]>> \in early \/ EarlyAbove(s, Up[p])
    PROVE  EarlyAbove(s, p)
BY AncestorsGrow DEF EarlyAbove
(* Requests that take away what was pending, or an installed package, and    *)
(* change no more than the size of a file, whose handles are then edited.    *)
EditedOnly ==
    \A p \in Paths :
        \/ disk'[p] = disk[p]
        \/ /\ disk[p] \notin {Missing, Directory} /\ disk'[p] \notin {Missing, Directory}
           /\ \A h \in DOMAIN Kept : Kept[h].path = p => h \in edited'

Drops ==
    /\ UNCHANGED <<scanned, early, unfiled>> /\ Drop
    /\ edited \subseteq edited' /\ EditedOnly
    /\ DOMAIN entries_' \subseteq DOMAIN Kept
    /\ \A h \in DOMAIN entries_' : entries_'[h] = Kept[h]
    /\ \A h \in DOMAIN Kept \ DOMAIN entries_' : Storage[Kept[h].storage].action

LEMMA DropSteps ==
    ASSUME IndInv,
           \/ OtherRequest \/ CloseSession \/ ObjectFails \/ EditStep
           \/ \E s \in Storages, parent \in Handles \cup {0}, item \in Sendable :
                 AnnounceFails(s, parent, item)
    PROVE  Drops
<1> USE DEF editVars, sinkVars
<1>1. CASE OtherRequest \/ ObjectFails
           \/ \E s \in Storages, parent \in Handles \cup {0}, item \in Sendable :
                 AnnounceFails(s, parent, item)
  BY <1>1 DEF OtherRequest, ObjectFails, AnnounceFails, Drops, EditedOnly
<1>2. CASE CloseSession
  BY <1>2 DEF CloseSession, Drops, EditedOnly, Without, EndsWithSession
<1>3. CASE \E h \in Handles : BeginEditObject(h)
  BY <1>3 DEF BeginEditObject, Drops, EditedOnly
<1>4. CASE \E edit \in mObjectEditList : EndEditObject(edit)
  BY <1>4 DEF EndEditObject, Drops, EditedOnly
<1>5. ASSUME NEW edit \in mObjectEditList, NEW size \in EditSizes, Edit(edit, size)
      PROVE  Drops
  <2>1. /\ disk' = [disk EXCEPT ![edit.path] = File(size)]
        /\ edited' = edited \cup {h \in DOMAIN Kept : Kept[h].path = edit.path}
        /\ UNCHANGED <<scanned, early, unfiled>> /\ Drop /\ entries_' = Kept
    BY <1>5 DEF Edit
  <2>2. disk[edit.path] \notin {Missing, Directory}
    BY DEF IndInv, OutsideInv
  <2>3. File(size) \notin {Missing, Directory}
    BY DEF File, Missing, Directory
  <2>4. EditedOnly
    <3>1. disk \in [Paths -> Node]
      BY DEF IndInv, TypeOK
    <3> QED
      BY <2>1, <2>2, <2>3, <3>1 DEF EditedOnly
  <2> QED
    BY <2>1, <2>4 DEF Drops
<1> QED
  BY <1>1, <1>2, <1>3, <1>4, <1>5 DEF EditStep, TruncateObject, SendPartialObject

LEMMA DropsKeepView == ASSUME TypeOK, PendingInv, ViewInv, Drops PROVE ViewInv'
<1>1. /\ DOMAIN Kept = DOMAIN entries_ \ pending_handles_
      /\ \A h \in DOMAIN Kept : Kept[h] = entries_[h]
      /\ StillPending = {}
      /\ \A h \in DOMAIN entries_ \ DOMAIN Kept :
            ~entries_[h].dir /\ disk[entries_[h].path] = Missing
  BY KeptIs DEF ViewInv
<1>2. /\ DOMAIN entries_' \subseteq DOMAIN entries_ \ pending_handles_
      /\ \A h \in DOMAIN entries_' : entries_'[h] = entries_[h]
      /\ \A h \in DOMAIN entries_ \ DOMAIN entries_' :
            \/ ~entries_[h].dir /\ disk[entries_[h].path] = Missing
            \/ h \notin pending_handles_ /\ Storage[entries_[h].storage].action
  BY <1>1 DEF Drops
<1>3. /\ UNCHANGED <<scanned, early, unfiled>> /\ edited \subseteq edited'
      /\ pending_handles_' = {} /\ mSendObjectHandle' = 0
  BY <1>1 DEF Drops, Drop, kInvalidObjectHandle
<1>12. ASSUME NEW p \in Paths
       PROVE  /\ disk'[p] = Missing <=> disk[p] = Missing
              /\ disk'[p] = Directory <=> disk[p] = Directory
              /\ disk'[p] = disk[p] \/ \A h \in DOMAIN entries_' : entries_'[h].path = p => h \in edited'
  BY <1>1, <1>2 DEF Drops, EditedOnly
<1>4. SeedsInv' /\ UnderWay'
  BY <1>3, <1>12, StorageAssumption DEF ViewInv, SeedsInv, UnderWay, kInvalidObjectHandle
<1>5. PlaceInv'
  <2> SUFFICES ASSUME NEW h \in DOMAIN entries_' PROVE InPlace(h)'
    BY DEF PlaceInv
  <2>1. h \in DOMAIN entries_ /\ entries_'[h] = entries_[h] /\ InPlace(h)
    BY <1>2 DEF ViewInv, PlaceInv
  <2>2. ASSUME entries_[h].parent # 0
        PROVE  /\ entries_[h].parent \in DOMAIN entries_'
               /\ entries_'[entries_[h].parent] = entries_[entries_[h].parent]
    <3> DEFINE x == entries_[h].parent
    <3>1. x \in DOMAIN entries_ /\ entries_[x].dir
      BY <2>1, <2>2 DEF InPlace
    <3>2. InPlace(x)
      BY <3>1 DEF ViewInv, PlaceInv
    <3>3. ~Storage[entries_[x].storage].action
      BY <3>1, <3>2 DEF InPlace
    <3> QED
      BY <1>2, <3>1, <3>3
  <2> QED
    BY <2>1, <2>2 DEF InPlace
<1>6. AgreeInv'
  <2> SUFFICES ASSUME NEW h \in DOMAIN entries_' PROVE Agrees(h)'
    BY DEF AgreeInv
  <2>1. h \in DOMAIN entries_ \ pending_handles_ /\ entries_'[h] = entries_[h]
    BY <1>2
  <2>2. Agrees(h) /\ entries_[h].path \in Paths
    BY <2>1 DEF ViewInv, AgreeInv, TypeOK, Entry
  <2>3. Installed(h)' <=> Installed(h)
    BY <1>3, <2>1 DEF Installed
  <2>4. /\ disk'[entries_[h].path] = Missing <=> disk[entries_[h].path] = Missing
        /\ disk'[entries_[h].path] = Directory <=> disk[entries_[h].path] = Directory
        /\ disk'[entries_[h].path] = disk[entries_[h].path] \/ h \in edited'
    BY <1>12, <2>1, <2>2
  <2> QED
    BY <1>3, <2>1, <2>2, <2>3, <2>4 DEF Agrees
<1>7. SentInv'
  <2> SUFFICES ASSUME NEW h \in DOMAIN entries_'
               PROVE  \/ WasRead(entries_[h].storage, entries_[h].parent)'
                      \/ Installed(h)'
                      \/ <<entries_'[h].storage, Up[entries_'[h].path]>> \in early'
    BY DEF SentInv
  <2>1. h \in DOMAIN entries_ \ pending_handles_ /\ entries_'[h] = entries_[h]
    BY <1>2
  <2>4. Installed(h)' <=> Installed(h)
    BY <1>3, <2>1 DEF Installed
  <2>2. \/ WasRead(entries_[h].storage, entries_[h].parent)
        \/ Installed(h)
        \/ <<entries_[h].storage, Up[entries_[h].path]>> \in early
    BY <2>1 DEF ViewInv, SentInv
  <2>3. entries_[h].parent # 0 => entries_'[entries_'[h].parent] = entries_[entries_[h].parent]
    BY <1>2, <1>5, <2>1 DEF PlaceInv, InPlace
  <2> QED
    BY <1>3, <2>1, <2>2, <2>3, <2>4 DEF WasRead
<1>8. UniqueInv'
  BY <1>2, <1>3 DEF ViewInv, UniqueInv, EarlyAbove
<1>9. ListingIsComplete'
  <2> SUFFICES ASSUME NEW d \in ReadDirectories', NEW p \in Children(d.path)',
                      ~EarlyAbove(d.storage, d.path)'
               PROVE  \E h \in DOMAIN entries_' :
                         /\ entries_'[h].path = p
                         /\ \/ entries_'[h].storage = d.storage /\ entries_'[h].parent = d.parent
                            \/ /\ entries_'[h].storage # d.storage
                               /\ Storage[entries_'[h].storage].writable
    BY DEF ListingIsComplete
  <2>1. d \in ReadDirectories
    BY <1>2, <1>3 DEF ReadDirectories
  <2>2. p \in Children(d.path) /\ p \in Paths /\ disk[p] # Missing
    BY <1>12 DEF Children
  <2>3. ~EarlyAbove(d.storage, d.path)
    BY <1>3 DEF EarlyAbove
  <2>4. PICK h \in DOMAIN entries_ :
            /\ entries_[h].path = p
            /\ \/ entries_[h].storage = d.storage /\ entries_[h].parent = d.parent
               \/ /\ entries_[h].storage # d.storage
                  /\ Storage[entries_[h].storage].writable
    BY <2>1, <2>2, <2>3 DEF ViewInv, ListingIsComplete
  <2>5. ASSUME h \notin pending_handles_ PROVE ~Storage[entries_[h].storage].action
    BY <2>2, <2>4, <2>5 DEF ViewInv, AgreeInv, Agrees, Installed
  <2>6. h \in DOMAIN entries_'
    BY <1>2, <2>2, <2>4, <2>5
  <2> QED
    BY <1>2, <2>4, <2>6
<1> QED
  BY <1>4, <1>5, <1>6, <1>7, <1>8, <1>9 DEF ViewInv
-----------------------------------------------------------------------------
(* Listing. *)

(* What a listing may have to read, and what it enters for a path it finds.  *)
MayRead(t) ==
    \/ /\ t.parent = 0 /\ t.storage \in Storages \ scanned
       /\ t = [storage |-> t.storage, parent |-> 0, path |-> Storage[t.storage].path]
    \/ /\ t.parent \in DOMAIN Kept /\ Kept[t.parent].dir /\ ~Kept[t.parent].scanned
       /\ t = [storage |-> Kept[t.parent].storage, parent |-> t.parent,
               path |-> Kept[t.parent].path]

FoundAt(t, p) ==
    [storage |-> t.storage, parent |-> t.parent, path |-> p, dir |-> disk[p] = Directory,
     size |-> disk[p].size, scanned |-> FALSE]

LEMMA FoundAtIs == ASSUME NEW t, NEW p PROVE FoundAt(t, p).dir <=> disk[p] = Directory
BY DEF FoundAt

Marked(old, new) ==
    /\ new.storage = old.storage /\ new.parent = old.parent /\ new.path = old.path
    /\ new.dir = old.dir /\ new.size = old.size /\ (old.scanned => new.scanned)

(* The directories that were read are marked, and all in them is entered.    *)
Reads(opened) ==
    /\ \A t \in opened : MayRead(t)
    /\ \A t, u \in opened : t.storage = u.storage => t = u
    /\ \A h \in DOMAIN Kept :
          /\ h \in DOMAIN entries_' /\ Marked(Kept[h], entries_'[h])
          /\ entries_'[h].scanned => Kept[h].scanned \/ \E t \in opened : t.parent = h
    /\ \A h \in DOMAIN entries_' \ DOMAIN Kept :
          \E t \in opened : \E p \in Children(t.path) :
              ~IsActionRoot(t) /\ entries_'[h] = FoundAt(t, p)
    /\ \A g, h \in DOMAIN entries_' \ DOMAIN Kept : entries_'[g] = entries_'[h] => g = h
    /\ \A t \in opened : \A p \in Children(t.path) :
          ~IsActionRoot(t) => \E h \in DOMAIN entries_' : entries_'[h] = FoundAt(t, p)
    /\ \A t \in opened :
          IF t.parent = 0 THEN t.storage \in scanned' ELSE entries_'[t.parent].scanned
    /\ scanned \subseteq scanned'
    /\ \A s \in scanned' : s \in scanned \/ \E t \in opened : t.storage = s /\ t.parent = 0
    /\ UNCHANGED <<disk, early, edited, unfiled>> /\ Drop
    /\ \A h \in DOMAIN entries_' \ DOMAIN Kept : h \notin unfiled

LEMMA ScanReads ==
    ASSUME TypeOK, HandlesInv, OutsideInv, NEW targets, Scan(targets),
           \A t \in targets : MayRead(t),
           \A t, u \in targets : t.storage = u.storage => t = u
    PROVE  \E opened \in SUBSET targets : Reads(opened)
<1>1. PICK opened \in SUBSET targets :
          LET found == UNION {Found(t) : t \in opened}
              added == Numbering(found, next_handle_)
              read == {t.parent : t \in opened}
              marked == [h \in DOMAIN Kept |-> [Kept[h] EXCEPT !.scanned = @ \/ h \in read]]
          IN  /\ entries_' = With(marked, added)
              /\ scanned' = scanned \cup {t.storage : t \in {u \in opened : u.parent = 0}}
  BY DEF Scan
<1> DEFINE found == UNION {Found(t) : t \in opened}
           added == Numbering(found, next_handle_)
           read == {t.parent : t \in opened}
           marked == [h \in DOMAIN Kept |-> [Kept[h] EXCEPT !.scanned = @ \/ h \in read]]
<1>2. EntriesType /\ next_handle_ \in Nat
  BY TypeOKEntries DEF EntriesType
<1>3. \A h \in DOMAIN Kept : h \in DOMAIN entries_ /\ Kept[h] = entries_[h] /\ Kept[h] \in Entry
  BY <1>2, KeptType
<1>4. \A t \in opened : t.storage \in Storages /\ t.parent \in Handles \cup {0}
  <2> SUFFICES ASSUME NEW t \in opened
               PROVE  t.storage \in Storages /\ t.parent \in Handles \cup {0}
    OBVIOUS
  <2>1. MayRead(t)
    OBVIOUS
  <2>2. CASE t.parent = 0 /\ t.storage \in Storages
    BY <2>2
  <2>3. CASE t.parent \in DOMAIN Kept /\ t.storage = Kept[t.parent].storage
    BY <1>2, <1>3, <2>3 DEF Entry, EntriesType
  <2> QED
    BY <2>1, <2>2, <2>3 DEF MayRead
<1>5. found \subseteq Entry /\ IsFiniteSet(found)
  BY <1>4, FoundType
<1>6. \A e \in found : \E t \in opened : \E p \in Children(t.path) :
          ~IsActionRoot(t) /\ e = FoundAt(t, p)
  BY DEF Found, FoundAt
<1>7. \A t \in opened : \A p \in Children(t.path) : ~IsActionRoot(t) => FoundAt(t, p) \in found
  BY DEF Found, FoundAt
<1>8. entries_' = With(marked, added)
  BY <1>1
<1> HIDE DEF found
<1>9. /\ DOMAIN added = next_handle_..(next_handle_ + Cardinality(found) - 1)
      /\ \A h \in DOMAIN added : added[h] \in found
      /\ \A e \in found : \E h \in DOMAIN added : added[h] = e
      /\ \A g, h \in DOMAIN added : added[g] = added[h] => g = h
  BY <1>2, <1>5, NumberingType, NumberingOnto
<1>10. DOMAIN added \cap DOMAIN Kept = {}
  <2> SUFFICES ASSUME NEW h \in DOMAIN Kept, h \in DOMAIN added PROVE FALSE
    OBVIOUS
  <2>1. h \in Nat /\ h < next_handle_
    BY <1>3 DEF HandlesInv
  <2>2. Cardinality(found) \in Nat
    BY <1>5, FS_CardinalityType
  <2> QED
    BY <1>2, <1>9, <2>1, <2>2
<1>11. ASSUME NEW h \in DOMAIN Kept
       PROVE  /\ Marked(Kept[h], marked[h])
              /\ marked[h].scanned => Kept[h].scanned \/ \E t \in opened : t.parent = h
              /\ h \in read => marked[h].scanned
  <2>1. Kept[h] \in Entry
    BY <1>3
  <2>2. marked[h] = [Kept[h] EXCEPT !.scanned = @ \/ h \in read]
    OBVIOUS
  <2>3. h \in read => \E t \in opened : t.parent = h
    OBVIOUS
  <2> HIDE DEF marked, read
  <2> QED
    BY <2>1, <2>2, <2>3 DEF Entry, Marked
<1>12. /\ DOMAIN entries_' = DOMAIN Kept \cup DOMAIN added
       /\ \A h \in DOMAIN Kept : entries_'[h] = marked[h]
       /\ \A h \in DOMAIN added : entries_'[h] = added[h]
  <2>1. DOMAIN marked = DOMAIN Kept
    OBVIOUS
  <2> HIDE DEF marked, added
  <2> QED
    BY <1>8, <1>10, <2>1 DEF With
<1>13. \A t \in opened : t.parent \in read
  OBVIOUS
<1> HIDE DEF marked, added, read
<1>14. /\ \A h \in DOMAIN Kept :
             /\ h \in DOMAIN entries_' /\ Marked(Kept[h], entries_'[h])
             /\ entries_'[h].scanned => Kept[h].scanned \/ \E t \in opened : t.parent = h
       /\ \A h \in DOMAIN entries_' \ DOMAIN Kept :
             \E t \in opened : \E p \in Children(t.path) :
                 ~IsActionRoot(t) /\ entries_'[h] = FoundAt(t, p)
       /\ \A g, h \in DOMAIN entries_' \ DOMAIN Kept : entries_'[g] = entries_'[h] => g = h
       /\ \A t \in opened : \A p \in Children(t.path) :
             ~IsActionRoot(t) => \E h \in DOMAIN entries_' : entries_'[h] = FoundAt(t, p)
  <2>1. ASSUME NEW h \in DOMAIN Kept
        PROVE  /\ h \in DOMAIN entries_' /\ Marked(Kept[h], entries_'[h])
               /\ entries_'[h].scanned => Kept[h].scanned \/ \E t \in opened : t.parent = h
    BY <1>11, <1>12
  <2>2. ASSUME NEW h \in DOMAIN entries_' \ DOMAIN Kept
        PROVE  h \in DOMAIN added /\ entries_'[h] = added[h] /\ entries_'[h] \in found
    BY <1>9, <1>12
  <2>3. ASSUME NEW t \in opened, NEW p \in Children(t.path), ~IsActionRoot(t)
        PROVE  \E h \in DOMAIN entries_' : entries_'[h] = FoundAt(t, p)
    BY <1>7, <1>9, <1>12, <2>3
  <2>4. ASSUME NEW g \in DOMAIN entries_' \ DOMAIN Kept, NEW h \in DOMAIN entries_' \ DOMAIN Kept,
               entries_'[g] = entries_'[h]
        PROVE  g = h
    BY <1>9, <2>2, <2>4
  <2>5. ASSUME NEW h \in DOMAIN entries_' \ DOMAIN Kept
        PROVE  \E t \in opened : \E p \in Children(t.path) :
                   ~IsActionRoot(t) /\ entries_'[h] = FoundAt(t, p)
    BY <1>6, <2>2
  <2> QED
    BY <2>1, <2>3, <2>4, <2>5
<1>15. ASSUME NEW t \in opened
       PROVE  IF t.parent = 0 THEN t.storage \in scanned' ELSE entries_'[t.parent].scanned
  <2>1. CASE t.parent = 0
    BY <1>1, <2>1
  <2>2. CASE t.parent # 0
    <3>1. t.parent \in DOMAIN Kept
      BY <2>2 DEF MayRead
    <3> QED
      BY <1>11, <1>12, <1>13, <2>2, <3>1
  <2> QED
    BY <2>1, <2>2
<1>16. /\ scanned \subseteq scanned'
       /\ \A s \in scanned' : s \in scanned \/ \E t \in opened : t.storage = s /\ t.parent = 0
  BY <1>1
<1>17. UNCHANGED <<disk, early, edited, unfiled>> /\ Drop
  BY DEF Scan, editVars, sinkVars
<1>19. ASSUME NEW h \in DOMAIN entries_' \ DOMAIN Kept PROVE h \notin unfiled
  <2>1. h \in DOMAIN added
    BY <1>12
  <2>2. Cardinality(found) \in Nat
    BY <1>5, FS_CardinalityType
  <2>3. h \in next_handle_..(next_handle_ + Cardinality(found) - 1)
    BY <1>9, <2>1
  <2>4. ~(h < next_handle_)
    BY <1>2, <2>2, <2>3
  <2> QED
    BY <2>4 DEF HandlesInv, OutsideInv
<1>18. /\ \A t \in opened : MayRead(t)
       /\ \A t, u \in opened : t.storage = u.storage => t = u
  OBVIOUS
<1> QED
  BY <1>14, <1>15, <1>16, <1>17, <1>18, <1>19 DEF Reads

LEMMA ListingReads ==
    ASSUME TypeOK, HandlesInv, OutsideInv, GetObjectHandles PROVE \E opened : Reads(opened)
<1>1. ASSUME NEW storages \in SUBSET Storages, Scan(RootsToScan(storages))
      PROVE  \E opened : Reads(opened)
  <2>1. /\ \A t \in RootsToScan(storages) : MayRead(t)
        /\ \A t, u \in RootsToScan(storages) : t.storage = u.storage => t = u
    BY DEF RootsToScan, MayRead
  <2> QED
    BY <1>1, <2>1, ScanReads
<1>2. ASSUME NEW h \in Handles, Scan(DirectoryToScan(h))
      PROVE  \E opened : Reads(opened)
  <2>1. /\ \A t \in DirectoryToScan(h) : MayRead(t)
        /\ \A t, u \in DirectoryToScan(h) : t.storage = u.storage => t = u
    BY DEF DirectoryToScan, MayRead
  <2> QED
    BY <1>2, <2>1, ScanReads
<1> QED
  BY <1>1, <1>2 DEF GetObjectHandles, ListRoots, ListDirectory
(* What is entered lies in a directory of a storage that has directories.    *)
LEMMA FoundPlace ==
    ASSUME TypeOK, PendingInv, ViewInv, NEW t, MayRead(t), ~IsActionRoot(t),
           NEW p \in Children(t.path)
    PROVE  /\ p \in Paths /\ disk[p] # Missing /\ Up[p] = t.path /\ t.path \in Paths
           /\ t.storage \in Storages /\ ~Storage[t.storage].action
           /\ t.parent = 0 => ~Storage[t.storage].virtual_root /\ t.path = Storage[t.storage].path
                              /\ t.storage \notin scanned
           /\ t.parent # 0 =>
                 /\ t.parent \in DOMAIN Kept /\ Kept[t.parent] = entries_[t.parent]
                 /\ entries_[t.parent].dir /\ ~entries_[t.parent].scanned
                 /\ entries_[t.parent].storage = t.storage /\ entries_[t.parent].path = t.path
                 /\ InPlace(t.parent)
<1>1. p \in Paths /\ disk[p] # Missing /\ Up[p] = t.path
  BY DEF Children
<1>2. CASE t.parent = 0
  <2>1. t.storage \in Storages \ scanned /\ t.path = Storage[t.storage].path
    <3>1. 0 \notin DOMAIN Kept
      BY TypeOKEntries, KeptType DEF TypeOK, Handles
    <3> QED
      BY <1>2, <3>1 DEF MayRead
  <2>2. ~Storage[t.storage].virtual_root
    BY <2>1 DEF ViewInv, SeedsInv
  <2>3. ~Storage[t.storage].action
    BY <1>2 DEF IsActionRoot
  <2>4. t.path \in Paths
    BY <2>1, <2>2, StorageAssumption
  <2> QED
    BY <1>1, <1>2, <2>1, <2>2, <2>3, <2>4
<1>3. CASE t.parent # 0
  <2>1. /\ t.parent \in DOMAIN Kept /\ Kept[t.parent].dir /\ ~Kept[t.parent].scanned
        /\ t.storage = Kept[t.parent].storage /\ t.path = Kept[t.parent].path
    BY <1>3 DEF MayRead
  <2>2. Kept[t.parent] = entries_[t.parent] /\ t.parent \in DOMAIN entries_
    BY <2>1, KeptIs DEF ViewInv
  <2>3. entries_[t.parent] \in Entry
    BY <2>2 DEF TypeOK
  <2>4. InPlace(t.parent)
    BY <2>2 DEF ViewInv, PlaceInv
  <2>5. ~Storage[t.storage].action
    BY <2>1, <2>2, <2>4 DEF InPlace
  <2>6. t.storage \in Storages /\ t.path \in Paths
    BY <2>1, <2>2, <2>3 DEF Entry
  <2> QED
    BY <1>1, <1>3, <2>1, <2>2, <2>4, <2>5, <2>6
<1> QED
  BY <1>2, <1>3

(* What is found and has a handle was sent before the directory was read.    *)
LEMMA FoundTwice ==
    ASSUME TypeOK, PendingInv, ViewInv, NEW t, MayRead(t), ~IsActionRoot(t),
           NEW p \in Children(t.path), NEW g \in DOMAIN Kept,
           entries_[g].storage = t.storage, entries_[g].path = p
    PROVE  EarlyAbove(t.storage, p)
<1> DEFINE x == entries_[g].parent
<1>1. /\ p \in Paths /\ Up[p] = t.path /\ t.path \in Paths
      /\ t.storage \in Storages /\ ~Storage[t.storage].action
      /\ t.parent = 0 => ~Storage[t.storage].virtual_root /\ t.path = Storage[t.storage].path
                         /\ t.storage \notin scanned
      /\ t.parent # 0 =>
            /\ t.parent \in DOMAIN Kept /\ Kept[t.parent] = entries_[t.parent]
            /\ entries_[t.parent].dir /\ ~entries_[t.parent].scanned
            /\ entries_[t.parent].storage = t.storage /\ entries_[t.parent].path = t.path
            /\ InPlace(t.parent)
  BY FoundPlace
<1>2. g \in DOMAIN entries_ \ pending_handles_ /\ InPlace(g)
  BY KeptIs DEF ViewInv, PlaceInv
<1>3. Up[p] # NoPath
  BY <1>1, DiskAssumption
<1>4. CASE x = t.parent
  <2>1. ~WasRead(t.storage, x)
    BY <1>1, <1>4 DEF WasRead
  <2>3. ~Installed(g)
    <3>1. disk[p] # Missing
      BY FoundPlace
    <3> QED
      BY <1>2, <3>1 DEF ViewInv, AgreeInv, Agrees
  <2>2. <<t.storage, Up[p]>> \in early
    BY <1>1, <1>2, <2>1, <2>3 DEF ViewInv, SentInv
  <2> QED
    BY <1>1, <1>3, <2>2, EarlyUp
<1>5. CASE x = 0 /\ t.parent # 0
  <2>1. /\ ~Storage[t.storage].virtual_root
        /\ Storage[t.storage].path = t.path
    BY <1>1, <1>2, <1>3, <1>5 DEF InPlace
  <2>2. Storage[t.storage].path \in Ancestors[t.path]
    BY <1>1, <1>5, <2>1 DEF InPlace
  <2> QED
    BY <1>1, <2>1, <2>2, NoLoop
<1>6. CASE x # 0 /\ t.parent = 0
  <2>1. x \in DOMAIN entries_ /\ entries_[x].storage = t.storage /\ entries_[x].path = t.path
    BY <1>1, <1>2, <1>6 DEF InPlace
  <2>2. InPlace(x)
    BY <2>1 DEF ViewInv, PlaceInv
  <2>3. Storage[t.storage].path \in Ancestors[t.path]
    BY <1>1, <1>6, <2>1, <2>2 DEF InPlace
  <2> QED
    BY <1>1, <1>6, <2>3, NoLoop
<1>7. CASE x # 0 /\ t.parent # 0 /\ x # t.parent
  <2>1. x \in DOMAIN entries_ /\ entries_[x].storage = t.storage /\ entries_[x].path = t.path
    BY <1>1, <1>2, <1>7 DEF InPlace
  <2>2. t.parent \in DOMAIN entries_
    BY <1>1, <1>7, KeptIs DEF ViewInv
  <2>3. EarlyAbove(t.storage, t.path)
    BY <1>1, <1>7, <2>1, <2>2 DEF ViewInv, UniqueInv
  <2> QED
    BY <1>1, <1>3, <2>3, EarlyUp
<1> QED
  BY <1>4, <1>5, <1>6, <1>7

LEMMA ReadsKeepView == ASSUME TypeOK, PendingInv, ViewInv, NEW opened, Reads(opened) PROVE ViewInv'
<1>1. /\ DOMAIN Kept = DOMAIN entries_ \ pending_handles_
      /\ \A h \in DOMAIN Kept : Kept[h] = entries_[h]
      /\ StillPending = {}
      /\ \A h \in DOMAIN entries_ \ DOMAIN Kept :
            ~entries_[h].dir /\ disk[entries_[h].path] = Missing
  BY KeptIs DEF ViewInv
<1>2. /\ \A t \in opened : MayRead(t)
      /\ \A t, u \in opened : t.storage = u.storage => t = u
      /\ \A h \in DOMAIN Kept :
            /\ h \in DOMAIN entries_' /\ Marked(entries_[h], entries_'[h])
            /\ entries_'[h].scanned => entries_[h].scanned \/ \E t \in opened : t.parent = h
  BY <1>1 DEF Reads
<1>3. \A h \in DOMAIN entries_' \ DOMAIN Kept :
          \E t \in opened, p \in Paths :
              p \in Children(t.path) /\ ~IsActionRoot(t) /\ entries_'[h] = FoundAt(t, p)
  BY DEF Reads, Children
<1>4. \A g, h \in DOMAIN entries_' \ DOMAIN Kept : entries_'[g] = entries_'[h] => g = h
  BY DEF Reads
<1>5. \A t \in opened : \A p \in Children(t.path) :
          ~IsActionRoot(t) => \E h \in DOMAIN entries_' : entries_'[h] = FoundAt(t, p)
  BY DEF Reads
<1>6. /\ \A t \in opened :
            IF t.parent = 0 THEN t.storage \in scanned' ELSE entries_'[t.parent].scanned
      /\ scanned \subseteq scanned'
      /\ \A s \in scanned' : s \in scanned \/ \E t \in opened : t.storage = s /\ t.parent = 0
  BY DEF Reads
<1>7. /\ UNCHANGED <<disk, early, edited, unfiled>>
      /\ pending_handles_' = {} /\ mSendObjectHandle' = 0
      /\ \A h \in DOMAIN entries_' \ DOMAIN Kept : h \notin unfiled
  BY <1>1 DEF Reads, Drop, kInvalidObjectHandle
<1>8. SeedsInv' /\ UnderWay'
  BY <1>6, <1>7 DEF ViewInv, SeedsInv, UnderWay, kInvalidObjectHandle
<1>9. ASSUME NEW h \in DOMAIN Kept
      PROVE  /\ h \in DOMAIN entries_ \ pending_handles_ /\ InPlace(h)
             /\ entries_[h].parent # 0 =>
                   /\ entries_[h].parent \in DOMAIN Kept
                   /\ entries_[h].parent \in DOMAIN entries_'
                   /\ Marked(entries_[entries_[h].parent], entries_'[entries_[h].parent])
  <2>1. h \in DOMAIN entries_ \ pending_handles_ /\ InPlace(h)
    BY <1>1 DEF ViewInv, PlaceInv
  <2>2. entries_[h].parent # 0 => entries_[h].parent \in DOMAIN Kept
    BY <1>1, <2>1 DEF InPlace
  <2> QED
    BY <1>2, <2>1, <2>2
<1>10. PlaceInv'
  <2> SUFFICES ASSUME NEW h \in DOMAIN entries_' PROVE InPlace(h)'
    BY DEF PlaceInv
  <2>1. CASE h \in DOMAIN Kept
    <3>1. Marked(entries_[h], entries_'[h])
      BY <1>2, <2>1
    <3> QED
      BY <1>9, <2>1, <3>1 DEF InPlace, Marked
  <2>2. CASE h \notin DOMAIN Kept
    <3>1. PICK t \in opened, p \in Paths :
              p \in Children(t.path) /\ ~IsActionRoot(t) /\ entries_'[h] = FoundAt(t, p)
      BY <1>3, <2>2
    <3>2. /\ p \in Paths /\ Up[p] = t.path /\ t.path \in Paths
          /\ t.storage \in Storages /\ ~Storage[t.storage].action
          /\ t.parent = 0 => ~Storage[t.storage].virtual_root /\ t.path = Storage[t.storage].path
          /\ t.parent # 0 =>
                /\ t.parent \in DOMAIN Kept /\ entries_[t.parent].dir
                /\ entries_[t.parent].storage = t.storage /\ entries_[t.parent].path = t.path
                /\ InPlace(t.parent)
      BY <1>2, <3>1, FoundPlace
    <3>3. Up[p] # NoPath
      BY <3>2, DiskAssumption
    <3>4. t.path \in Ancestors[p] /\ \A q \in Ancestors[t.path] : q \in Ancestors[p]
      BY <3>2, <3>3, AncestorsGrow
    <3>5. ~Storage[t.storage].virtual_root => Storage[t.storage].path \in Ancestors[p]
      BY <3>2, <3>4 DEF InPlace
    <3>6. t.parent # 0 =>
              t.parent \in DOMAIN entries_' /\ Marked(entries_[t.parent], entries_'[t.parent])
      BY <1>2, <3>2
    <3> QED
      BY <3>1, <3>2, <3>5, <3>6 DEF InPlace, FoundAt, Marked
  <2> QED
    BY <2>1, <2>2
<1>11. AgreeInv'
  <2> SUFFICES ASSUME NEW h \in DOMAIN entries_' PROVE Agrees(h)'
    BY DEF AgreeInv
  <2>1. CASE h \in DOMAIN Kept
    <3>1. Agrees(h)
      BY <1>9, <2>1 DEF ViewInv, AgreeInv
    <3>2. Marked(entries_[h], entries_'[h])
      BY <1>2, <2>1
    <3>3. Installed(h)' <=> Installed(h)
      BY <1>7, <3>2 DEF Installed, Marked
    <3> QED
      BY <1>7, <3>1, <3>2, <3>3 DEF Agrees, Marked
  <2>2. CASE h \notin DOMAIN Kept
    <3>1. PICK t \in opened, p \in Paths :
              p \in Children(t.path) /\ ~IsActionRoot(t) /\ entries_'[h] = FoundAt(t, p)
      BY <1>3, <2>2
    <3>2. p \in Paths /\ disk[p] # Missing /\ ~Storage[t.storage].action
      BY <1>2, <3>1, FoundPlace
    <3>3. disk[p] \in Node
      BY <3>2 DEF TypeOK
    <3>4. disk[p] = IF disk[p] = Directory THEN Directory ELSE File(disk[p].size)
      BY <3>2, <3>3 DEF Node, File
    <3>5. /\ entries_'[h].path = p /\ entries_'[h].storage = t.storage
          /\ entries_'[h].size = disk[p].size
      BY <3>1 DEF FoundAt
    <3>6. entries_'[h].dir <=> disk[p] = Directory
      BY <3>1, FoundAtIs
    <3>7. ~Installed(h)'
      BY <1>7, <2>2, <3>2, <3>5 DEF Installed
    <3> QED
      BY <1>7, <3>2, <3>4, <3>5, <3>6, <3>7 DEF Agrees
  <2> QED
    BY <2>1, <2>2
<1>12. SentInv'
  <2> SUFFICES ASSUME NEW h \in DOMAIN entries_'
               PROVE  \/ WasRead(entries_[h].storage, entries_[h].parent)'
                      \/ Installed(h)'
                      \/ <<entries_'[h].storage, Up[entries_'[h].path]>> \in early'
    BY DEF SentInv
  <2>1. CASE h \in DOMAIN Kept
    <3>1. \/ WasRead(entries_[h].storage, entries_[h].parent)
          \/ Installed(h)
          \/ <<entries_[h].storage, Up[entries_[h].path]>> \in early
      BY <1>9, <2>1 DEF ViewInv, SentInv
    <3>2. Marked(entries_[h], entries_'[h])
      BY <1>2, <2>1
    <3>3. WasRead(entries_[h].storage, entries_[h].parent)
          => WasRead(entries_[h].storage, entries_[h].parent)'
      BY <1>6, <1>9, <2>1, <3>2 DEF WasRead, Marked
    <3>4. Installed(h) => Installed(h)'
      BY <1>7, <3>2 DEF Installed, Marked
    <3> QED
      BY <1>7, <3>1, <3>2, <3>3, <3>4 DEF Marked
  <2>2. CASE h \notin DOMAIN Kept
    <3>1. PICK t \in opened, p \in Paths : p \in Children(t.path) /\ entries_'[h] = FoundAt(t, p)
      BY <1>3, <2>2
    <3> QED
      BY <1>6, <3>1 DEF WasRead, FoundAt
  <2> QED
    BY <2>1, <2>2
<1>13. UniqueInv'
  <2>1. ASSUME NEW g \in DOMAIN Kept, NEW h \in DOMAIN entries_' \ DOMAIN Kept,
               entries_'[g].storage = entries_'[h].storage, entries_'[g].path = entries_'[h].path
        PROVE  EarlyAbove(entries_'[h].storage, entries_'[h].path)
    <3>1. PICK t \in opened, p \in Paths :
              p \in Children(t.path) /\ ~IsActionRoot(t) /\ entries_'[h] = FoundAt(t, p)
      BY <1>3
    <3>2. entries_[g].storage = t.storage /\ entries_[g].path = p
      BY <1>2, <2>1, <3>1 DEF Marked, FoundAt
    <3> QED
      BY <1>2, <3>1, <3>2, FoundTwice DEF FoundAt
  <2>2. ASSUME NEW g \in DOMAIN Kept, NEW h \in DOMAIN Kept, g # h,
               entries_'[g].storage = entries_'[h].storage, entries_'[g].path = entries_'[h].path
        PROVE  EarlyAbove(entries_'[g].storage, entries_'[g].path)
    <3>1. Marked(entries_[g], entries_'[g]) /\ Marked(entries_[h], entries_'[h])
      BY <1>2
    <3>2. g \in DOMAIN entries_ /\ h \in DOMAIN entries_
      BY <1>9
    <3> QED
      BY <2>2, <3>1, <3>2 DEF ViewInv, UniqueInv, Marked
  <2>3. ASSUME NEW g \in DOMAIN entries_' \ DOMAIN Kept, NEW h \in DOMAIN entries_' \ DOMAIN Kept,
               entries_'[g].storage = entries_'[h].storage, entries_'[g].path = entries_'[h].path
        PROVE  g = h
    <3>1. PICK t \in opened, p \in Paths : p \in Children(t.path) /\ entries_'[g] = FoundAt(t, p)
      BY <1>3
    <3>2. PICK u \in opened, q \in Paths : q \in Children(u.path) /\ entries_'[h] = FoundAt(u, q)
      BY <1>3
    <3>3. t = u /\ p = q
      BY <1>2, <2>3, <3>1, <3>2 DEF FoundAt
    <3> QED
      BY <1>4, <3>1, <3>2, <3>3
  <2>4. ASSUME NEW g \in DOMAIN entries_', NEW h \in DOMAIN entries_', g # h,
               entries_'[g].storage = entries_'[h].storage, entries_'[g].path = entries_'[h].path
        PROVE  EarlyAbove(entries_'[g].storage, entries_'[g].path)
    BY <2>1, <2>2, <2>3, <2>4
  <2> QED
    BY <1>7, <2>4 DEF UniqueInv, EarlyAbove
<1>14. ListingIsComplete'
  <2> SUFFICES ASSUME NEW d \in ReadDirectories', NEW p \in Children(d.path)',
                      ~EarlyAbove(d.storage, d.path)'
               PROVE  \E h \in DOMAIN entries_' :
                         /\ entries_'[h].path = p
                         /\ \/ entries_'[h].storage = d.storage /\ entries_'[h].parent = d.parent
                            \/ /\ entries_'[h].storage # d.storage
                               /\ Storage[entries_'[h].storage].writable
    BY DEF ListingIsComplete
  <2>1. p \in Children(d.path) /\ p \in Paths /\ disk[p] # Missing
    BY <1>7 DEF Children
  <2>2. ~EarlyAbove(d.storage, d.path)
    BY <1>7 DEF EarlyAbove
  <2>3. CASE d \in ReadDirectories
    <3>1. PICK h \in DOMAIN entries_ :
              /\ entries_[h].path = p
              /\ \/ entries_[h].storage = d.storage /\ entries_[h].parent = d.parent
                 \/ /\ entries_[h].storage # d.storage
                    /\ Storage[entries_[h].storage].writable
      BY <2>1, <2>2, <2>3 DEF ViewInv, ListingIsComplete
    <3>2. h \in DOMAIN Kept
      BY <1>1, <2>1, <3>1
    <3>3. h \in DOMAIN entries_' /\ Marked(entries_[h], entries_'[h])
      BY <1>2, <3>2
    <3> QED
      BY <3>1, <3>3 DEF Marked
  <2>4. ASSUME NEW t \in opened, ~IsActionRoot(t), t.path = d.path,
               t.storage = d.storage, t.parent = d.parent
        PROVE  \E h \in DOMAIN entries_' :
                  /\ entries_'[h].path = p
                  /\ entries_'[h].storage = d.storage /\ entries_'[h].parent = d.parent
    <3>1. PICK h \in DOMAIN entries_' : entries_'[h] = FoundAt(t, p)
      BY <1>5, <2>1, <2>4
    <3> QED
      BY <2>4, <3>1 DEF FoundAt
  <2>5. CASE \E s \in scanned' : /\ ~Storage[s].virtual_root /\ ~Storage[s].action
                                 /\ d = [storage |-> s, parent |-> 0, path |-> Storage[s].path]
    <3>1. PICK s \in scanned' : /\ ~Storage[s].virtual_root /\ ~Storage[s].action
                                /\ d = [storage |-> s, parent |-> 0, path |-> Storage[s].path]
      BY <2>5
    <3>2. CASE s \in scanned
      <4>1. d \in ReadDirectories
        BY <3>1, <3>2 DEF ReadDirectories
      <4> QED
        BY <2>3, <4>1
    <3>3. CASE \E t \in opened : t.storage = s /\ t.parent = 0
      <4>1. PICK t \in opened : t.storage = s /\ t.parent = 0
        BY <3>3
      <4>2. t.path = Storage[s].path
        <5>1. 0 \notin DOMAIN Kept
          BY TypeOKEntries, KeptType DEF TypeOK, Handles
        <5> QED
          BY <1>2, <4>1, <5>1 DEF MayRead
      <4>3. ~IsActionRoot(t)
        BY <3>1, <4>1 DEF IsActionRoot
      <4> QED
        BY <2>4, <3>1, <4>1, <4>2, <4>3
    <3> QED
      BY <1>6, <3>2, <3>3
  <2>6. CASE \E h \in DOMAIN entries_' :
                /\ entries_'[h].dir /\ entries_'[h].scanned
                /\ d = [storage |-> entries_'[h].storage, parent |-> h, path |-> entries_'[h].path]
    <3>1. PICK h \in DOMAIN entries_' :
                /\ entries_'[h].dir /\ entries_'[h].scanned
                /\ d = [storage |-> entries_'[h].storage, parent |-> h, path |-> entries_'[h].path]
      BY <2>6
    <3>2. h \in DOMAIN Kept
      BY <1>3, <3>1 DEF FoundAt
    <3>3. Marked(entries_[h], entries_'[h]) /\ h \in DOMAIN entries_
      BY <1>2, <1>9, <3>2
    <3>4. CASE entries_[h].scanned
      <4>1. d \in ReadDirectories
        BY <3>1, <3>3, <3>4 DEF ReadDirectories, Marked
      <4> QED
        BY <2>3, <4>1
    <3>5. CASE \E t \in opened : t.parent = h
      <4>1. PICK t \in opened : t.parent = h
        BY <3>5
      <4>2. h # 0
        BY <3>3 DEF TypeOK, Handles
      <4>3. t.storage = entries_[h].storage /\ t.path = entries_[h].path
        BY <1>1, <1>2, <3>2, <4>1, <4>2 DEF MayRead
      <4>4. ~IsActionRoot(t)
        BY <4>1, <4>2 DEF IsActionRoot
      <4> QED
        BY <2>4, <3>1, <3>3, <4>1, <4>3, <4>4 DEF Marked
    <3> QED
      BY <1>2, <3>1, <3>2, <3>4, <3>5
  <2> QED
    BY <2>5, <2>6 DEF ReadDirectories
<1> QED
  BY <1>8, <1>10, <1>11, <1>12, <1>13, <1>14 DEF ViewInv
-----------------------------------------------------------------------------
(* Sending. *)

(* What beginSendObject lets through lies in a directory of a writable storage. *)
LEMMA SendPlace ==
    ASSUME TypeOK, PendingInv, ViewInv, NEW s \in Storages, NEW parent \in Handles \cup {0},
           NEW item \in Sendable, CanSend(s, parent, item)
    PROVE  /\ item.path \in Paths /\ disk[item.path] = Missing
           /\ Storage[s].writable /\ ~Storage[s].virtual_root
           /\ item.dir => ~Storage[s].action
           /\ \A h \in DOMAIN Kept : entries_[h].path # item.path
           /\ Up[item.path] \in Paths /\ Up[item.path] = ParentPath(s, parent)
           /\ parent = 0 => Up[item.path] = Storage[s].path
           /\ parent # 0 =>
                 /\ parent \in DOMAIN Kept /\ parent \in DOMAIN entries_
                 /\ entries_[parent].dir /\ entries_[parent].storage = s
                 /\ entries_[parent].path = Up[item.path]
           /\ Storage[s].path \in Ancestors[item.path]
<1>1. item.path \in Paths /\ Up[item.path] \in Paths /\ Up[item.path] = ParentPath(s, parent)
  <2>1. item.path \in Paths
    BY StorageAssumption
  <2> QED
    BY <2>1, ParentPathType DEF CanSend
<1>2. Storage[s].writable /\ (item.dir => ~Storage[s].action) /\ disk[item.path] = Missing
  BY DEF CanSend
<1>3. ~Storage[s].virtual_root
  BY <1>2, StorageAssumption
<1>4. /\ \A h \in DOMAIN Kept : h \in DOMAIN entries_ /\ Kept[h] = entries_[h]
      /\ \A h \in DOMAIN Kept : entries_[h].path # item.path
  <2>1. \A h \in DOMAIN Kept : h \in DOMAIN entries_ /\ Kept[h] = entries_[h]
    BY KeptIs DEF ViewInv
  <2> QED
    BY <2>1 DEF CanSend
<1>5. Up[item.path] # NoPath
  BY <1>1, DiskAssumption
<1>6. parent # 0 =>
          /\ parent \in DOMAIN Kept /\ parent \in DOMAIN entries_
          /\ entries_[parent].dir /\ entries_[parent].storage = s
          /\ entries_[parent].path = Up[item.path]
  BY <1>1, <1>4, <1>5 DEF ParentPath
<1>7. parent = 0 => Up[item.path] = Storage[s].path
  BY <1>1 DEF ParentPath
<1>8. /\ Up[item.path] \in Ancestors[item.path]
      /\ \A q \in Ancestors[Up[item.path]] : q \in Ancestors[item.path]
  BY <1>1, <1>5, AncestorsGrow
<1>9. Storage[s].path \in Ancestors[item.path]
  <2>1. CASE parent = 0
    BY <1>7, <1>8, <2>1
  <2>2. CASE parent # 0
    <3>1. InPlace(parent)
      BY <1>6, <2>2 DEF ViewInv, PlaceInv
    <3> QED
      BY <1>3, <1>6, <1>8, <2>2, <3>1 DEF InPlace
  <2> QED
    BY <2>1, <2>2
<1> QED
  BY <1>1, <1>2, <1>3, <1>4, <1>6, <1>7, <1>9

(* The object that was announced, with the handle it was given. *)
LEMMA SendEnters ==
    ASSUME TypeOK, HandlesInv, PendingInv, ViewInv,
           NEW s \in Storages, NEW parent \in Handles \cup {0}, NEW item \in Sendable,
           TakesHandle(s, parent, item),
           NEW size, entries_' = With(Kept, Announced(s, parent, [item EXCEPT !.size = size]))
    PROVE  /\ next_handle_ \notin DOMAIN entries_ /\ next_handle_ # 0
           /\ DOMAIN entries_' = DOMAIN Kept \cup {next_handle_}
           /\ \A h \in DOMAIN Kept : entries_'[h] = entries_[h]
           /\ entries_'[next_handle_] =
                 [storage |-> s, parent |-> parent, path |-> item.path, dir |-> item.dir,
                  size |-> size, scanned |-> FALSE]
           /\ PlaceInv'
<1>1. item \in [path: Paths, dir: BOOLEAN, size: Nat]
  BY StorageAssumption
<1>2. next_handle_ \notin DOMAIN entries_ /\ next_handle_ # 0
  <2>1. next_handle_ \in Handles /\ next_handle_ \notin DOMAIN entries_
    BY <1>1, AnnouncedType
  <2> QED
    BY <2>1 DEF Handles
<1>3. \A h \in DOMAIN Kept : h \in DOMAIN entries_ \ pending_handles_ /\ Kept[h] = entries_[h]
  BY KeptIs DEF ViewInv
<1>4. Announced(s, parent, [item EXCEPT !.size = size]) =
          [h \in {next_handle_} |->
             [storage |-> s, parent |-> parent, path |-> item.path, dir |-> item.dir,
              size |-> size, scanned |-> FALSE]]
  BY <1>1 DEF Announced, FreshHandle
<1>5. /\ DOMAIN entries_' = DOMAIN Kept \cup {next_handle_}
      /\ \A h \in DOMAIN Kept : entries_'[h] = entries_[h]
      /\ entries_'[next_handle_] =
            [storage |-> s, parent |-> parent, path |-> item.path, dir |-> item.dir,
             size |-> size, scanned |-> FALSE]
  BY <1>2, <1>3, <1>4 DEF With
<1>6. PlaceInv'
  <2> SUFFICES ASSUME NEW h \in DOMAIN entries_' PROVE InPlace(h)'
    BY DEF PlaceInv
  <2>1. CASE h \in DOMAIN Kept
    <3>1. InPlace(h) /\ entries_'[h] = entries_[h]
      BY <1>3, <1>5, <2>1 DEF ViewInv, PlaceInv
    <3>2. entries_[h].parent # 0 => entries_[h].parent \in DOMAIN Kept
      <4>1. entries_[h].parent # 0 =>
                entries_[h].parent \in DOMAIN entries_ /\ entries_[entries_[h].parent].dir
        BY <3>1 DEF InPlace
      <4> QED
        BY <4>1, KeptIs DEF ViewInv
    <3> QED
      BY <1>5, <3>1, <3>2 DEF InPlace
  <2>2. CASE h = next_handle_
    <3>1. /\ ~Storage[s].virtual_root
          /\ item.dir => ~Storage[s].action
          /\ parent = 0 => Up[item.path] = Storage[s].path
          /\ parent # 0 =>
                /\ parent \in DOMAIN Kept
                /\ entries_[parent].dir /\ entries_[parent].storage = s
                /\ entries_[parent].path = Up[item.path]
          /\ Storage[s].path \in Ancestors[item.path]
      BY SendPlace DEF TakesHandle
    <3>2. parent # 0 => parent \in DOMAIN entries_' /\ entries_'[parent] = entries_[parent]
      BY <1>5, <3>1
    <3>3. /\ entries_'[h].storage = s /\ entries_'[h].parent = parent
          /\ entries_'[h].path = item.path /\ (entries_'[h].dir <=> item.dir)
      BY <1>5, <2>2
    <3> QED
      BY <3>1, <3>2, <3>3 DEF InPlace
  <2> QED
    BY <1>5, <2>1, <2>2
<1> QED
  BY <1>2, <1>5, <1>6

(* Two handles of a directory that was read mean that it was sent too early. *)
LEMMA ReadTwice ==
    ASSUME TypeOK, ViewInv, NEW s \in Storages, ~Storage[s].virtual_root,
           NEW q \in Paths, NEW parent,
           parent = 0 => q = Storage[s].path,
           parent # 0 =>
               /\ parent \in DOMAIN entries_
               /\ entries_[parent].storage = s /\ entries_[parent].path = q,
           NEW d \in ReadDirectories, d.storage = s, d.path = q, d.parent # parent
    PROVE  EarlyAbove(s, q)
<1>1. ASSUME NEW h \in DOMAIN entries_, entries_[h].storage = s, entries_[h].path = q
      PROVE  Storage[s].path # q
  <2>1. InPlace(h)
    BY DEF ViewInv, PlaceInv
  <2>2. Storage[s].path \in Ancestors[q]
    BY <1>1, <2>1 DEF InPlace
  <2> QED
    BY <2>2, NoLoop
<1>2. CASE d.parent = 0
  <2>1. d.path = Storage[s].path
    <3>1. \A h \in DOMAIN entries_ : h # 0
      BY DEF TypeOK, Handles
    <3> QED
      BY <1>2, <3>1 DEF ReadDirectories
  <2> QED
    BY <1>1, <1>2, <2>1
<1>3. CASE d.parent # 0
  <2>1. /\ d.parent \in DOMAIN entries_
        /\ entries_[d.parent].storage = s /\ entries_[d.parent].path = q
    BY <1>3 DEF ReadDirectories
  <2>2. parent # 0
    BY <1>1, <2>1
  <2> QED
    BY <2>1, <2>2 DEF ViewInv, UniqueInv
<1> QED
  BY <1>2, <1>3
(* A request that makes or enters "path" leaves of the others what they were. *)
OthersStay(path) ==
    /\ \A h \in DOMAIN Kept : Agrees(h)'
    /\ \A h \in DOMAIN Kept :
          \/ WasRead(entries_[h].storage, entries_[h].parent)'
          \/ Installed(h)'
          \/ <<entries_'[h].storage, Up[entries_'[h].path]>> \in early'
    /\ UniqueInv'
    /\ ReadDirectories' \subseteq ReadDirectories
    /\ \A d \in ReadDirectories' : \A p \in Children(d.path)' :
          p # path =>
              \/ EarlyAbove(d.storage, d.path)'
              \/ \E h \in DOMAIN entries_' :
                    /\ entries_'[h].path = p
                    /\ \/ entries_'[h].storage = d.storage /\ entries_'[h].parent = d.parent
                       \/ /\ entries_'[h].storage # d.storage
                          /\ Storage[entries_'[h].storage].writable

LEMMA OthersKept ==
    ASSUME TypeOK, PendingInv, ViewInv, NEW n, NEW path, n # 0, n \notin DOMAIN Kept,
           DOMAIN entries_' = DOMAIN Kept \cup {n},
           \A h \in DOMAIN Kept : entries_'[h] = entries_[h] /\ entries_[h].path # path,
           entries_'[n].path = path, ~(entries_'[n].dir /\ entries_'[n].scanned),
           \A p \in Paths : p # path => disk'[p] = disk[p],
           scanned' = scanned, early \subseteq early',
           edited' = edited, \A h \in DOMAIN Kept : h \in unfiled' <=> h \in unfiled
    PROVE  OthersStay(path)
<1>1. /\ DOMAIN Kept = DOMAIN entries_ \ pending_handles_
      /\ \A h \in DOMAIN entries_ \ DOMAIN Kept :
            ~entries_[h].dir /\ disk[entries_[h].path] = Missing
  BY KeptIs DEF ViewInv
<1>2. ASSUME NEW h \in DOMAIN Kept PROVE Agrees(h)'
  <2>1. Agrees(h) /\ entries_[h].path \in Paths
    BY <1>1 DEF ViewInv, AgreeInv, TypeOK, Entry
  <2>2. Installed(h)' <=> Installed(h)
    BY DEF Installed
  <2> QED
    BY <2>1, <2>2 DEF Agrees
<1>3. ASSUME NEW h \in DOMAIN Kept
      PROVE  \/ WasRead(entries_[h].storage, entries_[h].parent)'
             \/ Installed(h)'
             \/ <<entries_'[h].storage, Up[entries_'[h].path]>> \in early'
  <2>1. entries_[h].parent # 0 =>
            entries_[h].parent \in DOMAIN entries_ /\ entries_[entries_[h].parent].dir
    BY <1>1 DEF ViewInv, PlaceInv, InPlace
  <2>2. entries_[h].parent # 0 => entries_'[entries_[h].parent] = entries_[entries_[h].parent]
    BY <1>1, <2>1
  <2>3. \/ WasRead(entries_[h].storage, entries_[h].parent)
        \/ Installed(h)
        \/ <<entries_[h].storage, Up[entries_[h].path]>> \in early
    BY <1>1 DEF ViewInv, SentInv
  <2>4. Installed(h)' <=> Installed(h)
    BY DEF Installed
  <2> QED
    BY <2>2, <2>3, <2>4 DEF WasRead
<1>4. UniqueInv'
  <2> SUFFICES ASSUME NEW g \in DOMAIN entries_', NEW h \in DOMAIN entries_', g # h,
                      entries_'[g].storage = entries_'[h].storage,
                      entries_'[g].path = entries_'[h].path
               PROVE  EarlyAbove(entries_[g].storage, entries_[g].path)'
    BY DEF UniqueInv
  <2>1. g \in DOMAIN Kept /\ h \in DOMAIN Kept
    OBVIOUS
  <2>2. EarlyAbove(entries_[g].storage, entries_[g].path)
    BY <1>1, <2>1 DEF ViewInv, UniqueInv
  <2> QED
    BY <2>1, <2>2 DEF EarlyAbove
<1>5. ReadDirectories' \subseteq ReadDirectories
  <2> SUFFICES ASSUME NEW d \in ReadDirectories' PROVE d \in ReadDirectories
    OBVIOUS
  <2>1. CASE \E s \in scanned : /\ ~Storage[s].virtual_root /\ ~Storage[s].action
                                /\ d = [storage |-> s, parent |-> 0, path |-> Storage[s].path]
    BY <2>1 DEF ReadDirectories
  <2>2. CASE \E h \in DOMAIN entries_' :
                /\ entries_'[h].dir /\ entries_'[h].scanned
                /\ d = [storage |-> entries_'[h].storage, parent |-> h, path |-> entries_'[h].path]
    <3>1. PICK h \in DOMAIN entries_' :
                /\ entries_'[h].dir /\ entries_'[h].scanned
                /\ d = [storage |-> entries_'[h].storage, parent |-> h, path |-> entries_'[h].path]
      BY <2>2
    <3>2. h \in DOMAIN Kept /\ h \in DOMAIN entries_ /\ entries_'[h] = entries_[h]
      BY <1>1, <3>1
    <3> QED
      BY <3>1, <3>2 DEF ReadDirectories
  <2> QED
    BY <2>1, <2>2 DEF ReadDirectories
<1>6. ASSUME NEW d \in ReadDirectories', NEW p \in Children(d.path)', p # path,
             ~EarlyAbove(d.storage, d.path)'
      PROVE  \E h \in DOMAIN entries_' :
                /\ entries_'[h].path = p
                /\ \/ entries_'[h].storage = d.storage /\ entries_'[h].parent = d.parent
                   \/ /\ entries_'[h].storage # d.storage
                      /\ Storage[entries_'[h].storage].writable
  <2>1. p \in Children(d.path) /\ p \in Paths /\ disk[p] # Missing
    BY <1>6 DEF Children
  <2>2. ~EarlyAbove(d.storage, d.path)
    BY <1>6 DEF EarlyAbove
  <2>3. PICK h \in DOMAIN entries_ :
            /\ entries_[h].path = p
            /\ \/ entries_[h].storage = d.storage /\ entries_[h].parent = d.parent
               \/ /\ entries_[h].storage # d.storage
                  /\ Storage[entries_[h].storage].writable
    BY <1>5, <2>1, <2>2 DEF ViewInv, ListingIsComplete
  <2>4. h \in DOMAIN Kept
    BY <1>1, <2>1, <2>3
  <2> QED
    BY <2>3, <2>4
<1> QED
  BY <1>2, <1>3, <1>4, <1>5, <1>6 DEF OthersStay

LEMMA AnnounceKeepsView ==
    ASSUME TypeOK, HandlesInv, PendingInv, OutsideInv, ViewInv,
           NEW s \in Storages, NEW parent \in Handles \cup {0}, NEW item \in Sendable,
           AnnounceFile(s, parent, item)
    PROVE  ViewInv'
<1>1. TakesHandle(s, parent, item) /\ CanSend(s, parent, item) /\ ~item.dir
  BY DEF AnnounceFile, TakesHandle
<1>2. item \in [path: Paths, dir: BOOLEAN, size: Nat]
  BY StorageAssumption
<1>3. entries_' = With(Kept, Announced(s, parent, [item EXCEPT !.size = item.size]))
  <2>1. [item EXCEPT !.size = item.size] = item
    BY <1>2
  <2> QED
    BY <2>1 DEF AnnounceFile
<1>4. /\ next_handle_ \notin DOMAIN entries_ /\ next_handle_ # 0
      /\ DOMAIN entries_' = DOMAIN Kept \cup {next_handle_}
      /\ \A h \in DOMAIN Kept : entries_'[h] = entries_[h]
      /\ entries_'[next_handle_] =
            [storage |-> s, parent |-> parent, path |-> item.path, dir |-> item.dir,
             size |-> item.size, scanned |-> FALSE]
      /\ PlaceInv'
  BY <1>1, <1>3, SendEnters
<1>5. /\ entries_'[next_handle_].path = item.path /\ entries_'[next_handle_].storage = s
      /\ ~entries_'[next_handle_].dir /\ ~entries_'[next_handle_].scanned
  BY <1>1, <1>4
<1>6. /\ disk[item.path] = Missing /\ Storage[s].writable
      /\ \A h \in DOMAIN Kept : entries_[h].path # item.path
  BY <1>1, SendPlace
<1>7. StillPending = {} /\ \A h \in DOMAIN Kept : h \in DOMAIN entries_ \ pending_handles_
  BY KeptIs DEF ViewInv
<1>8. /\ UNCHANGED <<disk, scanned, early, edited, unfiled>>
      /\ pending_handles_' = {next_handle_}
      /\ mSendObjectHandle' = next_handle_
  BY <1>7 DEF AnnounceFile, FreshHandle, editVars
<1>13. next_handle_ \notin unfiled'
  <2>1. next_handle_ \in Nat
    BY DEF TypeOK
  <2> QED
    BY <1>8, <2>1 DEF HandlesInv, OutsideInv
<1>9. SeedsInv' /\ UnderWay'
  <2>1. UnderWay'
    BY <1>4, <1>5, <1>6, <1>8, <1>13 DEF UnderWay, kInvalidObjectHandle
  <2> QED
    BY <1>8, <2>1 DEF ViewInv, SeedsInv
<1> DEFINE n == next_handle_
<1>10. OthersStay(item.path)
  <2>1. /\ n # 0 /\ n \notin DOMAIN Kept
        /\ DOMAIN entries_' = DOMAIN Kept \cup {n}
        /\ \A h \in DOMAIN Kept : entries_'[h] = entries_[h] /\ entries_[h].path # item.path
        /\ entries_'[n].path = item.path /\ ~(entries_'[n].dir /\ entries_'[n].scanned)
        /\ \A p \in Paths : p # item.path => disk'[p] = disk[p]
        /\ scanned' = scanned /\ early \subseteq early'
        /\ edited' = edited /\ unfiled' = unfiled
    BY <1>4, <1>5, <1>6, <1>7, <1>8
  <2> HIDE DEF n
  <2> QED
    BY <2>1, OthersKept
<1>11. AgreeInv' /\ SentInv'
  BY <1>4, <1>8, <1>10 DEF OthersStay, AgreeInv, SentInv
<1>12. ListingIsComplete'
  <2>1. \A d \in ReadDirectories' : \A p \in Children(d.path)' : p # item.path
    BY <1>6, <1>8 DEF Children
  <2> QED
    BY <1>10, <2>1 DEF OthersStay, ListingIsComplete
<1> QED
  BY <1>4, <1>9, <1>10, <1>11, <1>12 DEF OthersStay, ViewInv
(* What is made in a directory that was read is in its listing. *)
LEMMA MadeIsListed ==
    ASSUME TypeOK, ViewInv, NEW s \in Storages, Storage[s].writable, ~Storage[s].virtual_root,
           NEW path, Up[path] \in Paths, NEW parent,
           parent = 0 => Up[path] = Storage[s].path,
           parent # 0 =>
               /\ parent \in DOMAIN entries_
               /\ entries_[parent].storage = s /\ entries_[parent].path = Up[path],
           NEW n, n \in DOMAIN entries_',
           entries_'[n].storage = s, entries_'[n].parent = parent, entries_'[n].path = path,
           early \subseteq early',
           NEW d \in ReadDirectories, path \in Children(d.path)'
    PROVE  \/ EarlyAbove(d.storage, d.path)'
           \/ \E h \in DOMAIN entries_' :
                 /\ entries_'[h].path = path
                 /\ \/ entries_'[h].storage = d.storage /\ entries_'[h].parent = d.parent
                    \/ /\ entries_'[h].storage # d.storage
                       /\ Storage[entries_'[h].storage].writable
<1>1. d.path = Up[path]
  BY DEF Children
<1>2. CASE d.storage # s \/ d.parent = parent
  BY <1>2
<1>3. CASE d.storage = s /\ d.parent # parent
  <2>1. EarlyAbove(d.storage, d.path)
    BY <1>1, <1>3, ReadTwice
  <2> QED
    BY <2>1 DEF EarlyAbove
<1> QED
  BY <1>2, <1>3

LEMMA CreateKeepsView ==
    ASSUME TypeOK, HandlesInv, PendingInv, OutsideInv, ViewInv,
           NEW s \in Storages, NEW parent \in Handles \cup {0}, NEW item \in Sendable,
           CreateDirectory(s, parent, item)
    PROVE  ViewInv'
<1>1. TakesHandle(s, parent, item) /\ CanSend(s, parent, item) /\ item.dir
  BY DEF CreateDirectory, TakesHandle
<1>2. entries_' = With(Kept, Announced(s, parent, [item EXCEPT !.size = 0]))
  BY DEF CreateDirectory
<1>3. /\ next_handle_ \notin DOMAIN entries_ /\ next_handle_ # 0
      /\ DOMAIN entries_' = DOMAIN Kept \cup {next_handle_}
      /\ \A h \in DOMAIN Kept : entries_'[h] = entries_[h]
      /\ entries_'[next_handle_] =
            [storage |-> s, parent |-> parent, path |-> item.path, dir |-> item.dir,
             size |-> 0, scanned |-> FALSE]
      /\ PlaceInv'
  BY <1>1, <1>2, SendEnters
<1> DEFINE n == next_handle_
<1>4. /\ entries_'[n].path = item.path /\ entries_'[n].storage = s
      /\ entries_'[n].parent = parent /\ entries_'[n].dir /\ ~entries_'[n].scanned
  BY <1>1, <1>3
<1>5. /\ item.path \in Paths /\ disk[item.path] = Missing
      /\ Storage[s].writable /\ ~Storage[s].virtual_root /\ ~Storage[s].action
      /\ \A h \in DOMAIN Kept : entries_[h].path # item.path
      /\ Up[item.path] \in Paths /\ Up[item.path] = ParentPath(s, parent)
      /\ parent = 0 => Up[item.path] = Storage[s].path
      /\ parent # 0 =>
            /\ parent \in DOMAIN Kept /\ parent \in DOMAIN entries_
            /\ entries_[parent].storage = s /\ entries_[parent].path = Up[item.path]
  BY <1>1, SendPlace
<1>6. /\ StillPending = {}
      /\ \A h \in DOMAIN Kept : h \in DOMAIN entries_ \ pending_handles_ /\ Kept[h] = entries_[h]
  BY KeptIs DEF ViewInv
<1>7. /\ disk' = [disk EXCEPT ![item.path] = Directory] /\ scanned' = scanned
      /\ early' = early \cup Early(s, parent)
      /\ pending_handles_' = {} /\ mSendObjectHandle' = 0
      /\ edited' = edited /\ unfiled' = unfiled
  BY <1>6 DEF CreateDirectory, Drop, kInvalidObjectHandle, editVars, sinkVars
<1>14. n \notin unfiled'
  <2>1. n \in Nat
    BY DEF TypeOK
  <2> QED
    BY <1>7, <2>1 DEF HandlesInv, OutsideInv
<1>8. /\ disk'[item.path] = Directory
      /\ \A p \in Paths : p # item.path => disk'[p] = disk[p]
  BY <1>5, <1>7 DEF TypeOK
<1>9. SeedsInv' /\ UnderWay'
  <2>1. \A seed \in Seeds : disk'[seed.path] = Directory
    BY <1>8, StorageAssumption DEF ViewInv, SeedsInv
  <2> QED
    BY <1>7, <2>1 DEF ViewInv, SeedsInv, UnderWay, kInvalidObjectHandle
<1>10. OthersStay(item.path)
  <2>1. /\ n # 0 /\ n \notin DOMAIN Kept
        /\ DOMAIN entries_' = DOMAIN Kept \cup {n}
        /\ \A h \in DOMAIN Kept : entries_'[h] = entries_[h] /\ entries_[h].path # item.path
        /\ entries_'[n].path = item.path /\ ~(entries_'[n].dir /\ entries_'[n].scanned)
        /\ scanned' = scanned /\ early \subseteq early'
        /\ edited' = edited /\ unfiled' = unfiled
    BY <1>3, <1>4, <1>5, <1>6, <1>7
  <2> HIDE DEF n
  <2> QED
    BY <1>8, <2>1, OthersKept
<1>11. AgreeInv'
  <2>1. ASSUME NEW h, h = n PROVE Agrees(h)'
    BY <1>4, <1>5, <1>8, <1>14, <2>1 DEF Agrees, Installed
  <2>2. \A h \in DOMAIN Kept : Agrees(h)'
    BY <1>10 DEF OthersStay
  <2> QED
    BY <1>3, <2>1, <2>2 DEF AgreeInv
<1>12. SentInv'
  <2>1. WasRead(s, parent)' \/ <<s, Up[item.path]>> \in early'
    <3>1. IsRead(s, parent) \/ <<s, Up[item.path]>> \in early'
      BY <1>5, <1>7 DEF Early
    <3>2. IsRead(s, parent) => WasRead(s, parent)'
      BY <1>3, <1>5, <1>6, <1>7 DEF IsRead, WasRead
    <3> QED
      BY <3>1, <3>2
  <2> QED
    BY <1>3, <1>4, <1>10, <2>1 DEF OthersStay, SentInv
<1>13. ListingIsComplete'
  <2> SUFFICES ASSUME NEW d \in ReadDirectories', NEW p \in Children(d.path)'
               PROVE  \/ EarlyAbove(d.storage, d.path)'
                      \/ \E h \in DOMAIN entries_' :
                            /\ entries_'[h].path = p
                            /\ \/ /\ entries_'[h].storage = d.storage
                                  /\ entries_'[h].parent = d.parent
                               \/ /\ entries_'[h].storage # d.storage
                                  /\ Storage[entries_'[h].storage].writable
    BY DEF ListingIsComplete
  <2>1. CASE p # item.path
    BY <1>10, <2>1 DEF OthersStay
  <2>2. CASE p = item.path
    <3>1. d \in ReadDirectories
      BY <1>10 DEF OthersStay
    <3>2. n \in DOMAIN entries_' /\ early \subseteq early'
      BY <1>3, <1>7
    <3>3. item.path \in Children(d.path)'
      BY <2>2
    <3>4. /\ Storage[s].writable /\ ~Storage[s].virtual_root /\ Up[item.path] \in Paths
          /\ parent = 0 => Up[item.path] = Storage[s].path
          /\ parent # 0 =>
                /\ parent \in DOMAIN entries_
                /\ entries_[parent].storage = s /\ entries_[parent].path = Up[item.path]
      BY <1>4, <1>5
    <3>5. /\ entries_'[n].storage = s /\ entries_'[n].parent = parent
          /\ entries_'[n].path = item.path
      BY <1>4, <1>5
    <3> HIDE DEF n
    <3>6. \/ EarlyAbove(d.storage, d.path)'
          \/ \E h \in DOMAIN entries_' :
                /\ entries_'[h].path = item.path
                /\ \/ entries_'[h].storage = d.storage /\ entries_'[h].parent = d.parent
                   \/ /\ entries_'[h].storage # d.storage
                      /\ Storage[entries_'[h].storage].writable
      BY <3>1, <3>2, <3>3, <3>4, <3>5, MadeIsListed
    <3> QED
      BY <2>2, <3>6
  <2> QED
    BY <2>1, <2>2
<1> QED
  BY <1>3, <1>9, <1>10, <1>11, <1>12, <1>13 DEF OthersStay, ViewInv
(* The object that was announced has arrived. *)
LEMMA ArrivalKeepsView ==
    ASSUME TypeOK, HandlesInv, PendingInv, ViewInv, ObjectArrives
    PROVE  ViewInv'
<1> DEFINE n == mSendObjectHandle
           entry == entries_[n]
           path == entry.path
<1>1. /\ n # 0 /\ n \in DOMAIN entries_ /\ disk[path] = Missing
      /\ ParentPath(entry.storage, entry.parent) \in Paths
  BY DEF ObjectArrives, PendingInv, kInvalidObjectHandle
<1>2. /\ pending_handles_ = {n} /\ ~entry.dir /\ Storage[entry.storage].writable
      /\ \A h \in DOMAIN entries_ : entries_[h].path = path => h = n
      /\ n \notin unfiled
  BY <1>1 DEF ViewInv, UnderWay, kInvalidObjectHandle
<1>3. /\ entry.storage \in Storages /\ path \in Paths /\ entry.size \in Nat
      /\ ~Storage[entry.storage].virtual_root
  <2>1. entry \in Entry
    BY <1>1 DEF TypeOK
  <2>2. entry.storage \in Storages /\ path \in Paths /\ entry.size \in Nat
    BY <2>1 DEF Entry
  <2> QED
    BY <1>2, <2>2, StorageAssumption
<1>4. DOMAIN Kept = DOMAIN entries_ \ {n} /\ \A h \in DOMAIN Kept : Kept[h] = entries_[h]
  BY <1>2, KeptIs DEF ViewInv
<1>5. InPlace(n)
  BY <1>1 DEF ViewInv, PlaceInv
<1>6. /\ entry.parent = 0 => Up[path] = Storage[entry.storage].path
      /\ entry.parent # 0 =>
            /\ entry.parent \in DOMAIN entries_ /\ entry.parent \in DOMAIN Kept
            /\ entries_[entry.parent].dir
            /\ entries_[entry.parent].storage = entry.storage
            /\ entries_[entry.parent].path = Up[path]
  BY <1>2, <1>3, <1>4, <1>5 DEF InPlace
<1>7. /\ Up[path] \in Paths /\ Up[path] = ParentPath(entry.storage, entry.parent)
  BY <1>1, <1>4, <1>6 DEF ParentPath
<1>8. /\ pending_handles_' = {} /\ mSendObjectHandle' = 0 /\ scanned' = scanned
      /\ early \subseteq early'
      /\ DOMAIN entries_' = DOMAIN entries_
      /\ \A h \in DOMAIN Kept : entries_'[h] = entries_[h]
      /\ entries_'[n].path = path /\ entries_'[n].storage = entry.storage
      /\ entries_'[n].parent = entry.parent /\ ~entries_'[n].dir /\ entries_'[n].size = entry.size
  <2>1. entries_[n] \in Entry
    BY <1>1 DEF TypeOK
  <2>2. entries_' = entries_ \/ entries_' = [entries_ EXCEPT ![n].scanned = TRUE]
    BY DEF ObjectArrives, PackageArrives, FileArrives, FileIsInstalled
  <2>3. \A h \in DOMAIN Kept : entries_'[h] = entries_[h]
    BY <1>4, <2>2
  <2>4. DOMAIN entries_' = DOMAIN entries_
    BY <2>2
  <2>5. /\ entries_'[n].path = path /\ entries_'[n].storage = entry.storage
        /\ entries_'[n].parent = entry.parent /\ ~entries_'[n].dir
        /\ entries_'[n].size = entry.size
    BY <1>1, <1>2, <2>1, <2>2 DEF Entry
  <2>6. pending_handles_' = {} /\ mSendObjectHandle' = 0 /\ scanned' = scanned
    BY <1>2 DEF ObjectArrives, kInvalidObjectHandle
  <2>7. early \subseteq early'
    BY DEF ObjectArrives, PackageArrives, FileArrives, FileIsInstalled
  <2> QED
    BY <2>3, <2>4, <2>5, <2>6, <2>7
<1>9. \/ (Storage[entry.storage].action \/ n \in unfiled') /\ disk' = disk
      \/ /\ ~Storage[entry.storage].action /\ unfiled' = unfiled
         /\ disk' = [disk EXCEPT ![path] = File(entry.size)]
         /\ early' = early \cup Early(entry.storage, entry.parent)
  BY DEF ObjectArrives, PackageArrives, FileArrives, FileIsInstalled
<1>17. /\ edited' = edited
       /\ \A h \in DOMAIN Kept : h \in unfiled' <=> h \in unfiled
  BY <1>4 DEF ObjectArrives, PackageArrives, FileArrives, FileIsInstalled, editVars
<1>10. /\ Storage[entry.storage].action \/ n \in unfiled' => disk'[path] = Missing
       /\ ~Storage[entry.storage].action /\ n \notin unfiled' =>
             /\ disk'[path] = File(entry.size)
             /\ early' = early \cup Early(entry.storage, entry.parent)
       /\ disk'[path] # Directory
       /\ \A p \in Paths : p # path => disk'[p] = disk[p]
  <2>1. disk \in [Paths -> Node] /\ Missing # Directory /\ File(entry.size) # Directory
    BY DEF TypeOK, Missing, Directory, File
  <2> HIDE DEF n, entry
  <2> QED
    BY <1>1, <1>2, <1>3, <1>9, <2>1
<1> HIDE DEF n
<1>11. SeedsInv' /\ UnderWay'
  <2>1. \A seed \in Seeds : disk'[seed.path] = Directory
    <3>1. \A seed \in Seeds : seed.path \in Paths /\ disk[seed.path] = Directory
      BY StorageAssumption DEF ViewInv, SeedsInv
    <3>2. Missing # Directory
      BY DEF Missing, Directory
    <3> QED
      BY <1>1, <1>10, <3>1, <3>2
  <2> QED
    BY <1>8, <2>1 DEF ViewInv, SeedsInv, UnderWay, kInvalidObjectHandle
<1>12. PlaceInv'
  <2>1. \A h \in DOMAIN entries_ :
            /\ entries_'[h].storage = entries_[h].storage /\ entries_'[h].path = entries_[h].path
            /\ entries_'[h].parent = entries_[h].parent /\ (entries_'[h].dir <=> entries_[h].dir)
    BY <1>2, <1>4, <1>8
  <2> SUFFICES ASSUME NEW h \in DOMAIN entries_' PROVE InPlace(h)'
    BY DEF PlaceInv
  <2>2. h \in DOMAIN entries_ /\ InPlace(h)
    BY <1>8 DEF ViewInv, PlaceInv
  <2> QED
    BY <1>8, <2>1, <2>2 DEF InPlace
<1>13. OthersStay(path)
  <2> DEFINE q == path
  <2>1. /\ n # 0 /\ n \notin DOMAIN Kept
        /\ DOMAIN entries_' = DOMAIN Kept \cup {n}
        /\ \A h \in DOMAIN Kept : entries_'[h] = entries_[h] /\ entries_[h].path # q
        /\ entries_'[n].path = q /\ ~(entries_'[n].dir /\ entries_'[n].scanned)
        /\ scanned' = scanned /\ early \subseteq early'
        /\ edited' = edited /\ \A h \in DOMAIN Kept : h \in unfiled' <=> h \in unfiled
        /\ \A p \in Paths : p # q => disk'[p] = disk[p]
    BY <1>1, <1>2, <1>4, <1>8, <1>10, <1>17
  <2> HIDE DEF q
  <2>2. OthersStay(q)
    BY <2>1, OthersKept
  <2> QED
    BY <2>2 DEF q
<1>14. AgreeInv'
  <2>1. ASSUME NEW h, h = n PROVE Agrees(h)'
    <3>1. File(entry.size) \notin {Missing, Directory}
      BY DEF File, Missing, Directory
    <3> QED
      BY <1>8, <1>10, <2>1, <3>1 DEF Agrees, Installed
  <2>2. \A h \in DOMAIN Kept : Agrees(h)'
    BY <1>13 DEF OthersStay
  <2> QED
    BY <1>4, <1>8, <2>1, <2>2 DEF AgreeInv
<1>15. SentInv'
  <2>1. \/ IF entry.parent = 0 THEN entry.storage \in scanned'
           ELSE entries_'[entry.parent].scanned
        \/ Storage[entry.storage].action \/ n \in unfiled'
        \/ <<entry.storage, Up[path]>> \in early'
    BY <1>4, <1>6, <1>7, <1>8, <1>10 DEF Early, IsRead
  <2>2. ASSUME NEW h, h = n
        PROVE  \/ WasRead(entries_[h].storage, entries_[h].parent)'
               \/ Installed(h)'
               \/ <<entries_'[h].storage, Up[entries_'[h].path]>> \in early'
    BY <1>8, <2>1, <2>2 DEF WasRead, Installed
  <2> QED
    BY <1>4, <1>8, <1>13, <2>2 DEF OthersStay, SentInv
<1>16. ListingIsComplete'
  <2> SUFFICES ASSUME NEW d \in ReadDirectories', NEW p \in Children(d.path)'
               PROVE  \/ EarlyAbove(d.storage, d.path)'
                      \/ \E h \in DOMAIN entries_' :
                            /\ entries_'[h].path = p
                            /\ \/ /\ entries_'[h].storage = d.storage
                                  /\ entries_'[h].parent = d.parent
                               \/ /\ entries_'[h].storage # d.storage
                                  /\ Storage[entries_'[h].storage].writable
    BY DEF ListingIsComplete
  <2>1. CASE p # path
    BY <1>13, <2>1 DEF OthersStay
  <2>2. CASE p = path
    <3>1. d \in ReadDirectories
      BY <1>13 DEF OthersStay
    <3>2. n \in DOMAIN entries_'
      BY <1>1, <1>8
    <3> DEFINE s == entry.storage
               parent == entry.parent
    <3>3. /\ s \in Storages /\ Storage[s].writable /\ ~Storage[s].virtual_root
          /\ Up[p] \in Paths
          /\ parent = 0 => Up[p] = Storage[s].path
          /\ parent # 0 =>
                /\ parent \in DOMAIN entries_
                /\ entries_[parent].storage = s /\ entries_[parent].path = Up[p]
          /\ entries_'[n].storage = s /\ entries_'[n].parent = parent /\ entries_'[n].path = p
      BY <1>2, <1>3, <1>6, <1>7, <1>8, <2>2
    <3> HIDE DEF s, parent
    <3> QED
      BY <1>8, <3>1, <3>2, <3>3, MadeIsListed
  <2> QED
    BY <2>1, <2>2
<1> QED
  BY <1>11, <1>12, <1>13, <1>14, <1>15, <1>16 DEF OthersStay, ViewInv
-----------------------------------------------------------------------------
(* A session begins with the mounted saves. *)
LEMMA SeedsPlace ==
    /\ \A h \in DOMAIN SeedEntries :
          /\ h # 0 /\ SeedEntries[h].storage \in Storages
          /\ Storage[SeedEntries[h].storage].virtual_root
          /\ ~Storage[SeedEntries[h].storage].action
          /\ SeedEntries[h].parent = 0 /\ SeedEntries[h].dir /\ ~SeedEntries[h].scanned
          /\ Up[SeedEntries[h].path] = NoPath
          /\ \E seed \in Seeds : SeedEntries[h].path = seed.path
    /\ \A g, h \in DOMAIN SeedEntries :
          /\ SeedEntries[g].storage = SeedEntries[h].storage
          /\ SeedEntries[g].path = SeedEntries[h].path
          => g = h
<1> DEFINE f == [seed \in Seeds |-> SeedEntry(seed)]
           T == {SeedEntry(seed) : seed \in Seeds}
<1>1. f \in Surjection(Seeds, T)
  BY DEF Surjection
<1>2. IsFiniteSet(T)
  <2>1. IsFiniteSet(Seeds)
    BY StorageAssumption
  <2> HIDE DEF f, T
  <2> QED
    BY <2>1, <1>1, FS_Surjection
<1>3. SeedEntries = Numbering(T, 1)
  BY DEF SeedEntries
<1>4. \A e \in T : \E seed \in Seeds : e = SeedEntry(seed)
  OBVIOUS
<1> HIDE DEF T
<1>5. /\ \A h \in DOMAIN SeedEntries : SeedEntries[h] \in T
      /\ \A g, h \in DOMAIN SeedEntries : SeedEntries[g] = SeedEntries[h] => g = h
  BY <1>2, <1>3, NumberingType, NumberingOnto
<1>6. ASSUME NEW h \in DOMAIN SeedEntries
      PROVE  /\ h # 0 /\ SeedEntries[h].storage \in Storages
             /\ Storage[SeedEntries[h].storage].virtual_root
             /\ ~Storage[SeedEntries[h].storage].action
             /\ SeedEntries[h].parent = 0 /\ SeedEntries[h].dir /\ ~SeedEntries[h].scanned
             /\ Up[SeedEntries[h].path] = NoPath
             /\ \E seed \in Seeds : SeedEntries[h].path = seed.path
  <2>1. PICK seed \in Seeds : SeedEntries[h] = SeedEntry(seed)
    BY <1>4, <1>5
  <2>2. /\ seed.storage \in Storages /\ Storage[seed.storage].virtual_root
        /\ Up[seed.path] = NoPath
    BY StorageAssumption
  <2>3. ~Storage[seed.storage].action
    BY <2>2, StorageAssumption
  <2>4. h # 0
    BY SeedsType
  <2> QED
    BY <2>1, <2>2, <2>3, <2>4 DEF SeedEntry
<1>7. ASSUME NEW g \in DOMAIN SeedEntries, NEW h \in DOMAIN SeedEntries,
             SeedEntries[g].storage = SeedEntries[h].storage,
             SeedEntries[g].path = SeedEntries[h].path
      PROVE  g = h
  <2>1. PICK sg \in Seeds : SeedEntries[g] = SeedEntry(sg)
    BY <1>4, <1>5
  <2>2. PICK sh \in Seeds : SeedEntries[h] = SeedEntry(sh)
    BY <1>4, <1>5
  <2>3. sg.storage = sh.storage /\ sg.path = sh.path
    BY <1>7, <2>1, <2>2 DEF SeedEntry
  <2>4. SeedEntry(sg) = SeedEntry(sh)
    BY <2>3 DEF SeedEntry
  <2> QED
    BY <1>5, <2>1, <2>2, <2>4
<1> QED
  BY <1>6, <1>7

LEMMA InitView == Init => ViewInv
<1> SUFFICES ASSUME Init PROVE ViewInv
  OBVIOUS
<1>1. /\ entries_ = SeedEntries /\ pending_handles_ = {} /\ mSendObjectHandle = 0
      /\ disk = Disk
      /\ scanned = {s \in Storages : Storage[s].virtual_root \/ Storage[s].action}
  BY DEF Init, kInvalidObjectHandle
<1>2. SeedsInv /\ UnderWay
  BY <1>1, StorageAssumption DEF SeedsInv, UnderWay, kInvalidObjectHandle
<1>3. PlaceInv
  BY <1>1, SeedsPlace DEF PlaceInv, InPlace
<1>8. \A h \in DOMAIN SeedEntries : ~Installed(h)
  BY <1>1, SeedsPlace DEF Init, Installed
<1>4. AgreeInv
  <2> SUFFICES ASSUME NEW h \in DOMAIN SeedEntries PROVE Agrees(h)
    BY <1>1 DEF AgreeInv
  <2>1. disk[SeedEntries[h].path] = Directory
    BY <1>2, SeedsPlace DEF SeedsInv
  <2> QED
    BY <1>1, <1>8, <2>1, SeedsPlace DEF Agrees
<1>5. SentInv
  BY <1>1, SeedsPlace DEF SentInv, WasRead
<1>6. UniqueInv
  BY <1>1, SeedsPlace DEF UniqueInv
<1>7. ListingIsComplete
  <2>1. ReadDirectories = {}
    BY <1>1, SeedsPlace DEF ReadDirectories
  <2> QED
    BY <2>1 DEF ListingIsComplete
<1> QED
  BY <1>2, <1>3, <1>4, <1>5, <1>6, <1>7 DEF ViewInv

LEMMA OpenKeepsView == ViewInv /\ OpenSession => ViewInv'
<1> SUFFICES ASSUME ViewInv, OpenSession PROVE ViewInv'
  OBVIOUS
<1>1. /\ entries_' = SeedEntries /\ pending_handles_' = {} /\ mSendObjectHandle' = 0
      /\ disk' = disk /\ scanned' = {s \in Storages : Storage[s].virtual_root}
  BY DEF OpenSession, kInvalidObjectHandle
<1>2. SeedsInv' /\ UnderWay'
  BY <1>1 DEF ViewInv, SeedsInv, UnderWay, kInvalidObjectHandle
<1>3. PlaceInv'
  BY <1>1, SeedsPlace DEF PlaceInv, InPlace
<1>8. \A h \in DOMAIN SeedEntries : ~Installed(h)'
  BY <1>1, SeedsPlace DEF OpenSession, Installed
<1>4. AgreeInv'
  <2> SUFFICES ASSUME NEW h \in DOMAIN SeedEntries PROVE Agrees(h)'
    BY <1>1 DEF AgreeInv
  <2>1. disk'[SeedEntries[h].path] = Directory
    BY <1>2, SeedsPlace DEF SeedsInv
  <2> QED
    BY <1>1, <1>8, <2>1, SeedsPlace DEF Agrees
<1>5. SentInv'
  BY <1>1, SeedsPlace DEF SentInv, WasRead
<1>6. UniqueInv'
  BY <1>1, SeedsPlace DEF UniqueInv
<1>7. ListingIsComplete'
  <2>1. ReadDirectories' = {}
    BY <1>1, SeedsPlace DEF ReadDirectories
  <2> QED
    BY <2>1 DEF ListingIsComplete
<1> QED
  BY <1>2, <1>3, <1>4, <1>5, <1>6, <1>7 DEF ViewInv

LEMMA ViewPreserved == IndInv /\ ViewInv /\ [Next]_vars => ViewInv'
<1> SUFFICES ASSUME IndInv, ViewInv, [Next]_vars PROVE ViewInv'
  OBVIOUS
<1> USE DEF IndInv
<1>1. CASE OpenSession
  BY <1>1, OpenKeepsView
<1>2. CASE OtherRequest \/ CloseSession \/ ObjectFails \/ EditStep
  BY <1>2, DropSteps, DropsKeepView
<1>3. CASE GetObjectHandles
  BY <1>3, ListingReads, ReadsKeepView
<1>4. CASE SendObjectInfo
  <2>1. PICK s \in Storages, parent \in Handles \cup {0}, item \in Sendable :
            \/ CreateDirectory(s, parent, item)
            \/ AnnounceFile(s, parent, item)
            \/ AnnounceFails(s, parent, item)
    BY <1>4 DEF SendObjectInfo
  <2>2. CASE CreateDirectory(s, parent, item)
    BY <2>2, CreateKeepsView
  <2>3. CASE AnnounceFile(s, parent, item)
    BY <2>3, AnnounceKeepsView
  <2>4. CASE AnnounceFails(s, parent, item)
    BY <2>4, DropSteps, DropsKeepView
  <2> QED
    BY <2>1, <2>2, <2>3, <2>4
<1>5. CASE ObjectArrives
  BY <1>5, ArrivalKeepsView
<1>6. CASE UNCHANGED vars
  <2> USE <1>6 DEF vars, editVars, sinkVars
  <2>1. SeedsInv' /\ UnderWay' /\ PlaceInv'
    BY DEF ViewInv, SeedsInv, UnderWay, PlaceInv, InPlace
  <2>2. AgreeInv' /\ SentInv' /\ UniqueInv'
    BY DEF ViewInv, AgreeInv, Agrees, Installed, SentInv, WasRead, UniqueInv, EarlyAbove
  <2>3. ListingIsComplete'
    BY DEF ViewInv, ListingIsComplete, ReadDirectories, Children, EarlyAbove
  <2> QED
    BY <2>1, <2>2, <2>3 DEF ViewInv
<1> QED
  BY <1>1, <1>2, <1>3, <1>4, <1>5, <1>6 DEF Next

(* The inductive invariant of the view: where every object is, what the disk *)
(* holds of it, and that what was read stays read.                           *)
THEOREM ViewInductive == Spec => [](IndInv /\ ViewInv)
<1>1. IndInv /\ ViewInv /\ [Next]_vars => (IndInv /\ ViewInv)'
  BY TypePreserved, HandlesPreserved, PendingPreserved, OutsidePreserved, ViewPreserved
     DEF IndInv
<1>2. Init => IndInv /\ ViewInv
  BY InitInd, InitView
<1> QED
  BY <1>1, <1>2, PTL DEF Spec

(* What the PC is told of a file or directory is what the disk holds:        *)
(* endSendObject takes the entry of a failed transfer away, and of a file    *)
(* that has an entry only an edit changes the size.  A sink that was left    *)
(* over is the one way to an entry without a file.                           *)
THEOREM EntriesAgree == Spec => []EntriesAgreeWithDisk
<1>1. IndInv /\ ViewInv => EntriesAgreeWithDisk
  BY DEF ViewInv, AgreeInv, Agrees, Installed, EntriesAgreeWithDisk
<1> QED
  BY <1>1, ViewInductive, PTL

(* scan() reads a directory once, and beginSendObject enters what is made in *)
(* it afterwards: nothing is missing from a listing.                         *)
THEOREM ListingsComplete == Spec => []ListingIsComplete
<1>1. IndInv /\ ViewInv => ListingIsComplete
  BY DEF ViewInv
<1> QED
  BY <1>1, ViewInductive, PTL

(* The objects of a storage form a tree, unless something was sent into a    *)
(* directory before that was read.                                           *)
THEOREM ObjectsAreTrees == Spec => []ObjectsFormTrees
<1>1. IndInv /\ ViewInv => ObjectsFormTrees
  <2> SUFFICES ASSUME ViewInv PROVE ObjectsFormTrees
    OBVIOUS
  <2>1. \A h \in DOMAIN entries_ : InPlace(h)
    BY DEF ViewInv, PlaceInv
  <2>2. \A h \in DOMAIN entries_ :
            /\ Objects(entries_)[h].storage = entries_[h].storage
            /\ Objects(entries_)[h].path = entries_[h].path
    BY DEF Objects
  <2>3. ASSUME NEW g \in DOMAIN entries_, NEW h \in DOMAIN entries_,
               g # h, Objects(entries_)[g] = Objects(entries_)[h]
        PROVE  EarlyAbove(entries_[g].storage, entries_[g].path)
    <3>1. entries_[g].storage = entries_[h].storage /\ entries_[g].path = entries_[h].path
      BY <2>2, <2>3
    <3> QED
      BY <2>3, <3>1 DEF ViewInv, UniqueInv
  <2> QED
    BY <2>1, <2>3 DEF ObjectsFormTrees, InPlace
<1> QED
  BY <1>1, ViewInductive, PTL

(* doSendObjectInfo and doSendObject make only what beginSendObject let      *)
(* through, where nothing was, below the root of a writable storage; the     *)
(* edit operations change only a file that is open, and leave it a file.     *)
THEOREM OnlySendingOrEditing == Spec => OnlySentOrEdited
<1> DEFINE Allowed ==
        \A p \in Paths : disk'[p] # disk[p] =>
            \/ disk[p] = Missing /\ p \in WritablePaths
            \/ /\ \E edit \in mObjectEditList : edit.path = p
               /\ p \notin Frozen
               /\ {disk[p], disk'[p]} \cap {Missing, Directory} = {}
<1>1. IndInv /\ ViewInv /\ [Next]_vars => Allowed
  <2> SUFFICES ASSUME IndInv, ViewInv, [Next]_vars, NEW p \in Paths, disk'[p] # disk[p]
               PROVE  \/ disk[p] = Missing /\ p \in WritablePaths
                      \/ /\ \E edit \in mObjectEditList : edit.path = p
                         /\ p \notin Frozen
                         /\ {disk[p], disk'[p]} \cap {Missing, Directory} = {}
    OBVIOUS
  <2> USE DEF IndInv
  <2>1. CASE OpenSession \/ CloseSession \/ OtherRequest \/ ObjectFails \/ GetObjectHandles
             \/ UNCHANGED vars
    BY <2>1 DEF OpenSession, CloseSession, OtherRequest, ObjectFails, GetObjectHandles,
                ListRoots, ListDirectory, Scan, vars
  <2>2. CASE SendObjectInfo
    <3>1. PICK s \in Storages, parent \in Handles \cup {0}, item \in Sendable :
              \/ CreateDirectory(s, parent, item)
              \/ AnnounceFile(s, parent, item)
              \/ AnnounceFails(s, parent, item)
      BY <2>2 DEF SendObjectInfo
    <3>2. CASE CreateDirectory(s, parent, item)
      <4>1. /\ item.path \in Paths /\ Storage[s].writable /\ ~Storage[s].action
            /\ disk[item.path] = Missing
            /\ Storage[s].path \in Ancestors[item.path]
        BY <3>2, SendPlace DEF CreateDirectory, TakesHandle
      <4>2. item.path \in WritablePaths
        BY <4>1 DEF WritablePaths
      <4> QED
        BY <3>2, <4>1, <4>2 DEF CreateDirectory, TypeOK
    <3> QED
      BY <3>1, <3>2 DEF AnnounceFile, AnnounceFails
  <2>3. CASE ObjectArrives
    <3> DEFINE entry == entries_[mSendObjectHandle]
    <3>1. /\ mSendObjectHandle \in DOMAIN entries_ /\ Storage[entry.storage].writable
          /\ disk[entry.path] = Missing
      BY <2>3 DEF ObjectArrives, PendingInv, ViewInv, UnderWay
    <3>2. entry.path \in Paths /\ entry.storage \in Storages
      BY <3>1 DEF TypeOK, Entry
    <3>3. Storage[entry.storage].path \in Ancestors[entry.path]
      BY <3>1, <3>2, StorageAssumption DEF ViewInv, PlaceInv, InPlace
    <3>4. ~Storage[entry.storage].action => entry.path \in WritablePaths
      BY <3>1, <3>2, <3>3 DEF WritablePaths
    <3>5. \/ disk' = disk
          \/ ~Storage[entry.storage].action /\ disk' = [disk EXCEPT ![entry.path] = File(entry.size)]
      BY <2>3 DEF ObjectArrives, PackageArrives, FileArrives, FileIsInstalled
    <3> QED
      BY <3>1, <3>2, <3>4, <3>5 DEF TypeOK
  <2>4. CASE EditStep
    <3>1. PICK edit \in mObjectEditList : \E size \in EditSizes : disk' = [disk EXCEPT ![edit.path] = File(size)]
      BY <2>4 DEF EditStep, BeginEditObject, TruncateObject, SendPartialObject, Edit, EndEditObject
    <3>2. p = edit.path
      BY <3>1 DEF TypeOK
    <3>3. disk[p] \notin {Missing, Directory} /\ p \notin Frozen
      BY <3>2 DEF OutsideInv
    <3> QED
      BY <3>2, <3>3, FilesStay
  <2> QED
    BY <2>1, <2>2, <2>3, <2>4 DEF Next
<1>2. IndInv /\ ViewInv /\ [Next]_vars => [Allowed]_vars
  BY <1>1
<1> HIDE DEF Allowed
<1>3. Spec => [][Allowed]_vars
  BY ViewInductive, <1>2, PTL DEF Spec
<1> QED
  BY <1>3 DEF OnlySentOrEdited, Allowed

-----------------------------------------------------------------------------
(* How a file is sent. *)

(* A set of natural numbers that is not empty has a least element. *)
LEMMA Least ==
    ASSUME NEW T \in SUBSET Nat, T # {}
    PROVE  \E x \in T : \A y \in T : x <= y
<1> DEFINE R == {ss \in Nat \X Nat : ss[1] < ss[2]}
<1>1. IsWellFoundedOn(R, Nat)
  BY NatLessThanWellFounded DEF OpToRel
<1>2. \E x \in T : \A y \in T : ~(<<y, x>> \in R)
  <2> HIDE DEF R
  <2> QED
    BY <1>1, WFMin
<1>3. PICK x \in T : \A y \in T : ~(<<y, x>> \in R)
  BY <1>2
<1>4. ASSUME NEW y \in T PROVE x <= y
  <2>1. <<y, x>> \in Nat \X Nat /\ <<y, x>>[1] = y /\ <<y, x>>[2] = x
    BY <1>3
  <2>2. ~(y < x)
    BY <1>3, <2>1
  <2> QED
    BY <2>2
<1> QED
  BY <1>4

(* send_file's loop sends every byte it is asked for, each block with room   *)
(* for at least one.                                                         *)
LEMMA SentIsAll ==
    ASSUME NEW n \in Nat
    PROVE  Sent(n) = n
<1> DEFINE Room(j) == IF j = 0 THEN BufferSize - HeaderSize ELSE BufferSize
           Block(j) == IF j + Room(j) < n THEN Room(j) ELSE n - j
           Step(f, j) == IF j + Block(j) < n THEN Block(j) + f[j + Block(j)] ELSE Block(j)
           F == CHOOSE f : f = [j \in 0..n |-> Step(f, j)]
           W == [j \in 0..n |-> n - j]
<1>1. \A j \in 0..n : Room(j) \in Nat \ {0}
  BY WidthAssumption
<1>2. Sent(n) = F[0]
  BY DEF Sent
<1>3. \A j \in 0..n :
         /\ Block(j) \in Nat
         /\ j + Block(j) < n => Block(j) > 0 /\ j + Block(j) \in 0..n
         /\ ~(j + Block(j) < n) => Block(j) = n - j
  <2> HIDE DEF Room
  <2> QED
    BY <1>1
<1> HIDE DEF Room, Block
<1>4. \A j \in 0..n : Step(W, j) = n - j
  BY <1>3
<1>5. W = [j \in 0..n |-> Step(W, j)]
  BY <1>4
<1>6. F = [j \in 0..n |-> Step(F, j)]
  <2>1. \E f : f = [j \in 0..n |-> Step(f, j)]
    <3> HIDE DEF Step, W
    <3> QED
      BY <1>5
  <2> HIDE DEF Step
  <2> QED
    BY <2>1
<1> HIDE DEF F
<1>7. \A j \in 0..n : F[j] = Step(F, j)
  <2> HIDE DEF Step
  <2> QED
    BY <1>6
<1> DEFINE Wrong == {k \in 0..n : F[n - k] # k}
<1>8. CASE Wrong = {}
  <2>1. F[n - n] = n
    BY <1>8
  <2> QED
    BY <1>2, <2>1
<1>9. CASE Wrong # {}
  <2>1. PICK k \in Wrong : \A i \in Wrong : k <= i
    <3>1. Wrong \in SUBSET Nat
      OBVIOUS
    <3> HIDE DEF Wrong
    <3> QED
      BY <1>9, <3>1, Least
  <2> DEFINE j == n - k
  <2>2. j \in 0..n /\ k \in 0..n /\ F[j] # k
    BY <2>1
  <2>3. F[j] = IF j + Block(j) < n THEN Block(j) + F[j + Block(j)] ELSE Block(j)
    BY <1>7, <2>2
  <2>4. CASE j + Block(j) < n
    <3> DEFINE i == n - (j + Block(j))
    <3>1. i \in 0..n /\ i < k /\ n - i = j + Block(j)
      BY <1>3, <2>2, <2>4
    <3>2. i \notin Wrong
      BY <2>1, <2>2, <3>1
    <3>3. F[n - i] = i
      BY <3>1, <3>2
    <3>4. F[j] = Block(j) + i
      BY <2>3, <2>4, <3>1, <3>3
    <3> QED
      BY <1>3, <2>2, <3>4
  <2>5. CASE ~(j + Block(j) < n)
    BY <1>3, <2>2, <2>3, <2>5
  <2> QED
    BY <2>4, <2>5
<1> QED
  BY <1>8, <1>9

(* A length below 2 GiB survives the conversions to 32 bits, and so does the *)
(* length with the header before it.                                         *)
LEMMA Narrow ==
    ASSUME NEW n \in Nat, n < UIntSpan \div 2
    PROVE  /\ n < UIntSpan
           /\ UInt32(n) = n
           /\ Int32(n) = n
           /\ UInt32(n + HeaderSize) = n + HeaderSize
<1>1. UIntSpan \in Nat \ {0} /\ UIntSpan % 2 = 0
  BY WidthAssumption
<1>2. UIntSpan = 2 * (UIntSpan \div 2) /\ UIntSpan \div 2 \in Nat
  BY <1>1
<1> DEFINE half == UIntSpan \div 2
<1>3. HeaderSize \in Nat /\ HeaderSize <= half
  BY WidthAssumption
<1> HIDE DEF half
<1>4. n < UIntSpan /\ n + HeaderSize < UIntSpan
  BY <1>2, <1>3 DEF half
<1>5. \A k \in Nat : k < UIntSpan => k % UIntSpan = k
  BY <1>1
<1> QED
  BY <1>3, <1>4, <1>5 DEF UInt32, Int32

(* What is sent when the whole length asked for lies in the file. *)
LEMMA PieceIsWhole ==
    ASSUME NEW size \in Nat, size < UIntSpan \div 2,
           NEW offset \in Nat, NEW length \in Nat, offset + length <= size
    PROVE  IsWhole(Container(size, offset, length))
<1>1. length < UIntSpan \div 2
  BY WidthAssumption
<1>2. ActualSize(size, offset, length) = length
  <2>1. CASE offset >= size
    BY <2>1 DEF ActualSize
  <2>2. CASE offset < size
    <3>1. Int32(length) = length
      BY <1>1, Narrow
    <3> QED
      BY <2>2, <3>1 DEF ActualSize
  <2> QED
    BY <2>1, <2>2
<1>3. UInt32(length + HeaderSize) = length + HeaderSize /\ Sent(length) = length
  BY <1>1, Narrow, SentIsAll
<1> QED
  BY <1>2, <1>3 DEF IsWhole, Container

(* doGetPartialObject never asks send_file for more than there is. *)
LEMMA PartsAreWhole ==
    ASSUME NEW size \in Nat, size < UIntSpan \div 2,
           NEW offset \in 0..size, NEW length \in Nat
    PROVE  IsWhole(PartialContainer(size, size, offset, length))
<1>1. CASE offset + length > size
  <2>1. size - offset \in Nat /\ size - offset < UIntSpan \div 2
    BY WidthAssumption
  <2>2. PartialLength(size, offset, length) = size - offset
    BY <1>1, <2>1, Narrow DEF PartialLength
  <2>3. offset + (size - offset) <= size
    OBVIOUS
  <2>4. IsWhole(Container(size, offset, size - offset))
    BY <2>1, <2>3, PieceIsWhole
  <2> QED
    BY <2>2, <2>4 DEF PartialContainer
<1>2. CASE offset + length <= size
  BY <1>2, PieceIsWhole DEF PartialContainer, PartialLength
<1> QED
  BY <1>1, <1>2

(* doGetObject and doGetPartialObject announce exactly what send_file puts   *)
(* behind the header, for every file below 2 GiB that was not edited and     *)
(* every part that begins inside it: the size the database knows is the      *)
(* file's.                                                                   *)
THEOREM ReadsWhole == Spec => []ReadsAreWhole
<1>1. IndInv /\ ViewInv => ReadsAreWhole
  <2> SUFFICES ASSUME IndInv, ViewInv, NEW h \in DOMAIN entries_ \ (pending_handles_ \cup edited),
                      disk[entries_[h].path] \notin {Missing, Directory},
                      disk[entries_[h].path].size < UIntSpan \div 2
               PROVE  LET known == entries_[h].size
                          fileSize == disk[entries_[h].path].size
                      IN  /\ IsWhole(ObjectContainer(known, fileSize))
                          /\ \A offset \in 0..known, length \in 0..(UIntSpan - 1) :
                                IsWhole(PartialContainer(known, fileSize, offset, length))
    BY DEF ReadsAreWhole
  <2> DEFINE n == entries_[h].size
  <2>1. n \in Nat
    BY DEF IndInv, TypeOK, Entry
  <2>2. Agrees(h)
    BY DEF ViewInv, AgreeInv
  <2>3. disk[entries_[h].path] = File(n)
    BY <2>2 DEF Agrees
  <2>4. disk[entries_[h].path].size = n
    BY <2>3 DEF File
  <2>5. n < UIntSpan \div 2
    BY <2>4
  <2>6. IsWhole(ObjectContainer(n, n))
    BY <2>1, <2>5, PieceIsWhole DEF ObjectContainer
  <2>7. ASSUME NEW offset \in 0..n, NEW length \in 0..(UIntSpan - 1)
        PROVE  IsWhole(PartialContainer(n, n, offset, length))
    <3>1. length \in Nat
      BY WidthAssumption
    <3> QED
      BY <2>1, <2>5, <3>1, PartsAreWhole
  <2> QED
    BY <2>4, <2>6, <2>7
<1> QED
  BY <1>1, ViewInductive, PTL
=============================================================================

---------------------------- MODULE ObjectDatabase ----------------------------
(***************************************************************************)
(* The objects the MTP server shows to the PC: ReadOnlySdDatabase          *)
(* (switch_app/source/adapters/read_only_sd_database.cpp) under the        *)
(* requests MtpServer::handleRequest hands to it.                          *)
(*                                                                         *)
(* A handle stands for a path of a storage.  Directories are read when the *)
(* PC first asks for their children, and never again in the session; what  *)
(* the PC sends is entered when it is announced.  One request is one step: *)
(* the server thread is the only one that calls the database.  How the     *)
(* bytes of an object arrive is MtpReceive's subject; here an object that  *)
(* was announced arrives or does not.  Of a file that is edited in place   *)
(* the size is kept.                                                       *)
(***************************************************************************)
EXTENDS SendFile, FiniteSets

CONSTANTS
    Paths,        \* directories and files the disks may hold
    NoPath,
    Up,           \* [Paths -> Paths \cup {NoPath}], the directory of each path
    Staging,      \* .transferencia-switch-staging
    Disk,         \* what the disks hold at the start: [Paths -> Node]
    Storages,
    Storage,      \* [Storages -> [path, writable, virtual_root, action]]
    Seeds,        \* what addVirtualRootDirectory was given: [storage, path]
    Sendable,     \* what the PC may send: [path, dir, size]
    Frozen,       \* paths of file systems mounted so that nothing opens for writing
    EditSizes,    \* what an edit may make of the size of a file
    MaxEdits,     \* bounds the edits open at a time
    MaxHandle,    \* bounds the handles of a session
    FailingCalls  \* the calls that may fail, of FallibleCalls

FallibleCalls == {"opendir", "mkdir", "Receive"}

File(size) == [kind |-> "file", size |-> size]
Directory == [kind |-> "dir", size |-> 0]
Missing == [kind |-> "none", size |-> 0]
Node == {Missing, Directory} \cup [kind : {"file"}, size : Nat]

(* The directories a path lies in: those of every set that holds the one it  *)
(* is in and, with a directory, the one that is in.                          *)
Ancestors ==
    [p \in Paths |->
        {q \in Paths : \A S \in SUBSET Paths :
            Up[p] \in S \cup {NoPath} /\ (\A x \in S : Up[x] \in S \cup {NoPath}) => q \in S}]

ASSUME DiskAssumption ==
    /\ IsFiniteSet(Paths)
    /\ NoPath \notin Paths
    /\ Up \in [Paths -> Paths \cup {NoPath}]
    /\ Disk \in [Paths -> Node]
    /\ \A p \in Paths : Up[p] # NoPath /\ Disk[p] # Missing => Disk[Up[p]] = Directory
    /\ \A p \in Paths : p \notin Ancestors[p]

(* addVirtualStorage and addActionStorage leave no other combination; what   *)
(* addVirtualRootDirectory is given are the roots of mounted saves.          *)
ASSUME StorageAssumption ==
    /\ IsFiniteSet(Storages)
    /\ Storage \in [Storages -> [path: Paths \cup {NoPath}, writable: BOOLEAN,
                                 virtual_root: BOOLEAN, action: BOOLEAN]]
    /\ \A s \in Storages : IF Storage[s].virtual_root
                           THEN ~Storage[s].writable /\ ~Storage[s].action
                           ELSE Storage[s].path \in Paths
    /\ IsFiniteSet(Seeds)
    /\ Seeds \subseteq [storage: {s \in Storages : Storage[s].virtual_root}, path: Paths]
    /\ \A seed \in Seeds : Up[seed.path] = NoPath /\ Disk[seed.path] = Directory
    /\ Sendable \subseteq [path: Paths, dir: BOOLEAN, size: Nat]
    /\ Frozen \subseteq Paths

ASSUME BoundsAssumption ==
    /\ EditSizes \subseteq Nat
    /\ MaxEdits \in Nat
    /\ MaxHandle \in Nat
    /\ Cardinality(Seeds) <= MaxHandle
    /\ FailingCalls \subseteq FallibleCalls

VARIABLES
    disk,
    entries_,         \* [handles -> Entry]
    next_handle_,
    pending_handles_,
    scanned,          \* the storages whose root was read
    mSessionOpen,
    mSendObjectHandle,
    mSendObjectSink,  \* the server holds a sink
    mObjectEditList,  \* the files open for editing: [handle, path]
    (* History, read by no action. *)
    issued,           \* the storage and path each handle of the session was given for
    early,            \* directories something was sent into before they were read
    edited,           \* handles whose file was edited since they were given
    unfiled           \* handles of objects for a directory that went into a sink

editVars == <<mObjectEditList, edited>>
sinkVars == <<mSendObjectSink, unfiled>>
vars == <<disk, entries_, next_handle_, pending_handles_, scanned, mSessionOpen,
          mSendObjectHandle, issued, early, editVars, sinkVars>>

Handles == 1..MaxHandle
kInvalidObjectHandle == 0
Entry == [storage: Storages, parent: Handles \cup {0}, path: Paths, dir: BOOLEAN,
          size: Nat, scanned: BOOLEAN]
MayFail(call) == call \in FailingCalls

(* Handles from n on for the elements of a set, in some order. *)
Numbering(S, n) ==
    LET m == Cardinality(S)
        f == CHOOSE g \in [1..m -> S] : \A x \in S : \E i \in 1..m : g[i] = x
    IN  [h \in n..(n + m - 1) |-> f[h - n + 1]]

SeedEntry(seed) ==
    [storage |-> seed.storage, parent |-> 0, path |-> seed.path, dir |-> TRUE,
     size |-> 0, scanned |-> FALSE]
SeedEntries == Numbering({SeedEntry(seed) : seed \in Seeds}, 1)
Objects(entries) ==
    [h \in DOMAIN entries |-> [storage |-> entries[h].storage, path |-> entries[h].path]]

(* run_mtp registers the storages before the first session. *)
Init ==
    /\ disk = Disk
    /\ entries_ = SeedEntries
    /\ next_handle_ = Cardinality(Seeds) + 1
    /\ pending_handles_ = {}
    /\ scanned = {s \in Storages : Storage[s].virtual_root \/ Storage[s].action}
    /\ mSessionOpen = FALSE
    /\ mSendObjectHandle = kInvalidObjectHandle
    /\ mSendObjectSink = FALSE
    /\ mObjectEditList = {}
    /\ issued = Objects(SeedEntries)
    /\ early = {}
    /\ edited = {}
    /\ unfiled = {}

-----------------------------------------------------------------------------
(* handleRequest: any request but SendObject first drops the object that was *)
(* announced, through endSendObject(..., false).  Its sink stays.             *)

With(entries, added) ==
    [h \in DOMAIN entries \cup DOMAIN added |->
        IF h \in DOMAIN entries THEN entries[h] ELSE added[h]]
Without(entries, gone) == [h \in DOMAIN entries \ gone |-> entries[h]]
(* Mutant of Dropped: the entry of the dropped object stays. *)
NothingDropped == {}

Dropped == {mSendObjectHandle} \cap pending_handles_
Kept == Without(entries_, Dropped)
StillPending == pending_handles_ \ {mSendObjectHandle}

Drop ==
    /\ pending_handles_' = StillPending
    /\ mSendObjectHandle' = kInvalidObjectHandle

(* Any request that changes no object: GetObjectInfo, GetObject, a listing    *)
(* that has nothing to read, and those that are refused.                      *)
OtherRequest ==
    /\ Drop
    /\ entries_' = Kept
    /\ UNCHANGED <<disk, next_handle_, scanned, mSessionOpen, issued, early, editVars, sinkVars>>

(* doOpenSession, sessionStarted.  Edits and a sink outlive the session. *)
OpenSession ==
    /\ ~mSessionOpen
    /\ mSessionOpen' = TRUE
    /\ entries_' = SeedEntries
    /\ pending_handles_' = {}
    /\ next_handle_' = Cardinality(Seeds) + 1
    /\ scanned' = {s \in Storages : Storage[s].virtual_root}
    /\ mSendObjectHandle' = kInvalidObjectHandle
    /\ issued' = Objects(SeedEntries)
    /\ early' = {}
    /\ edited' = {}
    /\ unfiled' = {}
    /\ UNCHANGED <<disk, mSendObjectSink, mObjectEditList>>

(* Mutant of EndsWithSession: every object goes. *)
EverythingEnds(entry) == TRUE

EndsWithSession(entry) == Storage[entry.storage].action

(* doCloseSession, sessionEnded: installed packages were objects until now. *)
CloseSession ==
    /\ mSessionOpen
    /\ mSessionOpen' = FALSE
    /\ Drop
    /\ entries_' = Without(Kept, {h \in DOMAIN Kept : EndsWithSession(Kept[h])})
    /\ UNCHANGED <<disk, next_handle_, scanned, issued, early, editVars, sinkVars>>

-----------------------------------------------------------------------------
(* getObjectList and scan. *)

(* Mutant of RootsToScan: a root is read whenever it is listed. *)
RootsToScanAgain(storages) ==
    {[storage |-> s, parent |-> 0, path |-> Storage[s].path] :
        s \in {s \in storages : ~Storage[s].virtual_root}}

(* The directories a listing has to read first: the root of a storage, or of *)
(* every storage, or the directory behind a handle.                          *)
RootsToScan(storages) ==
    {[storage |-> s, parent |-> 0, path |-> Storage[s].path] : s \in storages \ scanned}

DirectoryToScan(h) ==
    {[storage |-> Kept[x].storage, parent |-> x, path |-> Kept[x].path] :
        x \in {x \in DOMAIN Kept : x = h /\ Kept[x].dir /\ ~Kept[x].scanned}}

(* readdir, without the staging directory. *)
Children(dir) == {p \in Paths \ {Staging} : Up[p] = dir /\ disk[p] # Missing}

(* The root of an action storage is no directory: nothing is read. *)
IsActionRoot(target) == target.parent = 0 /\ Storage[target.storage].action

Found(target) ==
    IF IsActionRoot(target)
    THEN {}
    ELSE {[storage |-> target.storage, parent |-> target.parent, path |-> p,
           dir |-> disk[p] = Directory, size |-> disk[p].size, scanned |-> FALSE] :
             p \in Children(target.path)}

Scan(targets) ==
    /\ targets # {}
    /\ \E opened \in SUBSET targets :
          /\ \A t \in targets \ opened : MayFail("opendir") /\ ~IsActionRoot(t)
          /\ LET found == UNION {Found(t) : t \in opened}
                 added == Numbering(found, next_handle_)
                 read == {t.parent : t \in opened}
                 marked == [h \in DOMAIN Kept |->
                              [Kept[h] EXCEPT !.scanned = @ \/ h \in read]]
             IN  /\ next_handle_ + Cardinality(found) <= MaxHandle + 1
                 /\ entries_' = With(marked, added)
                 /\ next_handle_' = next_handle_ + Cardinality(found)
                 /\ issued' = With(issued, Objects(added))
                 /\ scanned' = scanned \cup {t.storage : t \in {u \in opened : u.parent = 0}}
    /\ Drop
    /\ UNCHANGED <<disk, mSessionOpen, early, editVars, sinkVars>>

ListRoots(storages) == mSessionOpen /\ Scan(RootsToScan(storages))
ListDirectory(h) == mSessionOpen /\ Scan(DirectoryToScan(h))

-----------------------------------------------------------------------------
(* beginSendObject, endSendObject. *)

(* The directory of a storage a parent handle names; none if it is not one. *)
ParentPath(s, parent) ==
    IF parent = 0 THEN Storage[s].path
    ELSE IF parent \in DOMAIN Kept /\ Kept[parent].storage = s /\ Kept[parent].dir
         THEN Kept[parent].path ELSE NoPath

IsRead(s, parent) == IF parent = 0 THEN s \in scanned ELSE Kept[parent].scanned

(* Mutant of CanSend: what is there, and not listed, is not looked for. *)
CanSendUnseen(s, parent, item) ==
    /\ Storage[s].writable
    /\ item.dir => ~Storage[s].action
    /\ Up[item.path] # NoPath /\ Up[item.path] = ParentPath(s, parent)
    /\ \A h \in DOMAIN Kept : Kept[h].path # item.path

CanSend(s, parent, item) ==
    /\ Storage[s].writable
    /\ item.dir => ~Storage[s].action
    /\ Up[item.path] # NoPath /\ Up[item.path] = ParentPath(s, parent)
    /\ disk[item.path] = Missing
    /\ \A h \in DOMAIN Kept : Kept[h].path # item.path

(* Mutant of FreshHandle: one more than there are objects. *)
HandleByCount == Cardinality(DOMAIN Kept) + 1

FreshHandle == next_handle_

Announced(s, parent, item) ==
    [h \in {FreshHandle} |->
        [storage |-> s, parent |-> parent, path |-> item.path, dir |-> item.dir,
         size |-> item.size, scanned |-> FALSE]]

(* A handle is taken, whatever becomes of the object. *)
TakesHandle(s, parent, item) ==
    /\ next_handle_ <= MaxHandle
    /\ CanSend(s, parent, item)
    /\ next_handle_' = next_handle_ + 1
    /\ issued' = With(issued, Objects(Announced(s, parent, item)))

Early(s, parent) == IF IsRead(s, parent) THEN {} ELSE {<<s, ParentPath(s, parent)>>}

(* doSendObjectInfo for a directory: no SendObject follows. *)
CreateDirectory(s, parent, item) ==
    /\ item.dir
    /\ TakesHandle(s, parent, item)
    /\ disk' = [disk EXCEPT ![item.path] = Directory]
    /\ entries_' = With(Kept, Announced(s, parent, [item EXCEPT !.size = 0]))
    /\ early' = early \cup Early(s, parent)
    /\ Drop
    /\ UNCHANGED <<scanned, mSessionOpen, editVars, sinkVars>>

(* ... for a file: it is pending until SendObject.  A package gets a sink, in *)
(* place of one that was there.                                               *)
AnnounceFile(s, parent, item) ==
    /\ ~item.dir
    /\ TakesHandle(s, parent, item)
    /\ entries_' = With(Kept, Announced(s, parent, item))
    /\ pending_handles_' = StillPending \cup {FreshHandle}
    /\ mSendObjectHandle' = FreshHandle
    /\ mSendObjectSink' = (mSendObjectSink \/ Storage[s].action)
    /\ UNCHANGED <<disk, scanned, mSessionOpen, early, editVars, unfiled>>

(* ... mkdir, the staging directory (which a sink makes unnecessary) or the   *)
(* new sink fails: the handle is lost.                                        *)
AnnounceFails(s, parent, item) ==
    /\ MayFail("mkdir")
    /\ mSendObjectSink => item.dir \/ Storage[s].action
    /\ TakesHandle(s, parent, item)
    /\ entries_' = Kept
    /\ mSendObjectSink' = (mSendObjectSink /\ ~Storage[s].action)
    /\ Drop
    /\ UNCHANGED <<disk, scanned, mSessionOpen, early, editVars, unfiled>>

(* doSendObject, when every byte has arrived, ended well: the package was    *)
(* installed, or the file was renamed, and endSendObject asks the disk for    *)
(* its size.  A sink that was left over takes an object that should have      *)
(* become a file; there is none, and the entry stays as announced.            *)
PackageArrives(h, entry) ==
    /\ Storage[entry.storage].action
    /\ entries_' = [entries_ EXCEPT ![h].scanned = TRUE]
    /\ UNCHANGED <<disk, early, unfiled>>

FileArrives(h, entry) ==
    /\ ~Storage[entry.storage].action /\ ~mSendObjectSink
    /\ disk' = [disk EXCEPT ![entry.path] = File(entry.size)]
    /\ early' = early \cup Early(entry.storage, entry.parent)
    /\ UNCHANGED <<entries_, unfiled>>

FileIsInstalled(h, entry) ==
    /\ ~Storage[entry.storage].action /\ mSendObjectSink
    /\ unfiled' = unfiled \cup {h}
    /\ UNCHANGED <<disk, entries_, early>>

ObjectArrives ==
    LET h == mSendObjectHandle
        entry == entries_[h]
    IN  /\ h # kInvalidObjectHandle
        /\ PackageArrives(h, entry) \/ FileArrives(h, entry) \/ FileIsInstalled(h, entry)
        /\ pending_handles_' = pending_handles_ \ {h}
        /\ mSendObjectHandle' = kInvalidObjectHandle
        /\ mSendObjectSink' = FALSE
        /\ UNCHANGED <<next_handle_, scanned, mSessionOpen, issued, editVars>>

(* ... when it failed. *)
ObjectFails ==
    /\ mSendObjectHandle # kInvalidObjectHandle
    /\ MayFail("Receive")
    /\ Drop
    /\ entries_' = Kept
    /\ mSendObjectSink' = FALSE
    /\ UNCHANGED <<disk, next_handle_, scanned, mSessionOpen, issued, early, editVars, unfiled>>

-----------------------------------------------------------------------------
(* The edit operations.  The server answers them in every mode, and asks no   *)
(* storage whether it is writable.                                            *)

(* doBeginEditObject: the file behind any handle, if the file system lets it  *)
(* be opened for writing.                                                     *)
BeginEditObject(h) ==
    /\ Cardinality(mObjectEditList) < MaxEdits
    /\ \A edit \in mObjectEditList : edit.handle # h
    /\ h \in DOMAIN Kept
    /\ disk[Kept[h].path] \notin {Missing, Directory}
    /\ Kept[h].path \notin Frozen
    /\ mObjectEditList' = mObjectEditList \cup {[handle |-> h, path |-> Kept[h].path]}
    /\ entries_' = Kept
    /\ Drop
    /\ UNCHANGED <<disk, next_handle_, scanned, mSessionOpen, issued, early, edited, sinkVars>>

(* The open file changes; what the database knows of it does not. *)
Edit(edit, size) ==
    /\ edit \in mObjectEditList
    /\ disk' = [disk EXCEPT ![edit.path] = File(size)]
    /\ edited' = edited \cup {h \in DOMAIN Kept : Kept[h].path = edit.path}
    /\ entries_' = Kept
    /\ Drop
    /\ UNCHANGED <<next_handle_, scanned, mSessionOpen, issued, early, mObjectEditList, sinkVars>>

TruncateObject(edit, size) == Edit(edit, size)

(* doSendPartialObject, whether or not all of its data comes: from some place *)
(* inside the file on.                                                        *)
SendPartialObject(edit, size) == size >= disk[edit.path].size /\ Edit(edit, size)

(* doEndEditObject: endSendObject finds the handle not pending and returns.   *)
EndEditObject(edit) ==
    /\ edit \in mObjectEditList
    /\ mObjectEditList' = mObjectEditList \ {edit}
    /\ entries_' = Kept
    /\ Drop
    /\ UNCHANGED <<disk, next_handle_, scanned, mSessionOpen, issued, early, edited, sinkVars>>

-----------------------------------------------------------------------------
SendObjectInfo ==
    \E s \in Storages, parent \in Handles \cup {0}, item \in Sendable :
        \/ CreateDirectory(s, parent, item)
        \/ AnnounceFile(s, parent, item)
        \/ AnnounceFails(s, parent, item)

GetObjectHandles ==
    \/ ListRoots(Storages)
    \/ \E s \in Storages : ListRoots({s})
    \/ \E h \in Handles : ListDirectory(h)

EditStep ==
    \/ \E h \in Handles : BeginEditObject(h)
    \/ \E edit \in mObjectEditList :
          \/ \E size \in EditSizes : TruncateObject(edit, size) \/ SendPartialObject(edit, size)
          \/ EndEditObject(edit)

Next ==
    \/ OpenSession \/ CloseSession \/ OtherRequest
    \/ GetObjectHandles
    \/ SendObjectInfo \/ ObjectArrives \/ ObjectFails
    \/ EditStep

Spec == Init /\ [][Next]_vars

-----------------------------------------------------------------------------
(* Properties. *)

(* Every variable has its type; a handle is one the database has given. *)
TypeOK ==
    /\ disk \in [Paths -> Node]
    /\ DOMAIN entries_ \subseteq Handles
    /\ \A h \in DOMAIN entries_ : entries_[h] \in Entry
    /\ next_handle_ \in 1..(MaxHandle + 1)
    /\ pending_handles_ \subseteq Handles
    /\ scanned \subseteq Storages
    /\ mSessionOpen \in BOOLEAN
    /\ mSendObjectHandle \in Handles \cup {kInvalidObjectHandle}
    /\ mSendObjectSink \in BOOLEAN
    /\ mObjectEditList \subseteq [handle: Handles, path: Paths]
    /\ early \subseteq Storages \X Paths
    /\ edited \subseteq Handles
    /\ unfiled \subseteq Handles

(* A handle stands for one object as long as the session lasts, whatever was *)
(* announced, dropped or listed since it was given: no handle is reused.     *)
HandleMeansOneObject ==
    \A h \in DOMAIN entries_ :
        h \in DOMAIN issued /\ issued[h] = Objects(entries_)[h]

(* Something was sent into a directory above before that was read. *)
EarlyAbove(s, p) == \E q \in Ancestors[p] : <<s, q>> \in early

(* What the PC is told of a file or directory is what the disk holds: no     *)
(* entry outlives a transfer that failed or was never made, and the size is  *)
(* the file's.  Not so where the server left the database behind: nothing    *)
(* tells it of an edit, after which only the size may be wrong, nor that a   *)
(* sink of an earlier package took what should have become a file.  An       *)
(* installed package is no file.                                             *)
EntriesAgreeWithDisk ==
    \A h \in DOMAIN entries_ \ (pending_handles_ \cup unfiled) :
        LET entry == entries_[h]
            node == disk[entry.path]
        IN  ~Storage[entry.storage].action =>
                IF entry.dir THEN node = Directory
                ELSE /\ node \notin {Missing, Directory}
                     /\ h \notin edited => node = File(entry.size)

(* A file below 2 GiB that was not edited reaches the PC as announced, whole *)
(* or in any part that begins inside it: what the database knows of the      *)
(* file, the header, the clamped length and the loop of send_file agree.     *)
ReadsAreWhole ==
    \A h \in DOMAIN entries_ \ (pending_handles_ \cup edited) :
        LET known == entries_[h].size
            fileSize == disk[entries_[h].path].size
        IN  /\ disk[entries_[h].path] \notin {Missing, Directory}
            /\ fileSize < UIntSpan \div 2
            => /\ IsWhole(ObjectContainer(known, fileSize))
               /\ \A offset \in 0..known, length \in 0..(UIntSpan - 1) :
                     IsWhole(PartialContainer(known, fileSize, offset, length))

(* The directories read so far, as [storage, parent, path]. *)
ReadDirectories ==
    {[storage |-> s, parent |-> 0, path |-> Storage[s].path] :
        s \in {s \in scanned : ~Storage[s].virtual_root /\ ~Storage[s].action}}
    \cup
    {[storage |-> entries_[h].storage, parent |-> h, path |-> entries_[h].path] :
        h \in {h \in DOMAIN entries_ : entries_[h].dir /\ entries_[h].scanned}}

(* A directory that was read once is never read again, and yet its listing   *)
(* stays complete: whatever appears in it was sent to this storage, or has a *)
(* handle in the writable storage it was sent to.  Not so if the directory   *)
(* itself may have two handles.                                              *)
ListingIsComplete ==
    \A d \in ReadDirectories : \A p \in Children(d.path) :
        \/ EarlyAbove(d.storage, d.path)
        \/ \E h \in DOMAIN entries_ :
              /\ entries_[h].path = p
              /\ \/ entries_[h].storage = d.storage /\ entries_[h].parent = d.parent
                 \/ entries_[h].storage # d.storage /\ Storage[entries_[h].storage].writable

(* The objects of a storage form a tree: a parent is a directory of the same *)
(* storage in which the child lies, and an object has one place in the tree, *)
(* unless the PC sent something into a directory it lies in before that      *)
(* directory was read: scan() does not look at the entries beginSendObject   *)
(* has made.                                                                 *)
ObjectsFormTrees ==
    /\ \A h \in DOMAIN entries_ :
          LET entry == entries_[h]
          IN  IF entry.parent = 0
              THEN \/ Storage[entry.storage].virtual_root
                   \/ Up[entry.path] = Storage[entry.storage].path
              ELSE /\ entry.parent \in DOMAIN entries_
                   /\ entries_[entry.parent].dir
                   /\ entries_[entry.parent].storage = entry.storage
                   /\ Up[entry.path] = entries_[entry.parent].path
    /\ \A g, h \in DOMAIN entries_ :
          g # h /\ Objects(entries_)[g] = Objects(entries_)[h] =>
              EarlyAbove(entries_[g].storage, entries_[g].path)

(* The paths below the root of a writable directory storage. *)
WritablePaths ==
    {p \in Paths : \E s \in Storages :
        Storage[s].writable /\ ~Storage[s].action /\ Storage[s].path \in Ancestors[p]}

(* What the PC sends never replaces a file or directory that was there,      *)
(* listed or not, and appears below the Inbox only, although the Inbox lies  *)
(* inside a storage that is read-only and packages are announced with a path *)
(* of another.  Whatever else changes is a file that is open for editing,    *)
(* and stays one: an edit that was left open, in this session or an earlier  *)
(* one, reaches the file it was opened for and no other.                     *)
OnlySentOrEdited ==
    [][\A p \in Paths : disk'[p] # disk[p] =>
          \/ disk[p] = Missing /\ p \in WritablePaths
          \/ /\ \E edit \in mObjectEditList : edit.path = p
             /\ p \notin Frozen
             /\ {disk[p], disk'[p]} \cap {Missing, Directory} = {}]_vars
=============================================================================

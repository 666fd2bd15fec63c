# Transferencia Switch: TLA+ models, checks and proofs

Transferencia Switch is a homebrew application for the Nintendo Switch. It makes
the console an MTP device on USB: the PC reads the SD card, the saves, the
album and the NAND partitions, copies files to an *Inbox*, and installs packages
(`.nsp` and `.xci`) by copying them to a storage called *SD Card install*. An
older pair of programs, a client on the console and a server on the PC, speaks
the DBI protocol over a link of its own and is still in the tree.

This directory holds TLA+ models of that code, the TLC configurations that check
them, and proofs that TLAPS checks. `PROJECT.json` says for every definition
which lines of the source it translates (`map`), for every property which
mutation of the code it detects (`mutants`), which hazard of the code it is for
(`hazards`), and where the code and its documents disagree (`findings`).

In the text, SDI is `switch_app/source/adapters/sd_install_receiver.cpp`, SRV is
`switch_app/vendor/mtp/source/MtpServer.cpp`, RSD is
`switch_app/source/adapters/read_only_sd_database.cpp`.

## 1. The system

### 1.1 Components

| Component | State it keeps | Operations | What makes it correct |
|---|---|---|---|
| **SD install receiver** (SDI) | phase of the stream (header, entries), the entry being written, placeholders, the NCAs it registered, the CNMTs it read, tickets; in NCM, NS and ES: contents, metadata, records | `open`, `write`, `finish`, `abort`, `rollback`, destructor | a title in the database has all its NCAs; content that was there before is never deleted; an operation that fails takes back what it added; no placeholder or NCA is forgotten |
| **MTP server, receiving** (SRV) | session, the object announced, its storage, its temporary file or sink, the announced size | `run`, `handleRequest`, `doSendObjectInfo`, `doSendObject`, `receive_file`, `receive_sink`, `stop` | what the PC is told is stored is stored, whole and under the object that was sent; a transfer given up leaves nothing to the next; `SendObject` and `stop` end |
| **MTP server, reading and editing** (SRV) | the edits: handle, path and an open file each | listing, `GetObject`, `GetPartialObject`, properties, `BeginEditObject`, `SendPartialObject`, `TruncateObject`, `EndEditObject` | what is read is the range that was asked for; sizes survive 32-bit arithmetic; an edit changes the file it was opened for and no other |
| **USB transport** (`usb.c`, `USBMtpInterface.cpp`) | a page-sized buffer per direction, the posted transfer | `usbTransfer`, read, write, initialise, exit | a read is one piece of what the host sent, no byte twice or out of order; data is lost only by a read that returns nothing; a read ends |
| **Object database** (RSD) | handle → object, next handle, handles being received, storages and whether their root was read | register storages, list, `beginSendObject`, `endSendObject`, `getObjectInfo`, path and size, sessions | a handle stands for one object; every object has a handle; the tree is a tree; what is sent goes below the Inbox only and replaces nothing |
| **MTP data sets** (`MtpDataPacket` …) | a buffer | reading and writing of integers, strings, lists | formats only |
| **Application shell** (`main.cpp`) | menu state, `running`, the threads | `run_mtp`, input thread, render thread, mounts, menu | the button ends the session; what was mounted is unmounted after the last use |
| **Transfer presenters** | counters and the last events under one mutex | called from the server's thread, read by the render thread | totals agree with what happened |
| **Renderer and menu** | frame buffer, selection | drawing, buttons | layout only |
| **Mounts** (saves, BIS, album) | lists of mount points | mount, unmount | at most 20 saves; each mount is undone |
| **Installed titles catalog** (`installed_catalog.cpp`) | a tree of files on the SD card, the counts of titles and failures | `generate` at the start of a session | no file is torn; no title is missing without being counted; nothing of an earlier run is served |
| **Legacy DBI client** (`dbi_catalog.c`, `libnx_usb_transport.c`, probe) | the catalogue buffer, the status | list, read a range, exit | answers are those of its own request |
| **Legacy DBI backend** (`pc_backend/dbi_open`) | offered files, coverage of every file, stop event | `serve` and its commands, UI events | stays in step with the client; "sent" means every byte was sent |
| **Save backup planning** | none | a pure function | distinct folder names |
| **PC tools and tests** | none | diagnostics | outside the running system |

### 1.2 How they interact

`run_mtp` prepares the Inbox, mounts saves, album and BIS partitions, starts USB,
builds the object database and registers its storages, builds the server with the
same storages, starts a render thread and an input thread, and calls
`MtpServer::run()` on its own thread. The input thread polls the buttons and calls
`server->stop()`; `run()` returns, the threads are joined, USB is closed, and
everything is unmounted.

Inside `run()` one thread does all the protocol work. It reads a request packet,
calls the handler, and writes the answer. `SendObjectInfo` asks the database for
a handle (`beginSendObject`); for the install storage it also asks a factory for
a *sink*, which is the SD install receiver. `SendObject` streams the data into a
temporary file or into the sink, then tells the database how it ended
(`endSendObject`). The presenter is called from the same thread.

So there is little concurrency inside the program, and much of it at the edge:

* **the host** is a second actor. It may stop sending anywhere, cancel, close the
  session, pull the cable, or send requests in an order nobody tested;
* **the button** calls `stop()` from another thread, with one flag and no lock;
* **system services** (NCM, NS, ES, the file system) may fail at each call, and
  the console may lose power between any two of them. NCM and NS are databases
  that outlive the process;
* **time** appears as a silence: reads give up after one second, writes never.
  A silence is also how the end of an object of unknown size is recognised;
* **the legacy link** is a synchronous channel between two programs, each of which
  posts a transfer and waits for the other without a timeout, and either of which
  may be stopped and started again.

### 1.3 Not modelled

| Part | Why |
|---|---|
| Bytes of headers, names, dates, MTP strings and data sets | pure conversions; no property here depends on them. A package is a list of entries with a kind, an id and a size |
| AES-XTS of XCI entries | data; only their effect on lengths and on the first header matters and is kept |
| The bytes an edit writes | the size of the file is kept, not its content; `SendPartialObject` may leave any size that is not smaller |
| The server's end while edits are open | `run()` commits and closes them (SRV:223-230), and server and database are gone; the next ones begin with `Init` |
| Renderer, drawing of the menu, widgets, status texts | layout |
| MTP data sets, tools, tests | no state |
| `usbInitialize`, `usbExit`, descriptors | a sequence of calls into usb:ds without decisions; `AppSession` has their success and failure |
| Transfer presenters | every method holds one mutex, and what it keeps are counters for the screen set from its arguments. Of the three outcomes only two are ever reported: "cancelled" needs `errno == ECANCELED` (SRV:1265), which nothing under `src` sets |
| Save backup plan | a pure function from saves to folder names that the application does not call. Its names take the low 32 bits of the user id (`save_backup_plan.c`:60), which two users may share |
| The text of `info.txt` | formatting; a list of contents that cannot be read becomes a line of the text and is not counted |

## 2. Modules

| Module | Models | Composes |
|---|---|---|
| `TitleLibrary` | what installing promises: an abstract library of titles, changed by one atomic step per transfer | |
| `SdInstall` | the SD install receiver and the services it calls | |
| `SdInstallRefinement` | the refinement mapping from `SdInstall` to `TitleLibrary` | both |
| `MCSdInstall` | packages, contents and keys for TLC | `SdInstallRefinement` |
| `SdInstallProofs` | proofs about `SdInstall` | `SdInstall` |
| `SdInstallRefinementProofs` | the proof that `SdInstall` implements `TitleLibrary` | `SdInstallRefinement`, `SdInstallProofs` |
| `MtpReceive` | the server's loop, `SendObjectInfo`, `SendObject`, the wire, the host, the button | abstracts `SdInstall` to *the sink accepts, refuses, finishes or fails* |
| `MCMtpReceive` | objects and hosts for TLC | `MtpReceive` |
| `MtpReceiveProofs` | proofs about `MtpReceive` | `MtpReceive` |
| `UsbTransfer` | one call of the USB transport, the bus and the host at its other end | what it promises is the wire of `MtpReceive` |
| `MCUsbTransfer` | buffers with and without a page boundary inside | `UsbTransfer` |
| `UsbTransferProofs` | proofs about `UsbTransfer` | `UsbTransfer` |
| `InstalledCatalog` | the tree of the catalog, `generate()`, power failures, NS | `AppSession` abstracts it to *generated or not* |
| `MCInstalledCatalog` | four titles, four lists | `InstalledCatalog` |
| `InstalledCatalogProofs` | proofs about `InstalledCatalog` | `InstalledCatalog` |
| `SendFile` | `doGetObject`, `doGetPartialObject` and `send_file`, as functions with C's integer widths | |
| `ObjectDatabase` | the object database, the disk it shows, the handlers that read it | `SendFile` |
| `MCObjectDatabase` | an SD card, four storages, what the PC sends | `ObjectDatabase` |
| `ObjectDatabaseProofs` | proofs about `ObjectDatabase` | `ObjectDatabase` |
| `DbiLink` | the legacy client and the legacy server on one link | |
| `MCDbiLink` | two files, four ranges | `DbiLink` |
| `DbiLinkProofs` | proofs about `DbiLink` | `DbiLink` |
| `AppSession` | `main()`, `run_mtp()` with its mounts, storages and threads, the pad, the loop of `run()` | abstracts `MtpReceive` to *a request is served and answered* |
| `MCAppSession` | a list of saves | `AppSession` |
| `AppSessionProofs` | proofs about `AppSession` | `AppSession` |

No module that is proved about declares a RECURSIVE operator.

### 2.1 `SdInstall`

One variable per member of `SdPackageInstallSink` that decides something, and one
per database of the system: `content` and `placeholders` (NCM's content storage),
`metaMem` and `metaDisk` (the ContentMeta database as NCM answers and as last
committed), `records` (NS) and `importedTickets` (ES). A package is a list of
entries; an entry has a kind (`nca`, `cnmt`, `ticket`, `certificate`,
`other`), a content id and a size.

The code does all its work inside `write`, called with chunks of any length. The
model has one step for every point where something can go wrong: the header, the
start of an entry, a piece of its data, its end, every stage of `finish()`
(requirements, commit of each CNMT, push of each record, tickets) and every
stage of `rollback()`. A step whose service call can fail has both outcomes, the
failing one only when the call is in `FailingCalls`. `Crash` may happen
anywhere when `CanCrash`: what was committed stays, the receiver is gone. `pc`
names the call the class is in: `stream`, `tickets`, `cnmt`, `commit`, `record`,
`rollback`, or `idle` without a receiver.

`before`, `settled`, `stray` and `outcome` are history variables. `stray` holds what
a crash or a failed delete left behind; the properties about leftovers exempt exactly
that.

The abstract `TitleLibrary` has a `library` of titles and one transfer in progress.
Its only change of the library is *all titles of the package at once*; a refused,
cancelled or crashed transfer changes nothing. `SdInstallRefinement` maps the
concrete state to it: a title is in the library when its metadata is committed,
its NCAs are registered and its ApplicationRecord is published.

### 2.2 `MtpReceive`

The server's thread is a program counter (`request`, `dataset`, `handle`, `header`,
`receive`, `finish`, `respond`, `leaving`, `stopped`) with the members
`mSendObject*` and `mSessionOpen`; the host is a second process that announces
objects, sends packets, falls silent, gives up and reads answers. `wire` is a
bounded sequence of packets from the host; an answer is read as it is written. A
read may come back empty whenever the wire is empty: the host may always have been
silent for a second; a packet that comes while that read is being cancelled is lost
(`Silence`). `Crash` ends the process anywhere: the server, its database and the
sink go, the staging file stays, and `orphan` says so until the next object of its
handle clears it (`Cleared`). `stop()` clears `mRunning` from the input thread. What is stored
is `files` (the Inbox), `temp` (the staging file) and `installed` (of each object,
what its sinks had taken whenever a `finish()` succeeded: a set, because a package
may be sent again).

Packages are streams of blocks here: what the sink does inside is `SdInstall`,
and `MtpReceive` uses only what `IncomingObjectSink` promises (`write` and
`finish` answer true or false, `abort` may follow at any time).

### 2.3 `UsbTransfer`

`pc` follows one call of `usbTransfer`: `ready` (`usbDsWaitReady`), `post`, `wait` (for
the completion event), `cancel` (after a timeout), `failed` (the look at the state
and the second attempt). A buffer is its size and its *lead*, the part before its
first page boundary, which goes through the endpoint's own page and makes a chunk
of its own. On the other side the host sends messages of any length, byte by byte,
or hears what the device sends; the bus is detached, configured or suspended. A
byte is where it comes from: connection, message and place, or call and place. So
the properties can say of every byte whether it was lost, repeated or moved.

External, and stated at the head of the module: the urb completes when it is full or
when a message ends in it; pulling the cable aborts it; suspending happens between
messages; nothing reconnects in the microseconds between two chunks or between a
cancellation and the look at the state.

`MtpReceive` builds on three of its results: a read is a piece of one message (a
request, a data set and a block are one message each); an empty read may have lost
what came during its cancellation; and a write is heard as one although it may be
repeated.

### 2.4 `InstalledCatalog`

The tree is `dirs`, `files` (absent, torn, unsynced, of an old run or of this one)
and `partial` (the `.partial` files). `generate()` has one step for each call that
can fail: the removal of the old tree, which stops anywhere inside when it does and
whose result nobody looks at; the preparation; a batch of records; the control data
and the directory of a title; and the three stages of `writeFileAtomic`, for the
three kinds of files. NS is a list that may change between two calls. `Crash` leaves the tree as it
is, and what was not synced is torn. `cleared`, `steady` and `listed` are history
variables.

### 2.5 `ObjectDatabase` and `SendFile`

Paths form a fixed tree (`Up`), and the disk says of each whether it is
missing, a file of some size or a directory. The database is a function from
handles to entries, the next handle, the handles of objects being received, and
the storages whose root was read. `issued` and `early` are history variables: what
each handle was given for, and the directories something was sent into before they
were read. Actions:
opening and closing a session, listing a directory (which scans it and assigns
handles), announcing an object, its end with or without success, and the edit
operations; reading is a function of what they leave behind.

The server does two things the database is never told of, and both are actions here.
The edit operations (SRV:416-427, 1481-1601) open the file behind any handle for
writing, whatever the storage and in read-only mode too, and cut or extend it.
`mObjectEditList` holds the open edits, which outlive their session; `Frozen` are the
paths where the file system refuses to open for writing, such as saves mounted
read-only (save_mounts.cpp:67); `edited` remembers the handles whose file was changed.
And a sink left over from a package that never came (`mSendObjectSink`) takes the next
object although that is for a directory (SRV:1142): the entry is confirmed and there
is no file (`FileIsInstalled`, `unfiled`).

`SendFile` gives `GetObject` and `GetPartialObject` as functions of sizes,
because C++'s types matter there: lengths in the container are 32 bits wide, and
0xFFFFFFFF stands for *longer*. `UIntSpan` is the size of the 32-bit range, so
8 in the run.

The constants stand for things the code is given, and their assumptions say what
is true of those: `Up` has no loop (`Ancestors` is a closure over sets of paths),
a virtual root is not one to write to, the objects announced at the start are on
the disk, and a container's header is far below the 32-bit range.

### 2.6 `DbiLink`

The client and the server each have a program counter; a transfer happens when
one side has posted a read and the other a write. A transfer moves as much as
the smaller side asks for. Reading on the client's side fails when the size is
not the one posted. The person on the PC may stop the server, close the
window, start another server, and change a file; the console's user makes
requests; the cable may be pulled. The model assumes that the console, which is
running when a new server resets the device more than a second after it starts,
has posted its next transfer by then.

### 2.7 `AppSession`

The main thread's place goes from the menu through `run_mtp` and back. Mounts
and USB may fail one by one. What was mounted decides what the database and the
server are told, in two different pieces of code, as in `main.cpp`. The input
and the render thread are actors; a new thread has a lower priority than the
main thread and runs on its core, so its steps are enabled only while the main
thread waits (`ThreadsRun`). The person presses, holds and releases A, B and +
and touches cards at any time. There are three `PadState`s: that of `main()`, new
on every turn; that of the input thread, new in every session; and that of the
menu, which is static. `spent` is a history variable: the buttons whose present
press has already done something.

## 3. What the runs check

All runs together take a few minutes with two workers.

| Run | Question | Result |
|---|---|---|
| `install_failures` | every service call may fail, the process may die between two steps, and transfers follow each other over packages that share NCAs | holds |
| `install_atomic` | is a transfer atomic as the PC and the user see it, and does it end | holds |
| `install_reinstall` | does a failed reinstallation leave the title as it was | **violated** |
| `install_group` | is a collection of several titles rolled back as a group | **violated** |
| `receive_safety` | is what was confirmed stored; does nothing of a given-up or crashed transfer leak; does `SendObject` end, does `stop()` end `run()` unless nobody reads its answer | holds |
| `receive_stale_sink` | the same as `receive_safety`, with a host that copies to both storages | **violated** |
| `receive_rejection` | does the PC's user always see why the installer refused | **violated** |
| `usb_transfer` | what may a caller of `usbTransfer` rely on, with chunks, timeouts, a second attempt, unplugging and suspension | holds |
| `catalog` | is the catalog that is served whole, complete and of this run, whatever fails | holds |
| `objects` | handles, tree, listings, sizes, and what sending and editing may change | holds |
| `dbi_link` | do client and server stay in step, are answers and coverage right | holds |
| `app_session` | does a session offer what is there, start once per press, end after a press, leave nothing behind | holds |

### 3.1 Properties that hold

*SD install receiver.* `SettledTitlesKeepContent`: a title whose installation was
reported keeps every NCA its CNMT requires, whatever later transfers do.
`ExistingContentKept`: no NCA that was registered before a transfer is deleted
or replaced by it. `FinishedInstallComplete`: when `finish()` reports success,
metadata and contents are all there. `AddedIsAccounted`: every placeholder and
NCA a transfer added to NCM is in the receiver's lists,
so that `rollback` can find it, unless a crash or a failed delete left it.
`CommittedMetaBacked`: metadata on disk always has the NCAs it needs, also in the
middle of a commit or a rollback. `InstallIsAtomic`: the
receiver implements `TitleLibrary`, for packages of one CNMT and as long as NS accepts
the record and the calls whose failure the class ignores (commit and removal of
metadata) succeed. `TransferEnds`: a transfer whose data has begun to come ends; one that was only
announced may wait for ever.

*Receiving.* `ConfirmedMeansStored`, `StoredIsOwn`: the PC is told OK only
for objects that are stored, and what is stored under an object has its announced
number of blocks, each of them its own or scrap, its own in increasing order and
none twice (for a host that copies to one of the two storages; see 3.2).
`DatabaseAgrees`: the database's pending object is the server's.
`StagingIsEmpty`: no temporary file outlives its transfer, unless the process
died, and one that did never keeps the next object from being created. `DrainedIsAligned`: after a drain the
next read begins with a request. `SizedRejectionIsReported`: with an announced
size the reason of a rejection arrives. `SendObjectEnds`: the server leaves `SendObject`
however the host stops. `StopReturns`: after `stop()` `run()` returns, unless it
stays for ever in an answer that nobody reads.

*USB.* `ReadsOnePiece`: what a read returns is one piece of the host's stream, in
order, and a short read ends a message; it runs on from one message into the next
only where the first ended exactly at the page boundary of the buffer.
`LossIsTold`: a read that returns data has dropped nothing of its connection, in
spite of timeouts and the second attempt, with that same boundary as the only
exception. `WritesAreWhole`: the host hears a repeated write once. `ReadEnds`: a
read ends also without a host, because `usbDsWaitReady` is given the timeout
(docs/mtp-roadmap.md:30 for version 0.4.6).

*Catalog.* `FilesAreWhole`: no file is torn under its own name.
`NothingMissingSilently`: with no failure counted, every title is there with its icon.
`ServedIsCurrent`: a catalog that is served holds no title and no file of an
earlier run. It has a premise, that the old tree could be removed: `generate()` does
not look at the result of `removeTree` (installed_catalog.cpp:139). `GenerateEnds`.

*Database.* `HandleMeansOneObject`: a handle never changes
its object in a session. `ObjectsFormTrees`: parents are directories of the same storage,
and an object has one handle, unless it was announced
before its directory was listed. `EntriesAgreeWithDisk`: what the PC is told of an
object is on the disk, with its size unless it was edited; an object swallowed by a
sink left over is the exception. `ListingIsComplete`. `ReadsAreWhole`: what `GetObject` and
`GetPartialObject` announce is what they send, for files below 2 GiB that were not
edited and for parts that begin inside them (past the end the length wraps,
SRV:999-1000). `OnlySentOrEdited`: what the PC sends replaces nothing and appears below
the Inbox only; anything else that changes is a file with an open edit, and it is the
one the edit was opened for, whatever its handle has come to mean since.

*Legacy link.* `InStep`: whatever was interrupted, the transfer posted on
one side fits the one that the other has posted. `AnswersAreRight`: a list or a range the
console takes for good is what it asked for. `SummaryIsRight`:
the server's coverage is what was sent and "enviado" means that the console has
read every byte of the file. An empty file counts as sent without having been
requested: nothing of it is missing. `RequestEnds`: a request ends unless its
server did.

*Application.* `StoragesAreServed`: server and database have the same storages,
and what is behind each is mounted. `SessionCleansUp`: every way back to the menu
has unmounted, closed USB and joined the threads. `SavesAccounted`: every save
found is mounted once under its own device, failed, or left out by the limit.
`OneSessionPerPress`: one press of A starts one session. `PressEndsSession`: a
press that the input thread has seen ends the session, if answers are read. It does not
say where that leads: back to the menu or, with + held, out of the program (3.3).

### 3.2 Disagreements the runs show

1. `install_reinstall`: `rollback()` deletes every ContentMeta key this operation
   set, also one that was there before and was only overwritten. The documents
   speak of *new* metadata (docs/instalacion-mtp.md:30, docs/estado.es.md:47).
2. `install_group`: the ApplicationRecord pushed for an earlier CNMT of a
   collection stays when a later one fails (docs/estado.es.md:54: "se confirman
   y revierten como un grupo").
3. `receive_stale_sink`: a package announced but never sent leaves its sink; the
   next object for the Inbox is streamed into the installer and confirmed, and no
   file is written (README.en.md:97).
4. `receive_rejection`: without an announced size, a sink that refuses before it
   knows the package's size is drained until the silence, and the reason becomes
   "fallo durante la recepcion" (docs/estado.es.md:52).

### 3.3 Limits the properties state as premises

* Answers are written without a timeout (USBMtpInterface.cpp:42), also before the device
  is ready. A host that is unplugged or does not read keeps `run()` there, and `stop()`
  has no effect. `StopReturns` names this place as the only one; `PressEndsSession` has
  the reading host as a premise.
* A `stop()` before `run()` would be lost; only the lower priority of the input thread
  prevents it (the mutant of `PressEndsSession`).
* The edit operations write files of storages that README.en.md:14 and :96 and
  docs/vistas-virtuales.md:14-16 call read-only, and the server answers them although it
  does not list them among its operations. `OnlySentOrEdited` therefore has an open edit
  as its second case. After an edit the entry keeps the old size, and `CloseSession` ends
  no edit.
* After the disagreement of `receive_stale_sink` the PC is shown an entry without a file
  until the session ends (`unfiled`).
* A + that ended the session and is still held when `run_mtp` returns is seen as a new
  press by the `PadState` at main.cpp:454, and the program ends; the screen of the
  read-only mode says "volver al menu" (main.cpp:347). `OneSessionPerPress` is about A.
* A ContentMeta key whose commit NCM refused is on no list of the receiver;
  `CommittedMetaBacked` exempts it, as it does what a crash or a failed delete left.

## 4. Bounds

| Run | Bounds | Why they are enough |
|---|---|---|
| `install_*` | two NCAs, two CNMTs, two metadata keys, one ticket pair; two to seven packages; `NcaHeaderSize` = 1, entries of 0 to 2 units, `MaxSidecar` = 1, `MaxCnmt` = 1 or 2 | the packages overlap in every way two can: the same NCA needed by two titles, a title in two packages, a wrong size, a missing NCA, a repeated id. A size of 2 is more than a header, 1 is exactly one, 0 is none. The number of transfers is not bounded |
| `receive_*` | objects of 0 to 3 blocks, `WireCapacity` 2, `MaxRequests` 4 (3 in `receive_rejection`); crashes are not bounded | four requests are two whole transfers, or one abandoned transfer and the next; with three blocks a lost `SendObject` request lets the header pass for a request and the second block for the header, and the third comes where the second should be |
| `usb_transfer` | buffers of 2 or 3 units with a lead of 0, 1 or 2, `MaxSize` 3, 3 calls, 3 messages, 4 changes of the bus | a message ends before, at and after the page boundary and the end of the buffer; four changes are two losses of the host within one call, one for each attempt; the third call meets what the first two left |
| `catalog` | four titles, two with an icon, one without a name; lists of 0, 2, 3 and 4 titles, `Batch` 2, three faults (failing calls, crashes, changes of NS) | lists end inside a batch and with a full one, lose their first record and turn round; three faults are, say, a crash, a removal that fails and a file that fails, in sessions that follow each other |
| `objects` | 9 paths, 4 storages, `MaxHandle` 5, sizes up to 3, `UIntSpan` 8, `BufferSize` 2, `HeaderSize` 1, `EditSizes` {2}, `MaxEdits` 1 | the Inbox lies inside the SD card so that one object is reached through two storages; a directory is sent, then a file into it; with the header, sizes are below, at and above a buffer and 3 is the last below half the range; one edit outlives its session, sees its handle given to another object, and grows a file or cuts one; the saves cannot be written |
| `dbi_link` | two files of 0 or 3 bytes, chunk 2, four ranges, a catalogue that does not hold two names, 3 requests, 2 servers, 1 change of a file | a range is one or two chunks; ranges nest, touch and overlap; the third request meets a second server after a first that failed |
| `app_session` | five saves with a duplicate and one of no account, at most two mounted; six of nine calls fail; one card is touched | the list passes, reaches and exceeds the limit; a mount of each kind fails; sessions, presses and requests are not bounded |

`MaxHandle`, `MaxEdits`, `MaxRequests`, `MaxServers`, `MaxCalls`, `MaxMessages`, `MaxChanges`
and `MaxFaults` stand in guards and
bound what the program lets grow; the others are parameters of the code
made small. TLC's `CHECK_DEADLOCK` is off for `dbi_link` and `usb_transfer`, whose
models stop when requests or calls are used up. `TypeOK` of each module documents
the types of its variables; the runs check that of `SdInstall`, and those of
`SdInstall`, `ObjectDatabase` and `UsbTransfer` are proved.

## 5. Fairness

* `SdInstall`: `WF(InSendObject /\ ~finished_ /\ SinkStep)`. Once `SendObject` has given
  the receiver data, the server's thread goes on because its reads end after a second,
  and calls `abort()` then. Nothing is assumed before, since the sink is opened by
  `SendObjectInfo` (SRV:1117) and the PC need not send the object; nor after
  `finish()`, since the sink is destroyed when the PC has read the answer. No call is
  assumed to succeed, and no crash or its absence is assumed.
* `MtpReceive`: `WF(ServerStep /\ ~AnswerUnread)`, the server's thread, except where it
  writes an answer that no host asks for. Nothing is assumed of the host or of the
  button; `StopReturns` has this exception in its statement.
* `UsbTransfer`: `WF(TransferStep)`, the thread inside the call, whose timeouts pass.
  The host, the cable and the bus may do nothing for ever.
* `InstalledCatalog`: `WF(pc # "idle" /\ GenerateStep)`: a `generate()` that began is
  not suspended for ever. Nobody has to begin one.
* `DbiLink`: `WF(Transfer)` and `WF(ServerAlone)`. A pair of posted transfers
  completes and the server's thread runs; the person, the cable and new servers
  may act or not.
* `AppSession`: weak fairness of the main thread, of the input thread's sight of a
  button and of the end of the render thread. That the host reads answers is the
  premise of `PressEndsSession`.

## 6. Proofs

The provers check the theorems below for every value of the constants that
satisfies the named assumptions in the modules (`ASSUME ...Assumption`). A theorem
that needs more says so in an ASSUME of its own: `OneStorage` in
`MtpReceiveProofs`, `OneCnmtEach` and `CommitsHold` in `SdInstallRefinementProofs`.
Every invariant and every safety action property the passing runs check is proved.

**`SdInstallProofs`**. The first invariant is `IndInv == TypeOK /\ ControlInv /\
EntryInv /\ TransferInv`. `ControlInv` relates the phase to the members that
are set in it. `EntryInv` describes the entry being written. `TransferInv`
holds the safety properties together with what makes them inductive:
`ExistingContentKept` alone is not, because `rollback` deletes from a list; one
must know that everything in that list was registered by this operation and
was not there before (`NewlyRegisteredAreNew`). `SettledTitlesKeepContent` needs
in addition that titles settled before the transfer rest on content that was there
before it (`SettledBefore`) and what `finish()` has already verified
(`FinishInv`). Theorems: `TypeCorrect`, `Inductive`, `ExistingContentSafe`,
`SettledTitlesSafe`.

The second, `LeftInv`, is about what a transfer adds and may leave.
`PlaceholderInv` and `AddedIsAccounted` follow each placeholder and each new NCA to
the list that rollback reads. `StreamInv` says what the entries behind the cursor
have become: every NCA registered, every ticket kept, every CNMT noted; so that
`finish()`, at the end of the stream, vouches for all of the package. `MetaInv`,
`MetaBacked` and `OthersBackedBefore` say that ContentMeta rests on registered
NCAs, in NCM's memory and on the card, while rollback takes both away one at a time;
a key whose removal or commit NCM refused is the exception, and the property's own.
Theorems: `LeftInductive`, `AddedAccounted`, `CommittedIsBacked`, `FinishIsComplete`.

**`SdInstallRefinementProofs`**. `AtomicInstall`: initial states map to initial
states, and each step to one step of `TitleLibrary` or to none. The step that
installs is `PushRecord`, the last of three that make a title whole (metadata in
memory, on the card, the record). That nothing is visible before, and nothing of
another title changes, is `AtomicInv`: a published title keeps its metadata, and a
committed key is on its way to its record. It is true only of packages that name
one title (`OneCnmtEach`) and where `Commit` and the record do not fail
(`CommitsHold`); `install_group` and `install_reinstall` show what happens otherwise.

**`MtpReceiveProofs`**. `StagingIsEmpty` follows from `StagingInv`, which knows that a
`.partial` file without a dead process behind it is that of a transfer without a
sink. `DatabaseAgrees` needs more: `WireInv` (the packets in the pipe are packets
of the objects the host works with), `ReadInv` (so is what the server has read,
and what it writes is data, never taken for "no file"), `HandleInv` (the pending
object is received by its own sink, or by none if it goes to the Inbox) and
`EntriesInv`. `HandleInv` is where the premise `OneStorage` comes from: a host that
copies to both storages at once breaks it, and with it the conclusion, in the way
`receive_stale_sink` shows. Theorems: `StagingStaysEmpty`, which needs no premise,
and `DatabaseAgreement`.

What is stored is the business of `TransferInv`. The packets in the pipe, followed by
those the host still has to send, are ordered by transaction and by block
(`StreamInv`), and everything the server has received of an object is older than
everything that can still come (`GotInv`). So whatever is lost to a timeout, and
whatever stale packet is taken for a request or a header, the blocks in a file
increase. `PlaceInv` is about the host that still waits for its answer: either every
block received is in its place, or too few are left to come to reach the announced
size, and such a transfer cannot be confirmed. `RejectionInv` and `AnswerInv` carry
the sink's reason to the answer. Theorems: `TransferInductive`, `ConfirmedStored`,
`StoredOwn`, `DrainedAligned`, `RejectionReported`.

The attempt to prove `StoredIsOwn` found that its first form, which asked each stored block
to be in its own place, held in the runs only because objects had two blocks at most.
With three, a host that has given up can leave a file with a block in an earlier
place, and scrap at the end. It is never confirmed. The property now says what is
true, and the runs have objects of three blocks.

**`UsbTransferProofs`**. `IndInv` is `TypeInv` and six parts. `CallInv` relates the
place in `usbTransfer` to the urb and the buffer: one urb at most, and before the second chunk the
buffer holds exactly the first one, which was full. `ReadInv` says that what the buffer and
the urb hold is one run of bytes, where it can cross the end of a message, and how it is
linked to what the host sends next. `MovedInv` bounds what left the host by what it has
sent, and by `LossInv` the first attempt has all of that in its buffer, and the second
all but one first chunk. `HeardInv` and `WriteInv` say that the host has heard of a
write exactly what its urbs have given, and nothing of one that is to be
repeated. Theorems: `TransferInductive`, `ReadsPiece`, `LossTold`, `WritesWhole`,
`TransferTyped`.

**`InstalledCatalogProofs`**. `IInv == TreeInv /\ LoopInv /\ ClearedInv`. `TreeInv` says
that each place is absent or whole. `ClearedInv` carries what `clearTree` achieved
through the loop: titles on the disk and in the batch were listed in this run, no file is old, and a
`.partial` file is the one being written, the summary's, or counted as a failure.
Theorems: `Inductive`, `FilesWhole`, `ServesThisRun`. `NothingMissing` adds
`MissingInv`: as long as no failure is counted, a title that was listed has its files
or is still in the batch (`FilesInv`), and if NS did not change either, the count and
the offset agree with the part of its list that was read (`CountInv`).

**`ObjectDatabaseProofs`**. `IndInv == TypeOK /\ HandlesInv /\ PendingInv /\ OutsideInv`:
every handle is below the counter; the object being received is the one entry whose
path was absent when it was announced; and by `OutsideInv` an open edit is of a file that is
there and can be opened for writing, whatever session it is from. Theorems:
`TypeCorrect`, `Inductive`, `HandlesAreNotReused`, `OnlySendingOrEditing`. `ViewInv` is
about what the PC is shown: every object lies in its storage below its parent
(`PlaceInv`), what is not pending is on the disk with its size, edits and sinks left
over excepted (`AgreeInv`), a place has two objects only when
something was sent into a directory above it before that was read (`UniqueInv`,
`SentInv`), and what `ListingIsComplete` says. Theorems: `ViewInductive`,
`EntriesAgree`, `ListingsComplete`, `ObjectsAreTrees`. `ReadsWhole` is arithmetic: the loop of
`send_file` sends all it announced. `Sent` is a recursive function; that it returns
what is asked for is shown with the least piece for which it would not.

**`DbiLinkProofs`**. `IInv == ControlInv /\ DataInv /\ InStep /\ ServedInv`.
`InStep` is not inductive: the console counts bytes that arrived, the server
bytes it wrote, and only `ServedInv` ties the two counts, so that both leave their loops after
the same transfer. Theorems: `Inductive`, `StaysInStep`, `AnswersRight`.
The summary needs first what `RangeCoverage` computes. `Sorted` is a choice, so that
it has a value is proved (`AllSortable`, on the size of the set). `JoinIs` is one
round of the merge, `MergedIs` the loop: the intervals stay apart and cover the same
positions; then the sum of their lengths is the number of those positions
(`TransferredIs`). `SessionInv` carries this through a session: `CountInv` says that
the coverage of a file covers what was written of it, cut to the size the server
knows, and `ReadInv` that while the server holds the device the console has read all that was
written, up to the range under way. A summary is made only then, so a file that is
counted whole was read whole. Theorems: `SessionCounts`, `SummaryRight`.

**`AppSessionProofs`**. `IInv == SessionInv /\ PadInv`. `SessionInv` says for each
place of `run_mtp` what is mounted, started and offered: the lists of storages
were computed from the mounts, and nothing changes them until the server has
returned. `PadInv` says that a press of A that has acted is still held and known
to the menu's `PadState`. Theorems: `Inductive`, `OffersWhatIsThere`,
`LeavesNothingBehind`, `PressStartsOnce`. `SavesCounted` is about the loop of
`mountAvailable()`, a recursive function over the saves the reader returned:
`TakenInv` holds before the first of them and after each, so there is no first
one after which it does not.

Loops over a list (`Transferred`, `Merged`, `Sent`, `MountSaves`) are recursive functions.
The library's induction is out of the provers' reach, so `LoopRuns` shows that such
a function exists, and `NoFirst` takes the place of induction: a set of numbers that
is not empty has a least one.

Only model-checked: the liveness properties (the provers do no fairness). `TypeOK` is
proved of `SdInstall`, `UsbTransfer` and `ObjectDatabase`; in `MtpReceive`, `DbiLink`,
`InstalledCatalog` and `AppSession` the invariants carry the types they need.

## 7. Plan

Done, in this order: the installer and its abstract specification, receiving,
the database and reading, the legacy link, the application around them; then
`UsbTransfer`, `InstalledCatalog`, and in `MtpReceive` the crash of the process
and the packet that is lost to a timeout; and the proofs above.

Next:

1. Proofs: `TypeOK` of the four modules where it is not a theorem yet.
2. The refinement that shows `UsbTransfer` to implement the wire of `MtpReceive`,
   message by message.
3. Reads of 2 GiB and more, whose lengths pass through a signed integer.

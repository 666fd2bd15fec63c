------------------------------ MODULE DbiLink ------------------------------
(***************************************************************************)
(* The DBI channel that preceded MTP and is still kept in the tree: the    *)
(* console's client (switch_app/source/adapters/dbi_catalog.c, driven by   *)
(* legacy_backend_probe.c) against the PC's server (pc_backend/dbi_open).  *)
(*                                                                         *)
(* Neither side has a timeout.  A USB bulk transfer ends when both ends    *)
(* have posted it, so a write of one side and the read of the other are    *)
(* one step; what a side has posted is its program counter.  The console   *)
(* posts its next transfer at once: a step of its code between two         *)
(* transfers takes microseconds, a restarted PC server takes over a second *)
(* to reset the device.                                                    *)
(*                                                                         *)
(* A byte of a file is the pair of the file's name and the position.       *)
(***************************************************************************)
EXTENDS Integers, Sequences, FiniteSets, SequencesExt

CONSTANTS
    Files,          \* names of the files a person can queue on the PC
    Ranges,         \* ranges the console asks for: [offset, size]
    Sizes,          \* bound: bytes a file may have
    Chunk,          \* TRANSFER_CHUNK_SIZE
    Capacity,       \* of catalog_buffer, in names
    None, Torn,     \* no catalogue yet; a catalogue overwritten in part
    MaxRequests,    \* bound: requests of the console
    MaxServers,     \* bound: servers started on the PC
    MaxChanges      \* bound: changes of a queued file on the PC's disk

ASSUME RangesAssumption ==
    Ranges \subseteq [offset : Nat, size : Nat \ {0}]
ASSUME BoundsAssumption ==
    /\ {MaxRequests, MaxServers, MaxChanges} \subseteq Nat
    /\ Sizes \subseteq Nat /\ IsFiniteSet(Sizes) /\ Sizes # {}
    /\ {Chunk, Capacity} \subseteq Nat \ {0}
ASSUME NamesAssumption ==
    /\ IsFiniteSet(Files)
    /\ {None, Torn} \cap Files = {}
    /\ \A names \in SUBSET Files : names # None /\ names # Torn
    /\ None # Torn

VARIABLES
    console,        \* transfer the console has posted, or where it waits
    connected,      \* TsDbiCatalogAdapter.connected
    catalog,        \* names catalog_buffer holds for the menu
    asked,          \* the range the console asks for
    got,            \* bytes of it that have arrived
    backend,        \* transfer the PC's server has posted, or where it waits
    attached,       \* the server's handle is of the console's open device
    stopping,       \* stop_event
    queue,          \* files of the server
    total,          \* RangeCoverage.total_size of each
    coverage,       \* RangeCoverage._ranges of each
    request,        \* the range the server is serving
    sent,           \* bytes of it that were written
    chunk,          \* bytes the server has read and not written yet
    size,           \* of each file on the PC's disk
    summary,        \* what session_finished said, or None
    delivered,      \* positions of each file the server's writes carried
    read,           \* positions the console's finished reads returned
    answer,         \* what the console's last request returned
    requests, servers, changes

consoleVars == <<console, connected, catalog, asked, got, answer>>
serverVars == <<queue, total, coverage, request, sent, chunk, summary, delivered, read>>
bounds == <<requests, servers, changes>>
vars == <<consoleVars, backend, attached, stopping, serverVars, size, bounds>>

MaxSize == Max(Sizes)
NoRange == [name |-> None, offset |-> 0, size |-> 0]
NoAnswer == [what |-> "nothing"]
Header(type, command, length) ==
    [type |-> type, command |-> command, size |-> length]

-----------------------------------------------------------------------------
(* The two programs, as the transfers they post.                           *)

\* Headers the console writes, and the transfer it posts next.
ConsoleWrites ==
    [askList |-> Header("request", "list", 0),
     listAck |-> Header("ack", "list", 0),
     askRange |-> Header("request", "range", 1),
     rangeGo |-> Header("ack", "range", 0),
     askExit |-> Header("request", "exit", 0)]
ConsoleThen ==
    [askList |-> "listHeader", listAck |-> "listPayload",
     askRange |-> "rangeAck", rangeRequest |-> "rangeHeader",
     rangeGo |-> "data", askExit |-> "exitHeader"]
\* Headers the console reads: the type and the command it insists on.
ConsoleExpects ==
    [listHeader |-> <<"response", "list">>, rangeAck |-> <<"ack", "range">>,
     rangeHeader |-> <<"response", "range">>, exitHeader |-> <<"response", "exit">>]
\* Headers the server writes.
ServerWrites ==
    [listHeader |-> Header("response", "list", Cardinality(queue)),
     rangeAck |-> Header("ack", "range", 1),
     rangeHeader |-> Header("response", "range", request.size),
     exitHeader |-> Header("response", "exit", 0)]

Idle == {"menu", "closed"}
Busy == console \notin Idle
Asking == {"askList", "askRange", "askExit"}
Running == backend # "off"

-----------------------------------------------------------------------------
(* RangeCoverage                                                           *)

Before(p, q) == p[1] < q[1] \/ (p[1] = q[1] /\ p[2] =< q[2])
Smaller(a, b) == IF a < b THEN a ELSE b
Larger(a, b) == IF a < b THEN b ELSE a

(* Mutant of Join: the end of the later interval is taken as it is. *)
JoinShortens(merged, interval) ==
    IF merged = <<>> \/ interval[1] > Last(merged)[2]
    THEN Append(merged, interval)
    ELSE Append(Front(merged), <<Last(merged)[1], interval[2]>>)

\* One round of the loop of add(): an interval joins the last one it touches.
Join(merged, interval) ==
    IF merged = <<>> \/ interval[1] > Last(merged)[2]
    THEN Append(merged, interval)
    ELSE Append(Front(merged),
                <<Last(merged)[1], Larger(Last(merged)[2], interval[2])>>)

\* The intervals in the order of sorted().
Sorted(intervals) ==
    CHOOSE seq \in [1 .. Cardinality(intervals) -> intervals] :
        /\ ToSet(seq) = intervals
        /\ \A i, j \in DOMAIN seq : i < j => Before(seq[i], seq[j])

Merged(intervals) ==
    LET merged[n \in 0 .. Len(intervals)] ==
          IF n = 0 THEN <<>> ELSE Join(merged[n - 1], intervals[n])
    IN  merged[Len(intervals)]

\* add(): the interval is cut to the file, sorted in and merged.
Covered(ranges, length, start, end) ==
    LET first == Smaller(start, length)
        last == Larger(first, Smaller(end, length))
    IN  IF first = last THEN ranges
        ELSE Merged(Sorted(ToSet(ranges) \cup {<<first, last>>}))

Transferred(ranges) ==
    LET bytes[n \in 0 .. Len(ranges)] ==
          IF n = 0 THEN 0 ELSE bytes[n - 1] + (ranges[n][2] - ranges[n][1])
    IN  bytes[Len(ranges)]

\* _emit_summary(): what the session says of a file.
Status(ranges, length) ==
    IF Transferred(ranges) >= length THEN "enviado"
    ELSE IF Transferred(ranges) > 0 THEN "parcial" ELSE "no_solicitado"

-----------------------------------------------------------------------------
TypeOK ==
    /\ console \in Idle \cup DOMAIN ConsoleThen \cup DOMAIN ConsoleExpects
                        \cup {"listPayload", "data"}
    /\ connected \in BOOLEAN
    /\ catalog \in {None, Torn} \/ catalog \subseteq Files
    /\ asked.name \in Files \cup {None, Torn}
    /\ got \in Seq(Files \X (0 .. MaxSize - 1))
    /\ backend \in {"off", "connect", "header", "listAck", "listPayload",
                    "rangeRequest", "rangeGo", "chunk", "chunkData"}
                   \cup DOMAIN ServerWrites
    /\ attached \in BOOLEAN /\ stopping \in BOOLEAN
    /\ queue \in SUBSET Files
    /\ {total, size} \subseteq [Files -> Sizes \cup {0}]
    /\ coverage \in [Files -> Seq((0 .. MaxSize) \X (0 .. MaxSize))]
    /\ request.name \in Files \cup {None, Torn}
    /\ sent \in 0 .. MaxSize /\ chunk \in 0 .. Chunk
    /\ summary = None \/ summary \in [queue -> {"enviado", "parcial", "no_solicitado"}]
    /\ {delivered, read} \subseteq [Files -> SUBSET (0 .. MaxSize - 1)]

Init ==
    /\ console = "menu" /\ connected = FALSE /\ catalog = None
    /\ asked = NoRange /\ got = <<>> /\ answer = NoAnswer
    /\ backend = "off" /\ attached = FALSE /\ stopping = FALSE
    /\ queue = {} /\ request = NoRange /\ sent = 0 /\ chunk = 0 /\ summary = None
    /\ size \in [Files -> Sizes]
    /\ total = [f \in Files |-> 0]
    /\ coverage = [f \in Files |-> <<>>]
    /\ delivered = [f \in Files |-> {}] /\ read = [f \in Files |-> {}]
    /\ requests = 0 /\ servers = 0 /\ changes = 0

-----------------------------------------------------------------------------
(* What ends on either side.                                               *)

\* serve() returns or raises: its handle of the device is disposed of.
BackendGoes(pc) ==
    /\ backend' = pc
    /\ attached' = (attached /\ pc # "off")

\* The test at the top of the loop of serve().
LoopTop == IF stopping THEN "off" ELSE "header"

(* Mutant of ConsoleFails: the device stays open after a failure. *)
ConsoleFailsOpen ==
    /\ console' = "menu"
    /\ got' = <<>>
    /\ answer' = [what |-> "failed"]
    /\ UNCHANGED <<connected, attached, catalog, asked>>

\* A transfer of the console fails: the adapter closes the device, and the
\* list that was arriving may have overwritten catalog_buffer in part.
ConsoleFails ==
    /\ console' = IF console \in {"askExit", "exitHeader"} THEN "closed" ELSE "menu"
    /\ connected' = FALSE
    /\ attached' = FALSE
    /\ catalog' \in IF console = "listPayload" /\ catalog # None
                    THEN {catalog, Torn} ELSE {catalog}
    /\ got' = <<>>
    /\ answer' = [what |-> "failed"]
    /\ UNCHANGED asked

-----------------------------------------------------------------------------
(* The console's menu.                                                     *)

\* ensure_connected() opens the device unless it is open; a request follows.
Asks(pc) ==
    /\ console = "menu"
    /\ requests < MaxRequests
    /\ requests' = requests + 1
    /\ console' = pc
    /\ connected' = TRUE
    /\ got' = <<>>
    /\ answer' = NoAnswer
    /\ UNCHANGED <<catalog, backend, attached, stopping, serverVars, size, servers, changes>>

ListFiles == Asks("askList") /\ UNCHANGED asked

\* ts_probe_remote_file() asks for a byte of a file of the catalogue; the port
\* it calls, read_file_range(), takes any range.
ReadRange ==
    /\ catalog # None
    /\ \E name \in IF catalog = Torn THEN Files \cup {Torn} ELSE catalog, r \in Ranges :
          asked' = [name |-> name, offset |-> r.offset, size |-> r.size]
    /\ Asks("askRange")

\* ts_dbi_catalog_adapter_close(), when the menu is left.
Leave ==
    /\ console = "menu"
    /\ console' = IF connected THEN "askExit" ELSE "closed"
    /\ UNCHANGED <<connected, catalog, asked, got, answer, backend, attached,
                   stopping, serverVars, size, bounds>>

-----------------------------------------------------------------------------
(* Transfers: a write of one side meets a read of the other.               *)

ConsoleWritten ==
    /\ console' = ConsoleThen[console]
    /\ UNCHANGED <<connected, catalog, asked, got, answer>>

\* serve() reads a header; it looks at the command and not at the type.
ServerReadsHeader ==
    /\ backend = "header" /\ attached /\ console \in DOMAIN ConsoleWrites
    /\ backend' = [exit |-> "exitHeader", list |-> "listHeader",
                   range |-> "rangeAck"][ConsoleWrites[console].command]
    /\ ConsoleWritten
    /\ UNCHANGED <<attached, stopping, serverVars, size, bounds>>

\* _handle_list() and _handle_file_range() read a header and insist on an ACK.
ServerReadsAck ==
    /\ backend \in {"listAck", "rangeGo"} /\ attached
    /\ console \in DOMAIN ConsoleWrites
    /\ BackendGoes(IF ConsoleWrites[console].type # "ack" THEN "off"
                   ELSE IF backend = "listAck" THEN "listPayload" ELSE "chunk")
    /\ sent' = 0
    /\ ConsoleWritten
    /\ UNCHANGED <<stopping, queue, total, coverage, request, chunk, summary,
                   delivered, read, size, bounds>>

\* validate_for(): a file of the queue, and a range inside it as it is now.
InFile(r) == r.name \in queue /\ r.offset + r.size =< size[r.name]

ServerReadsRequest ==
    /\ backend = "rangeRequest" /\ attached /\ console = "rangeRequest"
    /\ request' = asked
    /\ BackendGoes(IF InFile(asked) THEN "rangeHeader" ELSE "off")
    /\ ConsoleWritten
    /\ UNCHANGED <<stopping, queue, total, coverage, sent, chunk, summary,
                   delivered, read, size, bounds>>

\* A header the console did not expect, a list that does not fit in its
\* buffer, a range of another length.
Refused(header) ==
    \/ <<header.type, header.command>> # ConsoleExpects[console]
    \/ console = "listHeader" /\ header.size >= Capacity
    \/ console = "rangeHeader" /\ header.size # asked.size

ConsoleReadsHeader ==
    /\ attached
    /\ backend \in DOMAIN ServerWrites /\ console \in DOMAIN ConsoleExpects
    /\ backend' = [listHeader |-> "listAck", rangeAck |-> "rangeRequest",
                   rangeHeader |-> "rangeGo", exitHeader |-> "off"][backend]
    /\ summary' = IF backend # "exitHeader" THEN summary
                  ELSE [f \in queue |-> Status(coverage[f], total[f])]
    /\ IF Refused(ServerWrites[backend])
       THEN ConsoleFails
       ELSE /\ console' = [listHeader |-> "listAck", rangeAck |-> "rangeRequest",
                           rangeHeader |-> "rangeGo", exitHeader |-> "closed"][console]
            /\ connected' = (console # "exitHeader")
            /\ attached' = (backend # "exitHeader")
            /\ UNCHANGED <<catalog, asked, got, answer>>
    /\ UNCHANGED <<stopping, queue, total, coverage, request, sent, chunk,
                   delivered, read, size, bounds>>

ConsoleReadsList ==
    /\ attached /\ backend = "listPayload" /\ console = "listPayload"
    /\ console' = "menu"
    /\ catalog' = queue
    /\ answer' = [what |-> "list", names |-> queue]
    /\ BackendGoes(LoopTop)
    /\ UNCHANGED <<connected, asked, got, stopping, serverVars, size, bounds>>

-----------------------------------------------------------------------------
(* TransferFileRange.execute()                                             *)

Available == Smaller(Chunk, Smaller(request.size - sent,
                                    size[request.name] - request.offset - sent))

\* The next chunk is read from the disk, and the person's stop looked at.  A
\* file that has shrunk under the range ends the transfer with an error.
NextChunk ==
    /\ backend = "chunk"
    /\ LET goes == /\ ~stopping
                   /\ sent = 0 => InFile(request)
                   /\ Available > 0
       IN  /\ BackendGoes(IF goes THEN "chunkData" ELSE "off")
           /\ chunk' = IF goes THEN Available ELSE 0
    /\ UNCHANGED <<consoleVars, stopping, queue, total, coverage, request, sent,
                   summary, delivered, read, size, bounds>>

(* Mutant of ChunkFirst: each chunk is read from the start of the range. *)
ChunkFirstAgain == request.offset

\* Positions of the chunk in the file.
ChunkFirst == request.offset + sent
ChunkPositions == ChunkFirst .. ChunkFirst + chunk - 1

\* The chunk is written; the console's read of the range ends with its last.
SendChunk ==
    /\ attached /\ backend = "chunkData" /\ console = "data"
    /\ got' = got \o [i \in 1 .. chunk |-> <<request.name, ChunkFirst + i - 1>>]
    /\ coverage' = [coverage EXCEPT ![request.name] =
                       Covered(@, total[request.name], ChunkFirst, ChunkFirst + chunk)]
    /\ delivered' = [delivered EXCEPT ![request.name] = @ \cup ChunkPositions]
    /\ sent' = sent + chunk
    /\ chunk' = 0
    /\ BackendGoes(IF sent' = request.size THEN LoopTop ELSE "chunk")
    /\ IF Len(got') >= asked.size
       THEN /\ console' = "menu"
            /\ answer' = [what |-> "range", range |-> asked, bytes |-> got']
            /\ read' = [read EXCEPT ![asked.name] = @ \cup {got'[i][2] : i \in 1 .. Len(got')}]
       ELSE UNCHANGED <<console, answer, read>>
    /\ UNCHANGED <<connected, catalog, asked, stopping, queue, total, request,
                   summary, size, bounds>>

-----------------------------------------------------------------------------
(* The PC's program and the cable.                                         *)

\* A person starts a server for the files in the queue: a new object with new
\* coverage.  The button is enabled again only once the last worker ended.
Start ==
    /\ ~Running /\ servers < MaxServers
    /\ servers' = servers + 1
    /\ backend' = "connect"
    /\ stopping' = FALSE
    /\ queue' \in SUBSET Files \ {{}}
    /\ total' = size
    /\ coverage' = [f \in Files |-> <<>>]
    /\ delivered' = [f \in Files |-> {}] /\ read' = [f \in Files |-> {}]
    /\ summary' = None
    /\ request' = NoRange /\ sent' = 0 /\ chunk' = 0
    /\ UNCHANGED <<consoleVars, attached, size, requests, changes>>

\* _connect() finds the open device and resets it: a transfer the console has
\* posted is lost, except a request that waits for the device to be ready.
Connect ==
    /\ backend = "connect" /\ connected
    /\ backend' = LoopTop
    /\ \/ /\ ~Busy \/ console \in Asking
          /\ attached' = ~stopping
          /\ UNCHANGED consoleVars
       \/ Busy /\ ConsoleFails
    /\ UNCHANGED <<stopping, serverVars, size, bounds>>

\* It gives up: the device cannot be opened, or the person stopped it.
ConnectEnds ==
    /\ backend = "connect"
    /\ connected \/ stopping
    /\ BackendGoes("off")
    /\ \/ UNCHANGED consoleVars
       \/ connected /\ Busy /\ ConsoleFails
    /\ UNCHANGED <<stopping, serverVars, size, bounds>>

(* Mutant of LosesDevice: the server goes on waiting for a command. *)
LosesDeviceLater ==
    /\ Running /\ backend \notin {"connect", "header"} /\ ~attached
    /\ backend' = "off"
    /\ UNCHANGED <<consoleVars, attached, stopping, serverVars, size, bounds>>

\* A transfer of the server on a device that is gone raises.
LosesDevice ==
    /\ Running /\ backend # "connect" /\ ~attached
    /\ backend' = "off"
    /\ UNCHANGED <<consoleVars, attached, stopping, serverVars, size, bounds>>

\* The cable is pulled, or the console is suspended.
LinkFails ==
    /\ connected
    /\ IF Busy THEN ConsoleFails ELSE attached' = FALSE /\ UNCHANGED consoleVars
    /\ UNCHANGED <<backend, stopping, serverVars, size, bounds>>

\* The stop button.
Stop ==
    /\ Running /\ ~stopping
    /\ stopping' = TRUE
    /\ UNCHANGED <<consoleVars, backend, attached, serverVars, size, bounds>>

\* The window is closed: the daemon thread dies wherever it is.
CloseProgram ==
    /\ Running
    /\ BackendGoes("off")
    /\ UNCHANGED <<consoleVars, stopping, serverVars, size, bounds>>

\* Another program writes to a file of the PC.
FileChanges ==
    /\ changes < MaxChanges
    /\ changes' = changes + 1
    /\ \E f \in Files, n \in Sizes : size' = [size EXCEPT ![f] = n]
    /\ UNCHANGED <<consoleVars, backend, attached, stopping, serverVars, requests, servers>>

Transfer ==
    \/ ServerReadsHeader \/ ServerReadsAck \/ ServerReadsRequest
    \/ ConsoleReadsHeader \/ ConsoleReadsList \/ SendChunk
ServerAlone == NextChunk \/ Connect \/ ConnectEnds \/ LosesDevice

Next ==
    \/ ListFiles \/ ReadRange \/ Leave
    \/ Transfer \/ ServerAlone
    \/ Start \/ Stop \/ CloseProgram \/ LinkFails \/ FileChanges

Spec == Init /\ [][Next]_vars /\ WF_vars(Transfer) /\ WF_vars(ServerAlone)

-----------------------------------------------------------------------------
(* Properties                                                              *)

\* Whenever the server holds a live device, what it has posted meets what the
\* console has posted: whatever was interrupted before, no side ever reads as
\* the answer to one command what was written for another.  The server checks
\* no type of a command, so this rests on the console closing the device at
\* every failure (disconnect() at each fail label).
Meets ==
    [header |-> Idle \cup Asking, listHeader |-> {"listHeader"},
     listAck |-> {"listAck"}, listPayload |-> {"listPayload"},
     rangeAck |-> {"rangeAck"}, rangeRequest |-> {"rangeRequest"},
     rangeHeader |-> {"rangeHeader"}, rangeGo |-> {"rangeGo"},
     chunk |-> {"data"}, chunkData |-> {"data"}, exitHeader |-> {"exitHeader"}]
InStep == attached => backend \in DOMAIN Meets /\ console \in Meets[backend]

\* A request that succeeds returned what was asked: the names of the server
\* that answered, or every byte of the range of that file, in order.
AnswersAreRight ==
    [][ /\ answer'.what = "list" /\ answer.what # "list" => answer'.names = queue
        /\ answer'.what = "range" /\ answer.what # "range" =>
              answer'.bytes = [i \in 1 .. asked.size |-> <<asked.name, asked.offset + i - 1>>] ]_vars

\* The bytes the server reports of a file are the different bytes of it that
\* were written, however the ranges of the session overlap, repeat or touch; and
\* a file the summary calls "enviado" was read whole by the console, in reads
\* that succeeded (docs/protocol.md:19 "archivo enviado completamente").
SummaryIsRight ==
    /\ \A f \in queue : Transferred(coverage[f]) =
                           Cardinality(delivered[f] \cap (0 .. total[f] - 1))
    /\ summary # None =>
          \A f \in queue : summary[f] = "enviado" => 0 .. total[f] - 1 \subseteq read[f]

\* A request under way ends, or the server has ended and the console, which
\* has no timeout, is left to wait for the next one.
RequestEnds == Busy ~> (~Busy \/ backend = "off")
=============================================================================

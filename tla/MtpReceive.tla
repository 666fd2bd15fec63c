------------------------------ MODULE MtpReceive ------------------------------
(***************************************************************************)
(* How the MTP server takes an object from the PC: MtpServer::run,         *)
(* handleRequest, doSendObjectInfo, doSendObject, receive_file and         *)
(* receive_sink (switch_app/vendor/mtp/source/MtpServer.cpp), with the     *)
(* entries ReadOnlySdDatabase keeps for objects being sent, the staging    *)
(* file behind "10: Safe Inbox" and the sink behind "5: SD Card install".  *)
(*                                                                         *)
(* The host is a separate process.  It sends a request and the packets of  *)
(* its data phase over a USB pipe, reads the answer, and may give up at    *)
(* any point, leaving what it sent in the pipe.  A read of the server      *)
(* returns the next packet, whatever it is, or nothing after one second of *)
(* silence.  The server writes an answer without a timeout.  Data is       *)
(* counted in blocks; whatever is read in place of a block is Scrap, which *)
(* may be too short to count or exactly as long as one.                    *)
(***************************************************************************)
EXTENDS Integers, Sequences

CONSTANTS
    Objects,       \* what the host may send: a name in one storage
    Object,        \* [Objects -> [storage, blocks, sized]]
    NoObject,
    Scrap,         \* bytes of something else, read as object data
    Hosts,         \* the sets of objects a host may be working with
    WireCapacity,  \* packets the USB pipe holds
    MaxRequests,   \* requests the host makes, to bound the model
    FailingCalls   \* the calls that may fail, of FallibleCalls

FallibleCalls ==
    {"CheckInfo", "MakeStaging", "OpenSink", "CreateTemp", "WriteTemp", "PublishTemp",
     "SinkWrite", "SinkFinish"}

ASSUME ObjectAssumption ==
    /\ Object \in [Objects -> [storage: {"inbox", "install"}, blocks: Nat, sized: BOOLEAN]]
    /\ \A o \in Objects : Object[o].storage = "inbox" => Object[o].sized
    /\ NoObject \notin Objects
    /\ Scrap \notin (Objects \cup {NoObject}) \X Nat
    /\ Hosts \subseteq SUBSET Objects

ASSUME BoundsAssumption ==
    /\ WireCapacity \in Nat \ {0}
    /\ MaxRequests \in Nat
    /\ FailingCalls \subseteq FallibleCalls

VARIABLES
    (* The host. *)
    objects,     \* what it works with
    hostPc,      \* "idle", "sending" or "awaiting" an answer
    asked,       \* its current request: [op, obj, tid]
    left,        \* the packets of it that are still to be sent
    offered,     \* the object whose SendObjectInfo was just accepted
    confirmed,   \* the objects it was told were stored
    (* The pipe from the host to the server. *)
    wire,
    (* The server thread and MtpServer's fields, named as there. *)
    pc, request, described, result, detail, mRunning, mSessionOpen,
    mSendObjectHandle, mSendObjectSink, mSendObjectSinkCompleted,
    transferred, sink_rejected,
    (* What outlives a transaction. *)
    entries,     \* ReadOnlySdDatabase: [Objects -> absent, pending or present]
    temp,        \* the .partial file in the staging directory
    orphan,      \* it was left there by a process that died
    files,       \* the files of the Inbox
    installed    \* what the sinks of each object had received when finish() succeeded

hostVars == <<objects, hostPc, asked, left, offered, confirmed>>
requestVars == <<request, described>>
sessionVars == <<mRunning, mSessionOpen>>
receiveVars == <<transferred, sink_rejected>>
sinkVars == <<mSendObjectSink, mSendObjectSinkCompleted>>
store == <<temp, orphan, files, installed>>
vars == <<hostVars, wire, pc, requestVars, result, detail, sessionVars, mSendObjectHandle,
          sinkVars, receiveVars, entries, store>>

Operations == {"SendObjectInfo", "SendObject", "OpenSession", "CloseSession", "Other"}
Data == (Objects \X Nat) \cup {Scrap}
NoFile == <<<<NoObject, 0>>>>
NoSink == [for |-> NoObject, got |-> <<>>, known |-> FALSE, failed |-> FALSE, ended |-> FALSE]
NoRequest == [op |-> "Other", obj |-> NoObject, tid |-> 0]
Whole(o) == [n \in 1..Object[o].blocks |-> <<o, n>>]

Init ==
    /\ objects \in Hosts
    /\ hostPc = "idle"
    /\ asked = NoRequest
    /\ left = <<>>
    /\ offered = NoObject
    /\ confirmed = {}
    /\ wire = <<>>
    /\ pc = "request"
    /\ request = NoRequest
    /\ described = NoObject
    /\ result = "OK"
    /\ detail = "none"
    /\ mRunning = TRUE
    /\ mSessionOpen = FALSE
    /\ mSendObjectHandle = NoObject
    /\ mSendObjectSink = NoSink
    /\ mSendObjectSinkCompleted = FALSE
    /\ transferred = 0
    /\ sink_rejected = FALSE
    /\ entries = [o \in Objects |-> "absent"]
    /\ temp = NoFile
    /\ orphan = FALSE
    /\ files = [o \in Objects |-> NoFile]
    /\ installed = [o \in Objects |-> {}]

-----------------------------------------------------------------------------
(* The host. *)

Packet(kind, r, n) == [kind |-> kind, op |-> r.op, obj |-> r.obj, tid |-> r.tid, block |-> n]

(* The packets of a request.  The header of an object carries its first block. *)
Packets(r) ==
    <<Packet("request", r, 0)>> \o
    CASE r.op = "SendObjectInfo" -> <<Packet("dataset", r, 0)>>
      [] r.op = "SendObject" ->
            [n \in 1..(IF Object[r.obj].blocks = 0 THEN 1 ELSE Object[r.obj].blocks) |->
                Packet(IF n = 1 THEN "header" ELSE "block", r, n)]
      [] OTHER -> <<>>

(* A host sends an object only after its SendObjectInfo was accepted. *)
HostAsks(op, o) ==
    /\ hostPc = "idle"
    /\ asked.tid < MaxRequests
    /\ op = "SendObject" => o = offered
    /\ op \in {"SendObjectInfo", "SendObject"} <=> o # NoObject
    /\ asked' = [op |-> op, obj |-> o, tid |-> asked.tid + 1]
    /\ left' = Packets(asked')
    /\ hostPc' = "sending"
    /\ offered' = NoObject
    /\ UNCHANGED <<objects, confirmed, wire, pc, requestVars, result, detail, sessionVars,
                   mSendObjectHandle, sinkVars, receiveVars, entries, store>>

HostSends ==
    /\ hostPc = "sending"
    /\ Len(wire) < WireCapacity
    /\ wire' = Append(wire, Head(left))
    /\ left' = Tail(left)
    /\ hostPc' = IF Len(left) = 1 THEN "awaiting" ELSE "sending"
    /\ UNCHANGED <<objects, asked, offered, confirmed, pc, requestVars, result, detail,
                   sessionVars, mSendObjectHandle, sinkVars, receiveVars, entries, store>>

(* The user cancels, or the host loses patience. *)
HostGivesUp ==
    /\ hostPc \in {"sending", "awaiting"}
    /\ hostPc' = "idle"
    /\ left' = <<>>
    /\ UNCHANGED <<objects, asked, offered, confirmed, wire, pc, requestVars, result, detail,
                   sessionVars, mSendObjectHandle, sinkVars, receiveVars, entries, store>>

-----------------------------------------------------------------------------
(* Reading a request. *)

MayFail(call) == call \in FailingCalls

(* A container that is no request has its operation code and transaction id  *)
(* where a request has them; a block has neither.                            *)
AsRequest(p) ==
    CASE p.kind = "request" -> [op |-> p.op, obj |-> p.obj, tid |-> p.tid]
      [] p.kind \in {"dataset", "header"} -> [op |-> p.op, obj |-> NoObject, tid |-> p.tid]
      [] p.kind = "block" -> NoRequest

(* mRequest.read() returns a packet. *)
ReadRequest ==
    /\ pc = "request"
    /\ wire # <<>>
    /\ wire' = Tail(wire)
    /\ request' = AsRequest(Head(wire))
    /\ described' = NoObject
    /\ pc' = IF request'.op = "SendObjectInfo" THEN "dataset" ELSE "handle"
    /\ UNCHANGED <<hostVars, result, detail, sessionVars, mSendObjectHandle, sinkVars,
                   receiveVars, entries, store>>

(* Mutant of NextRequest: the loop never looks at mRunning. *)
NextRequestAnyway == pc' = "request"

(* The loop of run() goes on as long as nobody called stop(). *)
NextRequest == pc' = IF mRunning THEN "request" ELSE "leaving"

(* Mutant of Silence: a read waits for ever. *)
NoSilence == FALSE

(* A read returns nothing after one second without a packet.  One that comes *)
(* while the read is being cancelled is lost.                                *)
Silence == wire' = (IF wire = <<>> THEN wire ELSE Tail(wire))

(* The locals of handleRequest and doSendObject go, and the packets are reset. *)
LocalsEnd ==
    /\ request' = NoRequest /\ described' = NoObject
    /\ result' = "OK" /\ detail' = "none"
    /\ transferred' = 0 /\ sink_rejected' = FALSE

(* mRequest.read() returns 0, or mData.read() of a SendObjectInfo returns -1: *)
(* the request is dropped without an answer.                                  *)
RequestTimesOut ==
    /\ pc \in {"request", "dataset"}
    /\ Silence
    /\ NextRequest
    /\ LocalsEnd
    /\ UNCHANGED <<hostVars, sessionVars, mSendObjectHandle, sinkVars, entries, store>>

ReadDataset ==
    /\ pc = "dataset"
    /\ wire # <<>>
    /\ wire' = Tail(wire)
    /\ described' = IF Head(wire).kind = "dataset" THEN Head(wire).obj ELSE NoObject
    /\ pc' = "handle"
    /\ UNCHANGED <<hostVars, request, result, detail, sessionVars, mSendObjectHandle, sinkVars,
                   receiveVars, entries, store>>

-----------------------------------------------------------------------------
(* handleRequest: every request but SendObject first drops the pending object *)
(* (endSendObject with succeeded = false).  The sink stays.                   *)

Answer(code) == result' = code /\ pc' = "respond"

(* Mutant of Surviving: the entry of a dropped object is not erased. *)
Leaked == entries

Surviving ==
    IF mSendObjectHandle = NoObject THEN entries
    ELSE [entries EXCEPT ![mSendObjectHandle] = "absent"]

(* The dataset is that of the request (scrap taken for one or the other has  *)
(* no valid storage or name), and beginSendObject finds the name free, on    *)
(* disk and among its entries.                                               *)
InfoUsable ==
    /\ request.obj # NoObject /\ described = request.obj
    /\ files[described] = NoFile /\ Surviving[described] = "absent"

(* doSendObjectInfo refuses, for that or for the space or the size.          *)
InfoRefused ==
    /\ pc = "handle"
    /\ request.op = "SendObjectInfo"
    /\ ~InfoUsable \/ MayFail("CheckInfo")
    /\ Answer("Refused")
    /\ entries' = Surviving
    /\ mSendObjectHandle' = NoObject
    /\ UNCHANGED <<hostVars, wire, requestVars, detail, sessionVars, sinkVars, receiveVars,
                   store>>

(* The object is accepted: its entry is pending until endSendObject.          *)
InfoAccepted ==
    /\ Answer("OK")
    /\ entries' = [Surviving EXCEPT ![described] = "pending"]
    /\ mSendObjectHandle' = described

(* For the Inbox the staging directory is made, unless a sink is there.       *)
InfoStaged ==
    /\ pc = "handle"
    /\ request.op = "SendObjectInfo"
    /\ InfoUsable
    /\ Object[described].storage = "inbox"
    /\ \/ InfoAccepted
       \/ /\ MayFail("MakeStaging") /\ mSendObjectSink = NoSink
          /\ Answer("GeneralError")
          /\ entries' = Surviving
          /\ mSendObjectHandle' = NoObject
    /\ UNCHANGED <<hostVars, wire, requestVars, detail, sessionVars, sinkVars, receiveVars,
                   store>>

(* Mutant of OpenedSink: a sink that was left over is used again. *)
KeptSink(o) ==
    IF mSendObjectSink = NoSink
    THEN [NoSink EXCEPT !.for = o, !.known = Object[o].sized]
    ELSE mSendObjectSink

OpenedSink(o) == [NoSink EXCEPT !.for = o, !.known = Object[o].sized]

(* For the install storage a sink is opened; it replaces one that was left    *)
(* over, whose destructor aborts it.                                          *)
InfoSink ==
    /\ pc = "handle"
    /\ request.op = "SendObjectInfo"
    /\ InfoUsable
    /\ Object[described].storage = "install"
    /\ mSendObjectSinkCompleted' = FALSE
    /\ \/ /\ InfoAccepted
          /\ mSendObjectSink' = OpenedSink(described)
       \/ /\ MayFail("OpenSink")
          /\ Answer("InvalidDataset")
          /\ entries' = Surviving
          /\ mSendObjectHandle' = NoObject
          /\ mSendObjectSink' = NoSink
    /\ UNCHANGED <<hostVars, wire, requestVars, detail, sessionVars, receiveVars,
                   store>>

OfStorage(storage) == {o \in Objects : Object[o].storage = storage}
Forgotten(known, which) == [o \in Objects |-> IF o \in which THEN "absent" ELSE known[o]]

(* sessionStarted clears the database; sessionEnded only the action storage. *)
HandleOpenSession ==
    /\ pc = "handle"
    /\ request.op = "OpenSession"
    /\ IF mSessionOpen
       THEN Answer("Refused") /\ entries' = Surviving
       ELSE Answer("OK") /\ entries' = Forgotten(Surviving, Objects)
    /\ mSessionOpen' = TRUE
    /\ mSendObjectHandle' = NoObject
    /\ UNCHANGED <<hostVars, wire, requestVars, detail, mRunning, sinkVars, receiveVars,
                   store>>

HandleCloseSession ==
    /\ pc = "handle"
    /\ request.op = "CloseSession"
    /\ IF mSessionOpen
       THEN Answer("OK") /\ entries' = Forgotten(Surviving, OfStorage("install"))
       ELSE Answer("Refused") /\ entries' = Surviving
    /\ mSessionOpen' = FALSE
    /\ mSendObjectHandle' = NoObject
    /\ UNCHANGED <<hostVars, wire, requestVars, detail, mRunning, sinkVars, receiveVars,
                   store>>

(* Any other operation, or one the server does not know. *)
HandleOther ==
    /\ pc = "handle"
    /\ request.op = "Other"
    /\ Answer("OK")
    /\ entries' = Surviving
    /\ mSendObjectHandle' = NoObject
    /\ UNCHANGED <<hostVars, wire, requestVars, detail, sessionVars, sinkVars, receiveVars,
                   store>>

HandleSendObject ==
    /\ pc = "handle"
    /\ request.op = "SendObject"
    /\ IF mSendObjectHandle = NoObject
       THEN Answer("NoValidObjectInfo") /\ UNCHANGED <<transferred, sink_rejected, detail>>
       ELSE /\ pc' = "header" /\ result' = "OK" /\ detail' = "done"
            /\ transferred' = 0 /\ sink_rejected' = FALSE
    /\ UNCHANGED <<hostVars, wire, requestVars, sessionVars, mSendObjectHandle, sinkVars,
                   entries, store>>

-----------------------------------------------------------------------------
(* doSendObject. *)

Sink == mSendObjectSink
Staged == Sink = NoSink
Size == Object[mSendObjectHandle].blocks
SizeKnown == Object[mSendObjectHandle].sized
FinalSize == Object[Sink.for].blocks

(* What a read leaves in the buffer: the data of the packet it expects, or the *)
(* scrap of another, which may be shorter than a block.                        *)
Expected(p) == IF Object[p.obj].blocks = 0 THEN <<>> ELSE <<<<p.obj, p.block>>>>
DataOf(p, kind) == IF p.kind = kind THEN {Expected(p)} ELSE {<<>>, <<Scrap>>}

(* SendObject goes wrong: result and detail are set and the loop is left. *)
TransferFails(code, reason) ==
    /\ result' = code
    /\ detail' = reason
    /\ pc' = "finish"

(* write() of the sink: it takes the data or refuses, and refuses whatever   *)
(* exceeds the package.  It may have found the package's size by then.       *)
SinkTakes(data) ==
    /\ ~Sink.failed
    /\ Len(Sink.got) + Len(data) <= FinalSize
    /\ \E known \in {Sink.known, TRUE} :
          mSendObjectSink' = [Sink EXCEPT !.got = @ \o data,
                                          !.known = IF data = <<>> THEN Sink.known ELSE known]
    /\ sink_rejected' = FALSE

SinkRefuses(data) ==
    /\ data # <<>>
    /\ Sink.failed \/ Len(Sink.got) + Len(data) > FinalSize \/ MayFail("SinkWrite")
    /\ mSendObjectSink' = [Sink EXCEPT !.failed = TRUE]
    /\ sink_rejected' = TRUE

(* Mutant of MoreToReceive: a rejected object is not drained. *)
MoreToAccept(sink, count) ==
    /\ ~sink.failed
    /\ IF SizeKnown THEN count < Size ELSE ~(sink.known /\ count >= FinalSize)

(* The conditions of the loops of receive_file and receive_sink. *)
MoreToReceive(sink, count) ==
    IF SizeKnown THEN count < Size ELSE ~(sink.known /\ count >= FinalSize)

(* Mutant of Continue: a rejection ends the reception like a failed read. *)
ContinueUnlessRejected ==
    IF sink_rejected'
    THEN pc' = "finish" /\ result' = "GeneralError" /\ detail' = "reception"
    ELSE /\ pc' = IF MoreToReceive(mSendObjectSink', transferred') THEN "receive" ELSE "finish"
         /\ UNCHANGED <<result, detail>>

(* After a read: go on, or leave the loop with what a rejection amounts to.  *)
Continue ==
    IF MoreToReceive(mSendObjectSink', transferred')
    THEN pc' = "receive" /\ UNCHANGED <<result, detail>>
    ELSE /\ pc' = "finish"
         /\ IF sink_rejected' THEN result' = "InvalidDataset" /\ detail' = "sink"
            ELSE UNCHANGED <<result, detail>>

(* Mutant of Cleared: a .partial file that is there is not unlinked. *)
Uncleared == temp

(* The staging directory before open() with O_EXCL.                          *)
Cleared == NoFile

(* The first read brings the container header and the beginning of the data. *)
(* A rejection of an object that fits in it is left to finish().             *)
ReadHeader ==
    /\ pc = "header"
    /\ wire # <<>>
    /\ wire' = Tail(wire)
    /\ orphan' = (orphan /\ ~Staged)
    /\ \E data \in DataOf(Head(wire), "header") :
          \/ /\ SizeKnown /\ Len(data) > Size
             /\ TransferFails("InvalidDataset", "size")
             /\ temp' = IF Staged THEN Cleared ELSE temp
             /\ UNCHANGED <<mSendObjectSink, receiveVars>>
          \/ /\ ~(SizeKnown /\ Len(data) > Size)
             /\ Staged /\ Cleared = NoFile
             /\ temp' = data
             /\ transferred' = Len(data)
             /\ UNCHANGED <<mSendObjectSink, sink_rejected>>
             /\ Continue
          \/ /\ ~(SizeKnown /\ Len(data) > Size)
             /\ Staged
             /\ \/ MayFail("CreateTemp") /\ temp' = NoFile /\ TransferFails("GeneralError", "file")
                \/ /\ MayFail("WriteTemp") /\ data # <<>> /\ Cleared = NoFile
                   /\ temp' = <<>>
                   /\ TransferFails("GeneralError", "file")
                \/ /\ Cleared # NoFile
                   /\ temp' = Cleared
                   /\ TransferFails("GeneralError", "exists")
             /\ UNCHANGED <<mSendObjectSink, receiveVars>>
          \/ /\ ~(SizeKnown /\ Len(data) > Size)
             /\ ~Staged
             /\ SinkTakes(data) \/ SinkRefuses(data)
             /\ transferred' = Len(data)
             /\ IF SizeKnown /\ transferred' = Size
                THEN pc' = "finish" /\ UNCHANGED <<result, detail>>
                ELSE Continue
             /\ UNCHANGED temp
    /\ UNCHANGED <<hostVars, requestVars, sessionVars, mSendObjectHandle,
                   mSendObjectSinkCompleted, entries, files, installed>>

(* receive_file: a block goes to the temporary file. *)
ReceiveToFile ==
    /\ pc = "receive"
    /\ wire # <<>>
    /\ Staged
    /\ wire' = Tail(wire)
    /\ \E data \in DataOf(Head(wire), "block") :
          \/ /\ temp' = temp \o data
             /\ transferred' = transferred + Len(data)
             /\ UNCHANGED <<mSendObjectSink, sink_rejected>>
             /\ Continue
          \/ /\ MayFail("WriteTemp")
             /\ TransferFails("GeneralError", "reception")
             /\ UNCHANGED <<mSendObjectSink, temp, receiveVars>>
    /\ UNCHANGED <<hostVars, requestVars, sessionVars, mSendObjectHandle,
                   mSendObjectSinkCompleted, entries, orphan, files, installed>>

(* receive_sink: a block goes to the sink; once it has refused one, the rest  *)
(* of the object is read and thrown away.                                     *)
ReceiveToSink ==
    /\ pc = "receive"
    /\ wire # <<>>
    /\ ~Staged
    /\ wire' = Tail(wire)
    /\ \E data \in DataOf(Head(wire), "block") :
          /\ IF sink_rejected
             THEN UNCHANGED <<mSendObjectSink, sink_rejected>>
             ELSE SinkTakes(data) \/ SinkRefuses(data)
          /\ transferred' = transferred + Len(data)
          /\ Continue
    /\ UNCHANGED <<hostVars, requestVars, sessionVars, mSendObjectHandle,
                   mSendObjectSinkCompleted, entries, store>>

(* One second of silence in a data phase ends the transfer. *)
TransferTimesOut ==
    /\ pc \in {"header", "receive"}
    /\ Silence
    /\ TransferFails("GeneralError", IF pc = "header" THEN "header" ELSE "reception")
    /\ UNCHANGED <<hostVars, requestVars, sessionVars, mSendObjectHandle, sinkVars,
                   receiveVars, entries, store>>

SinkIsDone == ~Staged

(* The common end of doSendObject: endSendObject, transferFinished, and the  *)
(* fields reset.  The sink is only marked; it dies after the answer.         *)
EndTransfer(code, reason) ==
    /\ Answer(code)
    /\ detail' = reason
    /\ entries' = [entries EXCEPT ![mSendObjectHandle] = IF code = "OK" THEN "present" ELSE "absent"]
    /\ mSendObjectHandle' = NoObject
    /\ mSendObjectSinkCompleted' = SinkIsDone

(* The temporary file has the announced size, is synced, closed and renamed. *)
PublishFile ==
    /\ pc = "finish" /\ result = "OK"
    /\ Staged
    /\ Len(temp) = Size /\ transferred = Size
    /\ files' = [files EXCEPT ![mSendObjectHandle] = temp]
    /\ temp' = NoFile
    /\ EndTransfer("OK", "done")
    /\ UNCHANGED <<hostVars, wire, requestVars, sessionVars, mSendObjectSink, receiveVars,
                   orphan, installed>>

Unlinked == NoFile

(* Mutant of FileFails: the result of rename() is not looked at. *)
FileFailsUnseen == EndTransfer("OK", "done")

FileFails == EndTransfer("GeneralError", "file")

(* Any failure before or in that sequence: the temporary file is unlinked. *)
DropFile ==
    /\ pc = "finish"
    /\ Staged
    /\ result # "OK" \/ Len(temp) # Size \/ transferred # Size \/ MayFail("PublishTemp")
    /\ temp' = Unlinked
    /\ orphan' = FALSE
    /\ IF result # "OK" THEN EndTransfer(result, detail) ELSE FileFails
    /\ UNCHANGED <<hostVars, wire, requestVars, sessionVars, mSendObjectSink, receiveVars,
                   files, installed>>

(* finish() of the sink wants every byte of the package, and may still fail. *)
FinishSink ==
    /\ pc = "finish" /\ result = "OK"
    /\ ~Staged
    /\ Sink.known /\ transferred = FinalSize
    /\ ~Sink.failed /\ Len(Sink.got) = FinalSize
    /\ mSendObjectSink' = [Sink EXCEPT !.ended = TRUE]
    /\ installed' = [installed EXCEPT ![Sink.for] = @ \cup {Sink.got}]
    /\ EndTransfer("OK", "done")
    /\ UNCHANGED <<hostVars, wire, requestVars, sessionVars, receiveVars, temp, orphan,
                   files>>

(* Any failure: abort() of the sink. *)
AbortSink ==
    /\ pc = "finish"
    /\ ~Staged
    /\ mSendObjectSink' = [Sink EXCEPT !.ended = TRUE]
    /\ \/ result # "OK" /\ EndTransfer(result, detail)
       \/ /\ result = "OK"
          /\ ~Sink.known \/ transferred # FinalSize
          /\ EndTransfer("GeneralError", "size")
       \/ /\ result = "OK"
          /\ Sink.known /\ transferred = FinalSize
          /\ Sink.failed \/ Len(Sink.got) # FinalSize \/ MayFail("SinkFinish")
          /\ EndTransfer("GeneralError", "sink")
    /\ UNCHANGED <<hostVars, wire, requestVars, sessionVars, receiveVars, store>>

-----------------------------------------------------------------------------
(* mResponse.write() returns when the host has read the answer; it has no     *)
(* timeout.  A host that waits for one reads it.  One that is idle may still   *)
(* read it, and drop it, or never come back: see AnswerUnread.  Then a sink    *)
(* that is done with is destroyed.                                            *)
Respond ==
    /\ pc = "respond"
    /\ hostPc \in {"idle", "awaiting"}
    /\ IF hostPc = "awaiting" /\ asked.tid = request.tid
       THEN /\ hostPc' = "idle"
            /\ offered' = IF asked.op = "SendObjectInfo" /\ result = "OK"
                          THEN asked.obj ELSE NoObject
            /\ confirmed' = IF asked.op = "SendObject" /\ result = "OK"
                            THEN confirmed \cup {asked.obj} ELSE confirmed
       ELSE UNCHANGED <<hostPc, offered, confirmed>>
    /\ IF mSendObjectSinkCompleted
       THEN mSendObjectSink' = NoSink /\ mSendObjectSinkCompleted' = FALSE
       ELSE UNCHANGED sinkVars
    /\ NextRequest
    /\ LocalsEnd
    /\ UNCHANGED <<objects, asked, left, wire, sessionVars, mSendObjectHandle, entries, store>>

(* B or +: the input thread calls stop(). *)
Stop ==
    /\ mRunning
    /\ pc # "stopped"
    /\ mRunning' = FALSE
    /\ UNCHANGED <<hostVars, wire, pc, requestVars, result, detail, mSessionOpen,
                   mSendObjectHandle, sinkVars, receiveVars, entries, store>>

(* What ends with the process: the server with its database, and the sink.  *)
ServerIsGone ==
    /\ pc' = "stopped"
    /\ mSessionOpen' = FALSE
    /\ mSendObjectHandle' = NoObject
    /\ mSendObjectSink' = NoSink
    /\ mSendObjectSinkCompleted' = FALSE
    /\ entries' = [o \in Objects |-> "absent"]
    /\ LocalsEnd
    /\ UNCHANGED <<hostVars, wire, files, installed>>

(* The end of run(), then of the server: the sink's destructor aborts it.    *)
Leave ==
    /\ pc = "leaving"
    /\ ServerIsGone
    /\ UNCHANGED <<mRunning, temp, orphan>>

(* The process is killed or the console loses power: a .partial file stays.  *)
Crash ==
    /\ pc # "stopped"
    /\ ServerIsGone
    /\ mRunning' = FALSE
    /\ orphan' = (temp # NoFile)
    /\ UNCHANGED temp

(* MTP is started again from the menu: a new server, a new database, and for *)
(* the host a new device.                                                    *)
Restart ==
    /\ pc = "stopped"
    /\ pc' = "request"
    /\ mRunning' = TRUE
    /\ wire' = <<>>
    /\ left' = <<>>
    /\ hostPc' = "idle"
    /\ offered' = NoObject
    /\ UNCHANGED <<objects, asked, confirmed, requestVars, result, detail, mSessionOpen,
                   mSendObjectHandle, sinkVars, receiveVars, entries, store>>

-----------------------------------------------------------------------------
HostStep ==
    \/ \E op \in Operations, o \in objects \cup {NoObject} : HostAsks(op, o)
    \/ HostSends \/ HostGivesUp

SendObjectStep ==
    \/ ReadHeader \/ ReceiveToFile \/ ReceiveToSink \/ TransferTimesOut
    \/ PublishFile \/ DropFile \/ FinishSink \/ AbortSink

ServerStep ==
    \/ ReadRequest \/ RequestTimesOut \/ ReadDataset
    \/ InfoRefused \/ InfoStaged \/ InfoSink
    \/ HandleOpenSession \/ HandleCloseSession \/ HandleOther \/ HandleSendObject
    \/ SendObjectStep \/ Respond \/ Leave

Next == HostStep \/ ServerStep \/ Stop \/ Crash \/ Restart

Spec == Init /\ [][Next]_vars

(* The server thread is in mResponse.write(), and no host asks for the answer. *)
AnswerUnread == pc = "respond" /\ hostPc # "awaiting"

(* The server thread is never starved, and its reads time out.  Nothing makes *)
(* a host read an answer it does not wait for.                                *)
FairSpec == Spec /\ WF_vars(ServerStep /\ ~AnswerUnread)

-----------------------------------------------------------------------------
(* Every variable has its type, and no more is received than was announced:  *)
(* receive_file and receive_sink never read past the size of the object.     *)
TypeOK ==
    /\ objects \in Hosts
    /\ hostPc \in {"idle", "sending", "awaiting"}
    /\ asked \in [op: Operations, obj: objects \cup {NoObject}, tid: 0..MaxRequests]
    /\ offered \in objects \cup {NoObject}
    /\ confirmed \subseteq objects
    /\ Len(wire) <= WireCapacity
    /\ pc \in {"request", "dataset", "handle", "header", "receive", "finish", "respond",
               "leaving", "stopped"}
    /\ request \in [op: Operations, obj: objects \cup {NoObject}, tid: 0..MaxRequests]
    /\ described \in objects \cup {NoObject}
    /\ result \in {"OK", "Refused", "GeneralError", "InvalidDataset", "NoValidObjectInfo"}
    /\ detail \in {"none", "done", "size", "file", "exists", "header", "reception",
                 "sink"}
    /\ mRunning \in BOOLEAN
    /\ mSessionOpen \in BOOLEAN
    /\ mSendObjectHandle \in objects \cup {NoObject}
    /\ mSendObjectSinkCompleted \in BOOLEAN
    /\ transferred \in Nat
    /\ mSendObjectHandle # NoObject /\ SizeKnown /\ pc \in {"receive", "finish"} => transferred <= Size
    /\ sink_rejected \in BOOLEAN
    /\ entries \in [Objects -> {"absent", "pending", "present"}]

(* What a host was told is stored, is stored: an object sent to the Inbox is *)
(* a file there with all its blocks in order, and one sent to the install    *)
(* storage went through a sink of its own that finished.  It relates the     *)
(* answers the host reads to the stores, across abandoned transfers whose    *)
(* packets and sinks are still around.                                       *)
ConfirmedMeansStored ==
    \A o \in confirmed :
        IF Object[o].storage = "inbox" THEN files[o] = Whole(o) ELSE Whole(o) \in installed[o]

(* A file or a package that is stored has the announced number of blocks and *)
(* never holds data of another object, nor its own data twice or out of      *)
(* order: the host that gave up leaves packets in the pipe, and a stray      *)
(* packet exactly as long as a block that was missing is all that can take   *)
(* its place.                                                                *)
StoredIsOwn ==
    \A o \in Objects : \A content \in ({files[o]} \ {NoFile}) \cup installed[o] :
        /\ Len(content) = Object[o].blocks
        /\ \A n \in DOMAIN content :
              content[n] \in {Scrap} \cup {<<o, k>> : k \in 1..Object[o].blocks}
        /\ \A m, n \in DOMAIN content :
              m < n /\ Scrap \notin {content[m], content[n]} => content[m][2] < content[n][2]

(* The entries the database keeps and the object the server is receiving     *)
(* agree: an entry is pending exactly while its handle waits for SendObject  *)
(* or is being received, and one that is present has its file.  A dropped    *)
(* object leaves nothing behind that would make its name "taken".            *)
DatabaseAgrees ==
    \A o \in Objects :
        /\ entries[o] = "pending" <=> o = mSendObjectHandle
        /\ entries[o] = "present" =>
               IF Object[o].storage = "inbox" THEN files[o] # NoFile ELSE installed[o] # {}

(* A .partial file exists only inside doSendObject, whichever way the        *)
(* transfer ends: nothing is left in the staging directory.  Only a process  *)
(* that dies in doSendObject leaves one there, until the next object that is *)
(* sent under its handle, which it does not stop from being created.         *)
StagingIsEmpty ==
    /\ temp # NoFile => pc \in {"receive", "finish"} \/ orphan
    /\ detail # "exists"

(* What remains of the data phase of the request the server is answering.    *)
Remaining ==
    {n \in DOMAIN wire : wire[n].kind # "request" /\ wire[n].tid = request.tid}
    \cup {n \in DOMAIN left : left[n].tid = request.tid}

(* The comment in receive_sink: a rejected object is drained "so the         *)
(* following transaction is still aligned".  When the server answers a       *)
(* SendObject whose data it read to the end, no packet of it is left that    *)
(* could be taken for a request.                                             *)
DrainedIsAligned ==
    pc = "respond" /\ request.op = "SendObject" /\ (result = "OK" \/ detail = "sink")
        => Remaining = {}

(* The host waits for the answer, and the server has read all it sent and    *)
(* lost nothing of it.                                                       *)
WholeObjectRead ==
    /\ hostPc = "awaiting" /\ asked.tid = request.tid /\ Remaining = {}
    /\ transferred = Object[request.obj].blocks

ReasonIsKept(which) ==
    pc = "respond" /\ request.op = "SendObject" /\ request.obj \in which
        /\ sink_rejected /\ WholeObjectRead
        => detail = "sink"

(* A host that sent the whole of an object of known size is told, and the    *)
(* user is shown, why the installer refused it.                              *)
SizedRejectionIsReported == ReasonIsKept({o \in Objects : Object[o].sized})

(* docs/estado.es.md says so of every object.  One whose size the host does  *)
(* not tell (0xFFFFFFFF) is read until the silence when the installer        *)
(* refuses it before it knows the size of the package.                       *)
RejectionIsReported == ReasonIsKept(Objects)

(* doSendObject ends, whatever the host does: its reads time out.            *)
SendObjectEnds ==
    pc \in {"header", "receive", "finish"} ~> pc \in {"respond", "stopped"}

(* After stop() run() returns, wherever the host has left it, unless it      *)
(* stays for ever in an answer that nobody reads: unplugged or silent, the   *)
(* host keeps it there.                                                      *)
StopReturns == <>[]AnswerUnread \/ (~mRunning ~> pc = "stopped")
=============================================================================

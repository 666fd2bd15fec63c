---------------------------- MODULE MtpReceiveProofs ----------------------------
(***************************************************************************)
(* Proofs about MtpReceive, for any objects, pipe, failures and crashes:    *)
(* nothing is left in the staging directory; and for hosts that copy to one *)
(* storage the database agrees with what is being received and what is      *)
(* stored, what is stored is the object's own, what the host was told is    *)
(* stored is stored whole, what was read to its end leaves nothing in the   *)
(* pipe that could be taken for a request, and a rejection keeps its        *)
(* reason.                                                                  *)
(*                                                                          *)
(* The argument has two invariants.  IInv relates the pending handle, the   *)
(* sink and the entries.  TransferInv orders what is in the pipe and still  *)
(* with the host: by transaction, and within one by block, so that a read   *)
(* takes the least packet, and everything already received of an object is  *)
(* older than everything of it that can still come.                         *)
(***************************************************************************)
EXTENDS MtpReceive, SequenceTheorems, TLAPS

(* A .partial file that no process left behind is the one being received.    *)
StagingInv ==
    /\ temp # NoFile => orphan \/ (pc \in {"receive", "finish"} /\ Staged)
    /\ detail # "exists"

LEMMA StagingInit == Init => StagingInv
BY DEF Init, StagingInv

LEMMA StagingNext == StagingInv /\ [Next]_vars => StagingInv'
<1> SUFFICES ASSUME StagingInv, [Next]_vars PROVE StagingInv'
  OBVIOUS
<1> USE DEF StagingInv, Staged, Sink
<1>1. CASE HostStep
  BY <1>1 DEF HostStep, HostAsks, HostSends, HostGivesUp, store, sinkVars
<1>2. CASE ReadRequest \/ RequestTimesOut \/ ReadDataset
  BY <1>2 DEF ReadRequest, RequestTimesOut, ReadDataset, LocalsEnd, store
<1>3. CASE InfoRefused \/ InfoStaged \/ InfoSink
  BY <1>3 DEF InfoRefused, InfoStaged, InfoSink, store
<1>4. CASE HandleOpenSession \/ HandleCloseSession \/ HandleOther \/ HandleSendObject
  BY <1>4 DEF HandleOpenSession, HandleCloseSession, HandleOther, HandleSendObject, store
<1>5. CASE ReadHeader
  <2>1. pc' \in {"receive", "finish"} /\ detail' # "exists"
    BY <1>5 DEF ReadHeader, TransferFails, Continue, Cleared
  <2>2. CASE Staged
    BY <1>5, <2>1, <2>2 DEF ReadHeader
  <2>3. CASE ~Staged
    BY <1>5, <2>1, <2>3 DEF ReadHeader
  <2> QED
    BY <2>2, <2>3
<1>6. CASE ReceiveToFile \/ ReceiveToSink \/ TransferTimesOut
  BY <1>6 DEF ReceiveToFile, ReceiveToSink, TransferTimesOut, TransferFails, Continue, store,
     sinkVars
<1>7. CASE PublishFile \/ DropFile
  BY <1>7 DEF PublishFile, DropFile, EndTransfer, FileFails, Unlinked
<1>8. CASE FinishSink \/ AbortSink
  BY <1>8 DEF FinishSink, AbortSink, EndTransfer, store
<1>9. CASE Respond \/ Leave \/ Crash \/ Restart
  BY <1>9 DEF Respond, Leave, Crash, Restart, ServerIsGone, LocalsEnd, store
<1>10. CASE Stop \/ UNCHANGED vars
  BY <1>10 DEF Stop, vars, store, sinkVars
<1> QED
  BY <1>1, <1>2, <1>3, <1>4, <1>5, <1>6, <1>7, <1>8, <1>9, <1>10 DEF Next, ServerStep,
     SendObjectStep

(* Whichever way a transfer ends, its .partial file is gone, and one that a  *)
(* dead process left keeps no object from being created.                     *)
THEOREM StagingStaysEmpty == Spec => []StagingIsEmpty
<1>1. StagingInv => StagingIsEmpty
  BY DEF StagingInv, StagingIsEmpty
<1> QED
  BY <1>1, StagingInit, StagingNext, PTL DEF Spec

-----------------------------------------------------------------------------
(* The packets of a host that works with "objects". *)
Sent ==
    {p \in [kind: {"request", "dataset", "header", "block"}, op: Operations,
            obj: objects \cup {NoObject}, tid: Nat, block: Nat] :
        p.kind # "request" => p.obj \in objects}

(* The host and the pipe. *)
WireInv ==
    /\ objects \in Hosts
    /\ asked \in [op: Operations, obj: objects \cup {NoObject}, tid: Nat]
    /\ offered \in objects \cup {NoObject}
    /\ left \in Seq(Sent) /\ wire \in Seq(Sent)
    /\ hostPc = "sending" => left # <<>>

(* What the server has read, and its sink. *)
ReadInv ==
    /\ request.obj \in objects \cup {NoObject}
    /\ described \in objects \cup {NoObject}
    /\ mSendObjectHandle \in objects \cup {NoObject}
    /\ mSendObjectSink \in [for: objects \cup {NoObject}, got: Seq(Data), known: BOOLEAN,
                            failed: BOOLEAN, ended: BOOLEAN]
    /\ pc \in {"receive", "finish"} /\ Staged /\ result = "OK" => temp \in Seq(Data)

(* The object being received is that of the sink, if it goes to one, and the *)
(* sink is there if it does.                                                 *)
HandleInv ==
    /\ pc \in {"header", "receive", "finish"} => mSendObjectHandle # NoObject
    /\ mSendObjectSinkCompleted => pc = "respond" /\ mSendObjectHandle = NoObject
    /\ ~Staged => Sink.for \in objects /\ Object[Sink.for].storage = "install"
    /\ mSendObjectHandle # NoObject =>
           IF Object[mSendObjectHandle].storage = "inbox" THEN Staged
           ELSE Sink.for = mSendObjectHandle

Stored(o) == IF Object[o].storage = "inbox" THEN files[o] # NoFile ELSE installed[o] # {}

(* The entries of the database. *)
EntriesInv ==
    /\ entries \in [Objects -> {"absent", "pending", "present"}]
    /\ DOMAIN files = Objects /\ DOMAIN installed = Objects
    /\ \A o \in Objects : entries[o] = "pending" <=> o = mSendObjectHandle
    /\ \A o \in Objects : entries[o] = "present" => Stored(o)

IInv == WireInv /\ ReadInv /\ HandleInv /\ EntriesInv

(* Hosts that copy to one storage.  With two, a sink that was left over takes *)
(* an object of the Inbox: the run receive_stale_sink shows how.              *)
OneStorage == \A H \in Hosts : \A o, p \in H : Object[o].storage = Object[p].storage

-----------------------------------------------------------------------------
LEMMA InitInv == Init => IInv
<1> SUFFICES ASSUME Init PROVE IInv
  OBVIOUS
<1>1. WireInv
  BY DEF Init, WireInv, NoRequest, Operations
<1>2. ReadInv
  BY DEF Init, ReadInv, NoRequest, NoSink
<1>3. HandleInv
  BY DEF Init, HandleInv, NoSink, Sink, Staged
<1>4. EntriesInv
  BY ObjectAssumption DEF Init, EntriesInv
<1> QED
  BY <1>1, <1>2, <1>3, <1>4 DEF IInv

(* No sequence of data is mistaken for "no file". *)
LEMMA DataIsAFile == ASSUME NEW content \in Seq(Data) PROVE content # NoFile
<1> SUFFICES ASSUME content = NoFile PROVE FALSE
  OBVIOUS
<1>1. content[1] = <<NoObject, 0>> /\ 1 \in DOMAIN content
  BY DEF NoFile
<1>2. <<NoObject, 0>> \in Data
  BY <1>1
<1> QED
  BY <1>2, ObjectAssumption DEF Data

(* Whatever a read returns is data. *)
LEMMA ReadsData ==
    ASSUME WireInv, wire # <<>>, NEW kind \in {"header", "block"},
           NEW data \in DataOf(Head(wire), kind)
    PROVE  data \in Seq(Data)
<1>1. Head(wire) \in Sent
  BY DEF WireInv
<1>2. CASE Head(wire).kind = kind
  <2>1. Head(wire).obj \in Objects /\ Head(wire).block \in Nat
    BY <1>1, <1>2, ObjectAssumption DEF Sent, WireInv
  <2>2. <<Head(wire).obj, Head(wire).block>> \in Data
    BY <2>1 DEF Data
  <2>3. Expected(Head(wire)) \in Seq(Data)
    BY <2>2 DEF Expected
  <2> QED
    BY <1>2, <2>3 DEF DataOf
<1>3. CASE Head(wire).kind # kind
  <2>1. Scrap \in Data
    BY DEF Data
  <2>2. <<Scrap>> \in Seq(Data) /\ <<>> \in Seq(Data)
    BY <2>1
  <2> QED
    BY <1>3, <2>2 DEF DataOf
<1> QED
  BY <1>2, <1>3

(* The packets of a request are packets of its object. *)
LEMMA PacketsSent ==
    ASSUME WireInv, NEW r \in [op: Operations, obj: objects \cup {NoObject}, tid: Nat],
           r.op \in {"SendObjectInfo", "SendObject"} => r.obj # NoObject
    PROVE  Packets(r) \in Seq(Sent) /\ Packets(r) # <<>>
<1> DEFINE size == IF Object[r.obj].blocks = 0 THEN 1 ELSE Object[r.obj].blocks
           data == [n \in 1..size |-> Packet(IF n = 1 THEN "header" ELSE "block", r, n)]
           rest == CASE r.op = "SendObjectInfo" -> <<Packet("dataset", r, 0)>>
                     [] r.op = "SendObject" -> data
                     [] OTHER -> <<>>
<1>1. Packet("request", r, 0) \in Sent
  BY DEF Packet, Sent
<1>2. ASSUME r.obj # NoObject, NEW kind \in {"dataset", "header", "block"}, NEW n \in Nat
      PROVE  Packet(kind, r, n) \in Sent
  BY <1>2 DEF Packet, Sent
<1>3. rest \in Seq(Sent)
  <2>1. CASE r.op = "SendObjectInfo"
    <3>1. Packet("dataset", r, 0) \in Sent
      BY <1>2, <2>1
    <3> QED
      BY <2>1, <3>1
  <2>2. CASE r.op = "SendObject"
    <3>1. r.obj \in Objects
      BY <2>2, ObjectAssumption DEF WireInv
    <3>2. size \in Nat
      BY <3>1, ObjectAssumption
    <3>3. \A n \in 1..size : data[n] \in Sent
      BY <1>2, <2>2, <3>2
    <3>4. data \in Seq(Sent)
      BY <3>2, <3>3
    <3> QED
      BY <2>2, <3>4
  <2>3. CASE r.op \notin {"SendObjectInfo", "SendObject"}
    BY <2>3
  <2> QED
    BY <2>1, <2>2, <2>3
<1>4. Packets(r) = <<Packet("request", r, 0)>> \o rest
  BY DEF Packets
<1> QED
  BY <1>1, <1>3, <1>4

(* A read takes the first packet, or loses it. *)
LEMMA ReadKeepsWire ==
    ASSUME WireInv, UNCHANGED hostVars,
           (wire' = Tail(wire) /\ wire # <<>>) \/ Silence \/ wire' = wire
    PROVE  WireInv' /\ Sent' = Sent
<1>1. Sent' = Sent
  BY DEF Sent, hostVars
<1>2. wire' \in Seq(Sent)
  BY HeadTailProperties DEF WireInv, Silence
<1> QED
  BY <1>1, <1>2 DEF WireInv, hostVars

(* Dropping the pending object leaves the entries of those that are stored. *)
LEMMA DroppedAgree ==
    ASSUME EntriesInv, mSendObjectHandle' = NoObject, UNCHANGED <<files, installed>>,
           entries' = Surviving \/ \E which : entries' = Forgotten(Surviving, which)
    PROVE  EntriesInv'
<1>1. NoObject \notin Objects
  BY ObjectAssumption
<1>2. /\ Surviving \in [Objects -> {"absent", "present"}]
      /\ \A o \in Objects : Surviving[o] = "present" => Stored(o)
  <2>1. CASE mSendObjectHandle = NoObject
    BY <1>1, <2>1 DEF EntriesInv, Surviving
  <2>2. CASE mSendObjectHandle # NoObject
    BY <2>2 DEF EntriesInv, Surviving
  <2> QED
    BY <2>1, <2>2
<1>3. /\ entries' \in [Objects -> {"absent", "present"}]
      /\ \A o \in Objects : entries'[o] = "present" => Stored(o)
  BY <1>2 DEF Forgotten
<1>4. \A o \in Objects : Stored(o)' = Stored(o)
  BY DEF Stored
<1> QED
  BY <1>1, <1>3, <1>4 DEF EntriesInv

(* endSendObject settles the entry of the object that was received. *)
LEMMA EndedAgree ==
    ASSUME EntriesInv, mSendObjectHandle \in Objects, NEW code, NEW reason,
           EndTransfer(code, reason), DOMAIN files' = Objects, DOMAIN installed' = Objects,
           \A o \in Objects : Stored(o) => Stored(o)',
           code = "OK" => \A o \in Objects : o = mSendObjectHandle => Stored(o)'
    PROVE  EntriesInv'
<1>1. mSendObjectHandle' = NoObject /\ NoObject \notin Objects
  BY ObjectAssumption DEF EndTransfer
<1>2. entries' = [entries EXCEPT ![mSendObjectHandle] = IF code = "OK" THEN "present" ELSE "absent"]
  BY DEF EndTransfer
<1>3. entries' \in [Objects -> {"absent", "pending", "present"}]
  BY <1>2 DEF EntriesInv
<1>4. \A o \in Objects : entries'[o] # "pending"
  BY <1>2 DEF EntriesInv
<1>5. \A o \in Objects : entries'[o] = "present" => Stored(o)'
  BY <1>2 DEF EntriesInv
<1> QED
  BY <1>1, <1>3, <1>4, <1>5 DEF EntriesInv

-----------------------------------------------------------------------------
(* One group of actions each. *)

LEMMA HostKeeps == IInv /\ HostStep => IInv'
<1> SUFFICES ASSUME IInv, HostStep PROVE IInv'
  OBVIOUS
<1>1. Sent' = Sent /\ objects' = objects
  BY DEF HostStep, HostAsks, HostSends, HostGivesUp, Sent
<1>2. WireInv'
  <2>1. ASSUME NEW op \in Operations, NEW o \in objects \cup {NoObject}, HostAsks(op, o)
        PROVE  WireInv'
    <3>1. asked' \in [op: Operations, obj: objects \cup {NoObject}, tid: Nat]
          /\ (asked'.op \in {"SendObjectInfo", "SendObject"} => asked'.obj # NoObject)
      BY <2>1 DEF HostAsks, IInv, WireInv
    <3>2. Packets(asked') \in Seq(Sent) /\ Packets(asked') # <<>>
      BY <3>1, PacketsSent DEF IInv
    <3> QED
      BY <1>1, <2>1, <3>1, <3>2 DEF HostAsks, IInv, WireInv
  <2>2. CASE HostSends
    <3>1. left \in Seq(Sent) /\ left # <<>> /\ wire \in Seq(Sent)
      BY <2>2 DEF HostSends, IInv, WireInv
    <3>2. Head(left) \in Sent /\ Tail(left) \in Seq(Sent) /\ Len(Tail(left)) = Len(left) - 1
      BY <3>1, HeadTailProperties
    <3>3. hostPc' = "sending" => Tail(left) # <<>>
      BY <2>2, <3>1, <3>2, EmptySeq DEF HostSends
    <3>4. Append(wire, Head(left)) \in Seq(Sent)
      BY <3>1, <3>2
    <3> QED
      BY <1>1, <2>2, <3>2, <3>3, <3>4 DEF HostSends, IInv, WireInv
  <2>3. CASE HostGivesUp
    BY <1>1, <2>3 DEF HostGivesUp, IInv, WireInv
  <2> QED
    BY <2>1, <2>2, <2>3 DEF HostStep
<1>3. UNCHANGED <<pc, request, described, result, mSendObjectHandle, sinkVars, entries, store>>
  BY DEF HostStep, HostAsks, HostSends, HostGivesUp, requestVars
<1>4. ReadInv' /\ HandleInv' /\ EntriesInv'
  BY <1>1, <1>3 DEF IInv, ReadInv, HandleInv, EntriesInv, Stored, Staged, Sink, sinkVars, store
<1> QED
  BY <1>2, <1>4 DEF IInv

LEMMA RequestKeeps == IInv /\ (ReadRequest \/ RequestTimesOut \/ ReadDataset) => IInv'
<1> SUFFICES ASSUME IInv, ReadRequest \/ RequestTimesOut \/ ReadDataset PROVE IInv'
  OBVIOUS
<1>1. /\ UNCHANGED hostVars /\ UNCHANGED <<mSendObjectHandle, sinkVars, entries, store>>
      /\ ((wire' = Tail(wire) /\ wire # <<>>) \/ Silence)
      /\ pc \in {"request", "dataset"} /\ pc' \in {"request", "leaving", "dataset", "handle"}
  BY DEF ReadRequest, RequestTimesOut, ReadDataset, NextRequest
<1>2. WireInv'
  BY <1>1, ReadKeepsWire DEF IInv
<1>3. wire # <<>> => Head(wire).obj \in objects \cup {NoObject}
  <2>1. wire # <<>> => Head(wire) \in Sent
    BY HeadTailProperties DEF IInv, WireInv
  <2> QED
    BY <2>1 DEF Sent
<1>4. request'.obj \in objects \cup {NoObject} /\ described' \in objects \cup {NoObject}
  <2>1. CASE ReadRequest
    <3>1. request'.obj \in {Head(wire).obj, NoObject}
      <4>1. Head(wire).kind \in {"request", "dataset", "header", "block"}
        BY <2>1, HeadTailProperties DEF ReadRequest, IInv, WireInv, Sent
      <4> QED
        BY <2>1, <4>1 DEF ReadRequest, AsRequest, NoRequest
    <3> QED
      BY <1>3, <2>1, <3>1 DEF ReadRequest
  <2>2. CASE RequestTimesOut
    BY <2>2 DEF RequestTimesOut, LocalsEnd, NoRequest
  <2>3. CASE ReadDataset
    BY <1>3, <2>3 DEF ReadDataset, IInv, ReadInv
  <2> QED
    BY <2>1, <2>2, <2>3
<1>5. ReadInv'
  BY <1>1, <1>4 DEF IInv, ReadInv, hostVars, sinkVars
<1>6. HandleInv' /\ EntriesInv'
  BY <1>1 DEF IInv, HandleInv, EntriesInv, Stored, Staged, Sink, hostVars, sinkVars, store
<1> QED
  BY <1>2, <1>5, <1>6 DEF IInv

(* The handlers that drop the pending object and announce no other. *)
LEMMA RefusalKeeps ==
    IInv /\ (InfoRefused \/ HandleOpenSession \/ HandleCloseSession \/ HandleOther) => IInv'
<1> SUFFICES ASSUME IInv, InfoRefused \/ HandleOpenSession \/ HandleCloseSession \/ HandleOther
             PROVE  IInv'
  OBVIOUS
<1>1. /\ pc = "handle" /\ pc' = "respond" /\ mSendObjectHandle' = NoObject
      /\ UNCHANGED <<hostVars, wire, requestVars, sinkVars, store>>
      /\ (entries' = Surviving \/ \E which : entries' = Forgotten(Surviving, which))
  BY DEF InfoRefused, HandleOpenSession, HandleCloseSession, HandleOther, Answer
<1>2. WireInv'
  BY <1>1, ReadKeepsWire DEF IInv
<1>3. ReadInv' /\ HandleInv'
  BY <1>1 DEF IInv, ReadInv, HandleInv, Staged, Sink, hostVars, requestVars, sinkVars
<1>4. EntriesInv'
  BY <1>1, DroppedAgree DEF IInv, store
<1> QED
  BY <1>2, <1>3, <1>4 DEF IInv

(* An announced object becomes the pending one: its entry was free. *)
LEMMA AcceptedAgree ==
    ASSUME EntriesInv, InfoAccepted, described \in Objects, UNCHANGED <<files, installed>>
    PROVE  EntriesInv'
<1>1. NoObject \notin Objects
  BY ObjectAssumption
<1>2. /\ Surviving \in [Objects -> {"absent", "present"}]
      /\ \A o \in Objects : Surviving[o] = "present" => Stored(o)
  <2>1. CASE mSendObjectHandle = NoObject
    BY <1>1, <2>1 DEF EntriesInv, Surviving
  <2>2. CASE mSendObjectHandle # NoObject
    BY <2>2 DEF EntriesInv, Surviving
  <2> QED
    BY <2>1, <2>2
<1>3. entries' = [Surviving EXCEPT ![described] = "pending"] /\ mSendObjectHandle' = described
  BY DEF InfoAccepted
<1>4. \A o \in Objects : Stored(o)' = Stored(o)
  BY DEF Stored
<1> QED
  BY <1>2, <1>3, <1>4 DEF EntriesInv

LEMMA InfoKeeps == ASSUME OneStorage PROVE IInv /\ (InfoStaged \/ InfoSink) => IInv'
<1> SUFFICES ASSUME IInv, InfoStaged \/ InfoSink PROVE IInv'
  OBVIOUS
<1>1. /\ pc = "handle" /\ pc' = "respond"
      /\ UNCHANGED <<hostVars, wire, requestVars, store>>
      /\ InfoUsable
  BY DEF InfoStaged, InfoSink, InfoAccepted, Answer
<1>2. described \in objects /\ described \in Objects /\ described # NoObject
  BY <1>1, ObjectAssumption DEF InfoUsable, IInv, ReadInv, WireInv
<1>3. WireInv'
  BY <1>1, ReadKeepsWire DEF IInv
<1>4. mSendObjectHandle' \in {NoObject, described}
      /\ (InfoAccepted \/ (mSendObjectHandle' = NoObject /\ entries' = Surviving))
  BY DEF InfoStaged, InfoSink, InfoAccepted
<1>5. EntriesInv'
  BY <1>1, <1>2, <1>4, DroppedAgree, AcceptedAgree DEF IInv, store
<1>6. CASE InfoStaged
  <2>1. ReadInv'
    BY <1>1, <1>2, <1>4, <1>6 DEF InfoStaged, IInv, ReadInv, hostVars, requestVars, sinkVars
  <2>2. Staged
    <3>1. ASSUME ~Staged PROVE FALSE
      <4>1. Sink.for \in objects /\ Object[Sink.for].storage = "install"
        BY <3>1 DEF IInv, HandleInv
      <4> QED
        BY <1>2, <1>6, <4>1 DEF InfoStaged, OneStorage, IInv, WireInv
    <3> QED
      BY <3>1
  <2>3. HandleInv'
    BY <1>1, <1>4, <1>6, <2>2 DEF InfoStaged, IInv, HandleInv, Staged, Sink, hostVars, sinkVars
  <2> QED
    BY <1>3, <1>5, <2>1, <2>3 DEF IInv
<1>7. CASE InfoSink
  <2>1. \/ mSendObjectSink' = OpenedSink(described)
        \/ (mSendObjectSink' = NoSink /\ mSendObjectHandle' = NoObject)
    BY <1>7 DEF InfoSink
  <2>2. Object[described].sized \in BOOLEAN
    BY <1>2, ObjectAssumption
  <2>3. ReadInv'
    <3>1. mSendObjectSink' \in [for: objects \cup {NoObject}, got: Seq(Data), known: BOOLEAN,
                               failed: BOOLEAN, ended: BOOLEAN]
      <4>1. <<>> \in Seq(Data)
        OBVIOUS
      <4>2. CASE mSendObjectSink' = OpenedSink(described)
        BY <1>2, <2>2, <4>1, <4>2 DEF OpenedSink, NoSink
      <4>3. CASE mSendObjectSink' = NoSink
        BY <4>1, <4>3 DEF NoSink
      <4> QED
        BY <2>1, <4>2, <4>3
    <3> QED
      BY <1>1, <1>2, <1>4, <3>1 DEF IInv, ReadInv, hostVars, requestVars
  <2>4. HandleInv'
    BY <1>1, <1>2, <1>4, <1>7, <2>1 DEF InfoSink, OpenedSink, NoSink, HandleInv, Staged, Sink, hostVars
  <2> QED
    BY <1>3, <1>5, <2>3, <2>4 DEF IInv
<1> QED
  BY <1>6, <1>7

LEMMA SendObjectStarts == IInv /\ HandleSendObject => IInv'
<1> SUFFICES ASSUME IInv, HandleSendObject PROVE IInv'
  OBVIOUS
<1>1. /\ UNCHANGED <<hostVars, wire, requestVars, mSendObjectHandle, sinkVars, entries, store>>
      /\ pc = "handle" /\ pc' \in {"respond", "header"}
      /\ pc' = "header" => mSendObjectHandle # NoObject
  BY DEF HandleSendObject, Answer
<1>2. WireInv'
  BY <1>1, ReadKeepsWire DEF IInv
<1>3. ReadInv' /\ HandleInv'
  BY <1>1 DEF IInv, ReadInv, HandleInv, Staged, Sink, hostVars, requestVars, sinkVars
<1>4. EntriesInv'
  BY <1>1 DEF IInv, EntriesInv, Stored, store
<1> QED
  BY <1>2, <1>3, <1>4 DEF IInv

(* Whatever the sink makes of some data, it remains the sink of its object. *)
LEMMA SinkStays ==
    ASSUME IInv, ~Staged, NEW data \in Seq(Data),
           SinkTakes(data) \/ SinkRefuses(data) \/ UNCHANGED mSendObjectSink
    PROVE  /\ Sink' \in [for: objects \cup {NoObject}, got: Seq(Data), known: BOOLEAN,
                         failed: BOOLEAN, ended: BOOLEAN]
           /\ Sink'.for = Sink.for
           /\ ~Staged'
<1>1. /\ Sink \in [for: objects \cup {NoObject}, got: Seq(Data), known: BOOLEAN,
                   failed: BOOLEAN, ended: BOOLEAN]
      /\ Sink.for # NoObject
  BY ObjectAssumption DEF IInv, ReadInv, HandleInv, WireInv, Sink
<1>2. Sink.got \o data \in Seq(Data)
  BY <1>1
<1>3. /\ Sink' \in [for: objects \cup {NoObject}, got: Seq(Data), known: BOOLEAN,
                    failed: BOOLEAN, ended: BOOLEAN]
      /\ Sink'.for = Sink.for
  <2>1. CASE SinkTakes(data)
    <3>1. PICK known \in {Sink.known, TRUE} :
             Sink' = [Sink EXCEPT !.got = @ \o data,
                                  !.known = IF data = <<>> THEN Sink.known ELSE known]
      BY <2>1 DEF SinkTakes, Sink
    <3> QED
      BY <1>1, <1>2, <3>1
  <2>2. CASE SinkRefuses(data)
    BY <1>1, <2>2 DEF SinkRefuses, Sink
  <2>3. CASE UNCHANGED mSendObjectSink
    BY <1>1, <2>3 DEF Sink
  <2> QED
    BY <2>1, <2>2, <2>3
<1>4. ~Staged'
  BY <1>1, <1>3 DEF Staged, NoSink
<1> QED
  BY <1>3, <1>4

(* The reads of doSendObject. *)
LEMMA ReceptionKeeps ==
    IInv /\ (ReadHeader \/ ReceiveToFile \/ ReceiveToSink \/ TransferTimesOut) => IInv'
<1> SUFFICES ASSUME IInv, ReadHeader \/ ReceiveToFile \/ ReceiveToSink \/ TransferTimesOut
             PROVE  IInv'
  OBVIOUS
<1>1. /\ UNCHANGED <<hostVars, requestVars, mSendObjectHandle, mSendObjectSinkCompleted, entries,
                     files, installed>>
      /\ ((wire' = Tail(wire) /\ wire # <<>>) \/ Silence)
      /\ pc \in {"header", "receive"}
  BY DEF ReadHeader, ReceiveToFile, ReceiveToSink, TransferTimesOut, store, sinkVars
<1>2. pc' \in {"receive", "finish"}
  BY DEF ReadHeader, ReceiveToFile, ReceiveToSink, TransferTimesOut, TransferFails, Continue
<1>3. WireInv'
  BY <1>1, ReadKeepsWire DEF IInv
<1>4. EntriesInv'
  BY <1>1 DEF IInv, EntriesInv, Stored
<1>5. CASE Staged
  <2>1. mSendObjectSink' = mSendObjectSink
    BY <1>5 DEF ReadHeader, ReceiveToFile, ReceiveToSink, TransferTimesOut, sinkVars
  <2>2. result' = "OK" => temp' \in Seq(Data)
    <3>1. CASE ReadHeader
      <4>1. PICK data \in DataOf(Head(wire), "header") :
               temp' = data \/ TransferFails("InvalidDataset", "size")
                            \/ \E reason : TransferFails("GeneralError", reason)
        BY <1>5, <3>1 DEF ReadHeader
      <4>2. data \in Seq(Data)
        BY <3>1, ReadsData DEF ReadHeader, IInv
      <4> QED
        BY <4>1, <4>2 DEF TransferFails
    <3>2. CASE ReceiveToFile
      <4>1. PICK data \in DataOf(Head(wire), "block") :
               \/ (temp' = temp \o data /\ Continue)
               \/ TransferFails("GeneralError", "reception")
        BY <3>2 DEF ReceiveToFile
      <4>2. data \in Seq(Data)
        BY <3>2, ReadsData DEF ReceiveToFile, IInv
      <4>3. Continue /\ result' = "OK" => temp \in Seq(Data)
        BY <1>5, <3>2 DEF Continue, ReceiveToFile, IInv, ReadInv
      <4>4. temp \in Seq(Data) => temp \o data \in Seq(Data)
        BY <4>2
      <4>5. CASE temp' = temp \o data /\ Continue
        BY <4>3, <4>4, <4>5
      <4>6. CASE TransferFails("GeneralError", "reception")
        BY <4>6 DEF TransferFails
      <4> QED
        BY <4>1, <4>5, <4>6
    <3>3. CASE ReceiveToSink \/ TransferTimesOut
      BY <1>5, <3>3 DEF ReceiveToSink, TransferTimesOut, TransferFails
    <3> QED
      BY <3>1, <3>2, <3>3
  <2>3. ReadInv' /\ HandleInv'
    BY <1>1, <1>2, <1>5, <2>1, <2>2
       DEF IInv, ReadInv, HandleInv, Staged, Sink, hostVars, requestVars
  <2> QED
    BY <1>3, <1>4, <2>3 DEF IInv
<1>6. CASE ~Staged
  <2>1. PICK data \in Seq(Data) :
           SinkTakes(data) \/ SinkRefuses(data) \/ UNCHANGED mSendObjectSink
    <3>1. CASE ReadHeader
      <4>1. PICK data \in DataOf(Head(wire), "header") :
               SinkTakes(data) \/ SinkRefuses(data) \/ UNCHANGED mSendObjectSink
        BY <3>1 DEF ReadHeader
      <4> QED
        BY <3>1, <4>1, ReadsData DEF ReadHeader, IInv
    <3>2. CASE ReceiveToSink
      <4>1. PICK data \in DataOf(Head(wire), "block") :
               SinkTakes(data) \/ SinkRefuses(data) \/ UNCHANGED mSendObjectSink
        BY <3>2 DEF ReceiveToSink
      <4> QED
        BY <3>2, <4>1, ReadsData DEF ReceiveToSink, IInv
    <3>3. CASE ReceiveToFile \/ TransferTimesOut
      <4>1. <<>> \in Seq(Data) /\ UNCHANGED mSendObjectSink
        BY <1>6, <3>3 DEF ReceiveToFile, TransferTimesOut, sinkVars
      <4> QED
        BY <4>1
    <3> QED
      BY <3>1, <3>2, <3>3
  <2>2. /\ Sink' \in [for: objects \cup {NoObject}, got: Seq(Data), known: BOOLEAN,
                      failed: BOOLEAN, ended: BOOLEAN]
        /\ Sink'.for = Sink.for
        /\ ~Staged'
    BY <1>6, <2>1, SinkStays
  <2>3. ReadInv'
    BY <1>1, <2>2 DEF IInv, ReadInv, Sink, hostVars, requestVars
  <2>4. HandleInv'
    BY <1>1, <1>2, <1>6, <2>2 DEF IInv, HandleInv, hostVars
  <2> QED
    BY <1>3, <1>4, <2>3, <2>4 DEF IInv
<1> QED
  BY <1>5, <1>6

(* The ends of doSendObject. *)
LEMMA EndKeeps == IInv /\ (PublishFile \/ DropFile \/ FinishSink \/ AbortSink) => IInv'
<1> SUFFICES ASSUME IInv, PublishFile \/ DropFile \/ FinishSink \/ AbortSink PROVE IInv'
  OBVIOUS
<1>1. /\ pc = "finish" /\ pc' = "respond" /\ mSendObjectHandle' = NoObject
      /\ UNCHANGED <<hostVars, wire, requestVars>>
  BY DEF PublishFile, DropFile, FinishSink, AbortSink, EndTransfer, Answer, FileFails
<1>2. mSendObjectHandle \in Objects
  BY <1>1, ObjectAssumption DEF IInv, HandleInv, ReadInv, WireInv
<1>3. PICK code, reason : EndTransfer(code, reason)
  BY DEF PublishFile, DropFile, FinishSink, AbortSink, FileFails
<1>4. WireInv'
  BY <1>1, ReadKeepsWire DEF IInv
<1>5. mSendObjectSink' = mSendObjectSink \/ (~Staged /\ mSendObjectSink' = [Sink EXCEPT !.ended = TRUE])
  BY DEF PublishFile, DropFile, FinishSink, AbortSink
<1>6. /\ ReadInv'
      /\ ~Staged' => Sink'.for \in objects /\ Object[Sink'.for].storage = "install"
  <2>1. Sink \in [for: objects \cup {NoObject}, got: Seq(Data), known: BOOLEAN,
                  failed: BOOLEAN, ended: BOOLEAN]
    BY DEF IInv, ReadInv, Sink
  <2>2. /\ Sink' \in [for: objects \cup {NoObject}, got: Seq(Data), known: BOOLEAN,
                      failed: BOOLEAN, ended: BOOLEAN]
        /\ Sink'.for = Sink.for
        /\ ~Staged' => ~Staged
    BY <1>5, <2>1 DEF Sink, Staged
  <2> QED
    BY <1>1, <2>2 DEF IInv, ReadInv, HandleInv, Sink, hostVars, requestVars
<1>7. HandleInv'
  BY <1>1, <1>6 DEF HandleInv, hostVars
<1>8. EntriesInv'
  <2>1. CASE PublishFile
    <3>1. temp \in Seq(Data) /\ Staged /\ pc = "finish" /\ result = "OK"
      BY <2>1 DEF PublishFile, IInv, ReadInv
    <3>2. temp # NoFile
      BY <3>1, DataIsAFile
    <3>3. Object[mSendObjectHandle].storage = "inbox"
      <4>1. ASSUME Object[mSendObjectHandle].storage # "inbox" PROVE FALSE
        <5>1. Sink.for = mSendObjectHandle /\ mSendObjectHandle # NoObject
          BY <1>1, <4>1 DEF IInv, HandleInv
        <5> QED
          BY <3>1, <5>1 DEF Staged, NoSink
      <4> QED
        BY <4>1
    <3>4. /\ files' = [files EXCEPT ![mSendObjectHandle] = temp]
          /\ UNCHANGED installed
          /\ EndTransfer("OK", "done")
      BY <2>1 DEF PublishFile
    <3>5. \A o \in Objects : Stored(o) => Stored(o)'
      BY <1>2, <3>2, <3>4 DEF Stored, IInv, EntriesInv
    <3>6. \A o \in Objects : o = mSendObjectHandle => Stored(o)'
      BY <1>2, <3>2, <3>3, <3>4 DEF Stored, IInv, EntriesInv
    <3>7. DOMAIN files' = Objects /\ DOMAIN installed' = Objects
      BY <3>4 DEF IInv, EntriesInv
    <3> QED
      BY <1>2, <3>4, <3>5, <3>6, <3>7, EndedAgree DEF IInv
  <2>2. CASE FinishSink
    <3>1. Sink.got \in Seq(Data) /\ ~Staged
      BY <2>2 DEF FinishSink, IInv, ReadInv, Sink
    <3>2. Sink.got # NoFile
      BY <3>1, DataIsAFile
    <3>3. Object[mSendObjectHandle].storage # "inbox" /\ Sink.for = mSendObjectHandle
      BY <1>1, <3>1 DEF IInv, HandleInv
    <3>4. /\ installed' = [installed EXCEPT ![Sink.for] = @ \cup {Sink.got}]
          /\ UNCHANGED files
          /\ EndTransfer("OK", "done")
      BY <2>2 DEF FinishSink
    <3>5. \A o \in Objects : Stored(o) => Stored(o)'
      BY <1>2, <3>2, <3>4 DEF Stored, IInv, EntriesInv
    <3>6. \A o \in Objects : o = mSendObjectHandle => Stored(o)'
      BY <1>2, <3>2, <3>3, <3>4 DEF Stored, IInv, EntriesInv
    <3>7. DOMAIN files' = Objects /\ DOMAIN installed' = Objects
      BY <3>4 DEF IInv, EntriesInv
    <3> QED
      BY <1>2, <3>4, <3>5, <3>6, <3>7, EndedAgree DEF IInv
  <2>3. CASE DropFile \/ AbortSink
    <3>1. UNCHANGED <<files, installed>>
      BY <2>3 DEF DropFile, AbortSink, store
    <3>2. PICK failure, why : failure # "OK" /\ EndTransfer(failure, why)
      BY <2>3 DEF DropFile, AbortSink, FileFails
    <3>3. \A o \in Objects : Stored(o)' = Stored(o)
      BY <3>1 DEF Stored
    <3>4. DOMAIN files' = Objects /\ DOMAIN installed' = Objects
      BY <3>1 DEF IInv, EntriesInv
    <3> QED
      BY <1>2, <3>2, <3>3, <3>4, EndedAgree DEF IInv
  <2> QED
    BY <2>1, <2>2, <2>3
<1> QED
  BY <1>4, <1>6, <1>7, <1>8 DEF IInv

(* The answer, and the end and the beginning of the server. *)
LEMMA SessionKeeps ==
    IInv /\ (Respond \/ Leave \/ Crash \/ Restart \/ Stop \/ UNCHANGED vars) => IInv'
<1>1. IInv /\ Respond => IInv'
  <2> SUFFICES ASSUME IInv, Respond PROVE IInv'
    OBVIOUS
  <2>1. /\ UNCHANGED <<objects, asked, left, wire, mSendObjectHandle, entries, store>>
        /\ pc = "respond" /\ pc' \in {"request", "leaving"}
        /\ request'.obj = NoObject /\ described' = NoObject
        /\ hostPc' = "sending" => hostPc = "sending"
    BY DEF Respond, NextRequest, LocalsEnd, NoRequest
  <2>2. offered' \in objects \cup {NoObject}
    BY DEF Respond, IInv, WireInv
  <2>3. WireInv'
    BY <2>1, <2>2 DEF IInv, WireInv, Sent
  <2>4. \/ mSendObjectSinkCompleted /\ mSendObjectSink' = NoSink /\ ~mSendObjectSinkCompleted'
        \/ ~mSendObjectSinkCompleted /\ UNCHANGED <<mSendObjectSink, mSendObjectSinkCompleted>>
    BY DEF Respond, sinkVars
  <2>5. ReadInv'
    <3>1. NoSink \in [for: objects \cup {NoObject}, got: Seq(Data), known: BOOLEAN,
                      failed: BOOLEAN, ended: BOOLEAN]
      BY DEF NoSink
    <3>2. mSendObjectSink' \in [for: objects \cup {NoObject}, got: Seq(Data), known: BOOLEAN,
                               failed: BOOLEAN, ended: BOOLEAN]
      BY <2>4, <3>1 DEF IInv, ReadInv
    <3> QED
      BY <2>1, <3>2 DEF IInv, ReadInv
  <2>6. HandleInv'
    BY <2>1, <2>4 DEF IInv, HandleInv, Staged, Sink
  <2>7. EntriesInv'
    BY <2>1 DEF IInv, EntriesInv, Stored, store
  <2> QED
    BY <2>3, <2>5, <2>6, <2>7 DEF IInv
<1>2. IInv /\ (Leave \/ Crash) => IInv'
  <2> SUFFICES ASSUME IInv, Leave \/ Crash PROVE IInv'
    OBVIOUS
  <2>1. ServerIsGone
    BY DEF Leave, Crash
  <2>2. WireInv'
    BY <2>1, ReadKeepsWire DEF ServerIsGone, IInv
  <2>3. ReadInv' /\ HandleInv'
    BY <2>1 DEF ServerIsGone, LocalsEnd, NoRequest, NoSink, ReadInv, HandleInv, Staged, Sink
  <2>4. EntriesInv'
    BY <2>1, ObjectAssumption DEF ServerIsGone, IInv, EntriesInv
  <2> QED
    BY <2>2, <2>3, <2>4 DEF IInv
<1>3. IInv /\ Restart => IInv'
  <2> SUFFICES ASSUME IInv, Restart PROVE IInv'
    OBVIOUS
  <2>1. WireInv'
    BY DEF Restart, IInv, WireInv
  <2>2. ReadInv' /\ HandleInv' /\ EntriesInv'
    BY DEF Restart, IInv, ReadInv, HandleInv, EntriesInv, Stored, Staged, Sink, requestVars,
           sinkVars, store
  <2> QED
    BY <2>1, <2>2 DEF IInv
<1>4. IInv /\ (Stop \/ UNCHANGED vars) => IInv'
  <2> SUFFICES ASSUME IInv, Stop \/ UNCHANGED vars PROVE IInv'
    OBVIOUS
  <2>1. UNCHANGED <<hostVars, wire, pc, requestVars, result, mSendObjectHandle, sinkVars, entries,
                    store>>
    BY DEF Stop, vars
  <2>2. WireInv'
    BY <2>1, ReadKeepsWire DEF IInv
  <2>3. ReadInv' /\ HandleInv' /\ EntriesInv'
    BY <2>1 DEF IInv, ReadInv, HandleInv, EntriesInv, Stored, Staged, Sink, hostVars, requestVars,
                sinkVars, store
  <2> QED
    BY <2>2, <2>3 DEF IInv
<1> QED
  BY <1>1, <1>2, <1>3, <1>4

LEMMA NextKeeps == ASSUME OneStorage PROVE IInv /\ [Next]_vars => IInv'
BY HostKeeps, RequestKeeps, RefusalKeeps, InfoKeeps, SendObjectStarts, ReceptionKeeps, EndKeeps,
   SessionKeeps DEF Next, ServerStep, SendObjectStep

(* For a host that copies to one storage, the database and the transfer in   *)
(* hand agree: the entry of an object is pending exactly while its handle     *)
(* waits for SendObject or is being received, and one that is present has its *)
(* file or its package.                                                       *)
THEOREM DatabaseAgreement == ASSUME OneStorage PROVE Spec => []DatabaseAgrees
<1>1. IInv => DatabaseAgrees
  BY DEF IInv, EntriesInv, DatabaseAgrees, Stored
<1>2. IInv /\ [Next]_vars => IInv'
  BY NextKeeps
<1> QED
  BY <1>1, <1>2, InitInv, PTL DEF Spec

-----------------------------------------------------------------------------
(* The second invariant: what the server has read of a transfer, and what of *)
(* it is still to come.                                                      *)

(* The packets the server may still read, in order. *)
Stream == wire \o left
Ahead == {Stream[i] : i \in 1..Len(Stream)}
Rank(p) == IF p.kind = "request" THEN 0 ELSE IF p.kind = "dataset" THEN 1 ELSE p.block
Before(p, q) ==
    \/ p.tid < q.tid
    \/ p.tid = q.tid /\ p.op = q.op /\ p.obj = q.obj /\ Rank(p) < Rank(q)
LastBlock(o) == IF Object[o].blocks = 0 THEN 1 ELSE Object[o].blocks

(* A packet of the current request, or of one that was given up. *)
Shaped(p) ==
    /\ p.tid \in 1..asked.tid
    /\ p.tid = asked.tid => p.op = asked.op /\ p.obj = asked.obj
    /\ p.kind = "dataset" <=> p.op = "SendObjectInfo" /\ p.kind # "request"
    /\ p.kind \in {"header", "block"} <=> p.op = "SendObject" /\ p.kind # "request"
    /\ p.kind \in {"header", "block"} => p.block \in 1..LastBlock(p.obj)
    /\ p.kind = "header" => p.block = 1
    /\ p.kind = "block" => p.block > 1

StreamInv ==
    /\ \A i, j \in 1..Len(Stream) : i < j => Before(Stream[i], Stream[j])
    /\ \A p \in Ahead : Shaped(p)
    /\ hostPc # "sending" => left = <<>>
    /\ hostPc # "idle" => asked.tid > 0
    /\ asked.op \in {"SendObjectInfo", "SendObject"} => asked.obj \in objects
    /\ confirmed \subseteq objects

(* The request the server is answering is older than what is to come.  *)
RequestInv ==
    /\ pc \in {"request", "leaving", "stopped"} => request = NoRequest
    /\ request.tid \in 0..asked.tid
    /\ request.op \in {"SendObjectInfo", "SendObject"} => request.tid > 0
    /\ request.tid > 0 /\ request.tid = asked.tid =>
          request.op = asked.op /\ request.obj \in {asked.obj, NoObject}
    /\ \A p \in Ahead :
          /\ p.tid >= request.tid
          /\ p.tid = request.tid => p.op = request.op /\ p.kind # "request"

(* An object is sent while its handle waits for it, and nothing else is on   *)
(* its way before it.                                                        *)
SendingInv ==
    /\ \A p \in Ahead : p.op = "SendObject" =>
          /\ request.tid \in {0, p.tid}
          /\ mSendObjectHandle \in {NoObject, p.obj}
          /\ \A q \in Ahead : q.tid >= p.tid
    /\ request.op = "SendObject" /\ request.tid = asked.tid =>
          mSendObjectHandle \in {NoObject, asked.obj}
    /\ offered # NoObject =>
          /\ hostPc = "idle" /\ wire = <<>> /\ left = <<>>
          /\ mSendObjectHandle \in {offered, NoObject}
          /\ pc \in {"request", "leaving", "stopped"}

(* A SendObjectInfo that was read to its end. *)
InfoInv ==
    /\ request.op = "SendObjectInfo" /\ described # NoObject /\ request.tid = asked.tid =>
          Ahead = {}
    /\ pc = "respond" /\ request.op = "SendObjectInfo" /\ result = "OK" =>
          described = request.obj /\ described # NoObject /\ mSendObjectHandle = described

(* The locals of doSendObject. *)
LocalsInv ==
    /\ pc \in {"header", "receive", "finish"} => request.op = "SendObject"
    /\ pc \in {"request", "dataset", "handle", "leaving", "stopped"} =>
          detail = "none" /\ ~sink_rejected
    /\ pc = "header" => transferred = 0 /\ ~sink_rejected
    /\ pc \in {"header", "receive"} => result = "OK" /\ detail = "done"
    /\ transferred \in Nat /\ sink_rejected \in BOOLEAN

(* The sink of the object that is received. *)
SinkInv ==
    mSendObjectHandle # NoObject =>
        /\ Staged => files[mSendObjectHandle] = NoFile
        /\ ~Staged /\ SizeKnown => Sink.known
        /\ ~Staged /\ pc \notin {"receive", "finish"} => Sink.got = <<>>

Got == IF Staged THEN temp ELSE Sink.got
ReadSoFar == pc = "receive" \/ (pc = "finish" /\ (result = "OK" \/ detail = "sink"))

(* The content received of an object is its own or scrap, in order, and older *)
(* than what is ahead of it.                                                  *)
OwnContent(content, o, ahead) ==
    /\ \A n \in DOMAIN content :
          content[n] \in {Scrap} \cup {<<o, k>> : k \in 1..Object[o].blocks}
    /\ \A m, n \in DOMAIN content :
          m < n /\ Scrap \notin {content[m], content[n]} => content[m][2] < content[n][2]
    /\ \A n \in DOMAIN content : content[n] # Scrap =>
          \A p \in ahead : p.op = "SendObject" => Rank(p) > content[n][2]

GotInv ==
    /\ ReadSoFar =>
          /\ \A p \in Ahead : p.op = "SendObject" => Rank(p) > 1 /\ Rank(p) > transferred
          /\ pc = "finish" => transferred >= Size
    /\ pc \in {"receive", "finish"} /\ result = "OK" => OwnContent(Got, mSendObjectHandle, Ahead)

(* As long as the host waits, every block so far is in its place, or too few *)
(* are left to make up for one that is missing.                              *)
InPlace(content, o, ahead) ==
    /\ \A n \in 1..Len(content) : content[n] = <<o, n>>
    /\ \A p \in ahead : Rank(p) > Len(content)
TooFew(content, o, ahead) ==
    \E k \in 1..Object[o].blocks : Len(content) < k /\ \A p \in ahead : Rank(p) > k
Attended == hostPc # "idle" /\ request.tid = asked.tid
PlaceInv ==
    pc \in {"receive", "finish"} /\ result = "OK" /\ Attended =>
        InPlace(Got, mSendObjectHandle, Ahead) \/ TooFew(Got, mSendObjectHandle, Ahead)

(* A rejection. *)
RejectionInv ==
    /\ pc \in {"receive", "finish"} /\ sink_rejected => ~Staged /\ Sink.failed
    /\ pc = "receive" /\ SizeKnown => transferred < Size
    /\ pc = "finish" /\ SizeKnown /\ sink_rejected /\ transferred = Size =>
          result = "OK" \/ detail = "sink"

StoredWhole(o) ==
    IF Object[o].storage = "inbox" THEN files[o] = Whole(o) ELSE Whole(o) \in installed[o]

(* The answer to a SendObject. *)
AnswerInv ==
    pc = "respond" /\ request.op = "SendObject" =>
        /\ result = "OK" \/ detail = "sink" => \A p \in Ahead : p.tid # request.tid
        /\ result = "OK" /\ Attended => StoredWhole(asked.obj)
        /\ sink_rejected /\ Attended /\ Object[asked.obj].sized
              /\ transferred = Object[asked.obj].blocks => detail = "sink"

TransferInv ==
    StreamInv /\ RequestInv /\ SendingInv /\ InfoInv /\ LocalsInv /\ SinkInv /\ GotInv /\ PlaceInv
    /\ RejectionInv /\ AnswerInv /\ StoredIsOwn /\ ConfirmedMeansStored

-----------------------------------------------------------------------------
(* The stream of packets. *)

LEMMA StreamIs ==
    ASSUME WireInv
    PROVE  /\ Stream \in Seq(Sent) /\ Len(Stream) = Len(wire) + Len(left)
           /\ \A i \in 1..Len(wire) : Stream[i] = wire[i]
           /\ \A i \in 1..Len(left) : Stream[Len(wire) + i] = left[i]
           /\ Ahead \subseteq Sent
           /\ Len(wire) \in Nat /\ Len(left) \in Nat
<1>1. wire \in Seq(Sent) /\ left \in Seq(Sent)
  BY DEF WireInv
<1>2. Stream \in Seq(Sent) /\ Len(Stream) = Len(wire) + Len(left)
  BY <1>1 DEF Stream
<1>3. \A i \in 1..Len(wire) : Stream[i] = wire[i]
  BY <1>1 DEF Stream
<1>4. \A i \in 1..Len(left) : Stream[Len(wire) + i] = left[i]
  BY <1>1 DEF Stream
<1>5. Ahead \subseteq Sent
  BY <1>2 DEF Ahead
<1> QED
  BY <1>1, <1>2, <1>3, <1>4, <1>5

Ordered == \A i, j \in 1..Len(Stream) : i < j => Before(Stream[i], Stream[j])

(* A read takes the oldest packet. *)
Taken(p) == p \in Ahead /\ Ahead' \subseteq Ahead /\ \A q \in Ahead' : Before(p, q)

LEMMA ReadTakes ==
    ASSUME WireInv, Ordered, wire # <<>>, wire' = Tail(wire), left' = left
    PROVE  Taken(Head(wire)) /\ Ordered'
<1>1. wire \in Seq(Sent) /\ left \in Seq(Sent)
  BY DEF WireInv
<1>2. /\ Len(wire) \in Nat \ {0} /\ Head(wire) = wire[1]
      /\ Tail(wire) \in Seq(Sent) /\ Len(Tail(wire)) = Len(wire) - 1
      /\ \A i \in 1..(Len(wire) - 1) : Tail(wire)[i] = wire[i + 1]
  BY <1>1, HeadTailProperties
<1>3. Stream' = Tail(wire) \o left
  BY DEF Stream
<1>4. Len(Stream') = Len(Stream) - 1 /\ Len(Stream) \in Nat \ {0} /\ Len(left) \in Nat
  BY <1>1, <1>2, <1>3 DEF Stream
<1>5. ASSUME NEW i \in 1..Len(Stream') PROVE Stream'[i] = Stream[i + 1]
  <2>1. CASE i \in 1..(Len(wire) - 1)
    BY <1>1, <1>2, <1>3, <2>1 DEF Stream
  <2>2. CASE i \in Len(wire)..(Len(wire) - 1 + Len(left))
    <3>1. Stream'[i] = left[i - (Len(wire) - 1)]
      BY <1>1, <1>2, <1>3, <1>4, <2>2
    <3>2. Stream[i + 1] = left[i + 1 - Len(wire)]
      BY <1>1, <1>2, <1>4, <2>2 DEF Stream
    <3>3. i - (Len(wire) - 1) = i + 1 - Len(wire)
      BY <1>2, <1>4
    <3> QED
      BY <3>1, <3>2, <3>3
  <2>3. Len(Stream) = Len(wire) + Len(left)
    BY <1>1 DEF Stream
  <2> QED
    BY <1>2, <1>4, <2>1, <2>2, <2>3
<1>6. Stream[1] = Head(wire)
  BY <1>1, <1>2 DEF Stream
<1>7. Head(wire) \in Ahead
  BY <1>4, <1>6 DEF Ahead
<1>8. ASSUME NEW q \in Ahead' PROVE q \in Ahead /\ Before(Head(wire), q)
  <2>1. PICK i \in 1..Len(Stream') : q = Stream'[i]
    BY DEF Ahead
  <2>2. i + 1 \in 1..Len(Stream) /\ 1 \in 1..Len(Stream) /\ 1 < i + 1 /\ q = Stream[i + 1]
    BY <1>4, <1>5, <2>1
  <2> QED
    BY <1>6, <2>2 DEF Ahead, Ordered
<1>9. Ordered'
  <2> SUFFICES ASSUME NEW i \in 1..Len(Stream'), NEW j \in 1..Len(Stream'), i < j
               PROVE  Before(Stream'[i], Stream'[j])
    BY DEF Ordered, Before, Rank
  <2>1. i + 1 \in 1..Len(Stream) /\ j + 1 \in 1..Len(Stream) /\ i + 1 < j + 1
    BY <1>4
  <2>2. Before(Stream[i + 1], Stream[j + 1])
    BY <2>1 DEF Ordered
  <2> QED
    BY <1>5, <2>2
<1> QED
  BY <1>7, <1>8, <1>9 DEF Taken

(* A packet that was sent is still ahead. *)
LEMMA SendKeepsStream ==
    ASSUME WireInv, left # <<>>, wire' = Append(wire, Head(left)), left' = Tail(left)
    PROVE  Stream' = Stream
<1>1. wire \in Seq(Sent) /\ left \in Seq(Sent)
  BY DEF WireInv
<1>2. /\ Len(left) \in Nat \ {0} /\ Head(left) = left[1] /\ left[1] \in Sent
      /\ Tail(left) \in Seq(Sent) /\ Len(Tail(left)) = Len(left) - 1
      /\ \A i \in 1..(Len(left) - 1) : Tail(left)[i] = left[i + 1]
  BY <1>1, HeadTailProperties
<1>3. wire' \in Seq(Sent) /\ left' \in Seq(Sent) /\ Len(wire') = Len(wire) + 1
      /\ (\A i \in 1..Len(wire) : wire'[i] = wire[i]) /\ wire'[Len(wire) + 1] = left[1]
  BY <1>1, <1>2
<1>4. Stream' \in Seq(Sent) /\ Stream \in Seq(Sent) /\ Len(Stream') = Len(wire) + Len(left)
      /\ Len(Stream) = Len(wire) + Len(left) /\ Len(wire) \in Nat
  BY <1>1, <1>2, <1>3 DEF Stream
<1>5. ASSUME NEW i \in 1..Len(Stream) PROVE Stream'[i] = Stream[i]
  <2>1. CASE i \in 1..Len(wire)
    BY <1>1, <1>2, <1>3, <2>1 DEF Stream
  <2>2. CASE i = Len(wire) + 1
    <3>1. Stream'[i] = left[1]
      BY <1>1, <1>2, <1>3, <1>4, <2>2 DEF Stream
    <3>2. Stream[i] = left[1]
      BY <1>1, <1>2, <1>4, <2>2 DEF Stream
    <3> QED
      BY <3>1, <3>2
  <2>3. CASE i \in (Len(wire) + 2)..(Len(wire) + Len(left))
    <3>1. Stream'[i] = left'[i - Len(wire')]
      BY <1>1, <1>2, <1>3, <1>4, <2>3 DEF Stream
    <3>2. Stream[i] = left[i - Len(wire)]
      BY <1>1, <1>2, <1>4, <2>3 DEF Stream
    <3>3. i - Len(wire') \in 1..(Len(left) - 1) /\ i - Len(wire') + 1 = i - Len(wire)
      BY <1>2, <1>3, <1>4, <2>3
    <3> QED
      BY <1>2, <3>1, <3>2, <3>3
  <2> QED
    BY <1>2, <1>4, <2>1, <2>2, <2>3
<1> QED
  BY <1>4, <1>5, SeqEqual

(* What a host that gives up has not sent never comes. *)
LEMMA GivingUpKeepsOrder ==
    ASSUME WireInv, Ordered, wire' = wire, left' = <<>>
    PROVE  Ahead' \subseteq Ahead /\ Ordered' /\ Stream' = wire
<1>1. wire \in Seq(Sent) /\ Stream' = wire
  BY DEF WireInv, Stream
<1>2. \A i \in 1..Len(Stream') : Stream'[i] = Stream[i] /\ i \in 1..Len(Stream)
  BY <1>1, StreamIs
<1> QED
  BY <1>1, <1>2 DEF Ahead, Ordered, Before, Rank

-----------------------------------------------------------------------------
(* The host. *)

(* The packets of a request, in their order. *)
IsPacketOf(p, r, i) ==
    /\ p.op = r.op /\ p.obj = r.obj /\ p.tid = r.tid
    /\ Rank(p) = i - 1
    /\ p.kind = "dataset" <=> p.op = "SendObjectInfo" /\ p.kind # "request"
    /\ p.kind \in {"header", "block"} <=> p.op = "SendObject" /\ p.kind # "request"
    /\ p.kind \in {"header", "block"} => p.block \in 1..LastBlock(p.obj)
    /\ p.kind = "header" => p.block = 1
    /\ p.kind = "block" => p.block > 1

LEMMA PacketsAre ==
    ASSUME WireInv, NEW r \in [op: Operations, obj: objects \cup {NoObject}, tid: Nat],
           r.op \in {"SendObjectInfo", "SendObject"} => r.obj # NoObject,
           NEW i \in 1..Len(Packets(r))
    PROVE  IsPacketOf(Packets(r)[i], r, i)
<1> DEFINE size == IF Object[r.obj].blocks = 0 THEN 1 ELSE Object[r.obj].blocks
           data == [n \in 1..size |-> Packet(IF n = 1 THEN "header" ELSE "block", r, n)]
           rest == CASE r.op = "SendObjectInfo" -> <<Packet("dataset", r, 0)>>
                     [] r.op = "SendObject" -> data
                     [] OTHER -> <<>>
           p == Packets(r)[i]
<1>1. Packets(r) = <<Packet("request", r, 0)>> \o rest
  BY DEF Packets
<1>2. r.op = "SendObject" => size \in Nat \ {0} /\ size = LastBlock(r.obj)
  <2>1. r.op = "SendObject" => r.obj \in Objects
    BY ObjectAssumption DEF WireInv
  <2> QED
    BY <2>1, ObjectAssumption DEF LastBlock
<1>3. CASE i = 1
  <2>1. p = Packet("request", r, 0)
    <3>1. CASE r.op = "SendObjectInfo"
      BY <1>1, <1>3, <3>1
    <3>2. CASE r.op = "SendObject"
      <4>1. rest \in Seq({data[n] : n \in 1..size})
        BY <1>2, <3>2
      <4> HIDE DEF rest
      <4> QED
        BY <1>1, <1>3, <4>1
    <3>3. CASE r.op \notin {"SendObjectInfo", "SendObject"}
      BY <1>1, <1>3, <3>3
    <3> QED
      BY <3>1, <3>2, <3>3
  <2> QED
    BY <1>3, <2>1 DEF Packet, Rank, IsPacketOf
<1>4. CASE i > 1 /\ r.op = "SendObjectInfo"
  <2>1. i = 2 /\ p = Packet("dataset", r, 0)
    BY <1>1, <1>4
  <2> QED
    BY <1>4, <2>1 DEF Packet, Rank, IsPacketOf
<1>5. CASE i > 1 /\ r.op = "SendObject"
  <2>1. rest = data /\ Len(data) = size
    BY <1>2, <1>5
  <2>2. data \in Seq({data[n] : n \in 1..size})
    <3> DEFINE D == {data[n] : n \in 1..size}
    <3>1. size \in Nat
      BY <1>2, <1>5
    <3>2. data = [n \in 1..size |-> data[n]] /\ \A n \in 1..size : data[n] \in D
      OBVIOUS
    <3> HIDE DEF size, D, data
    <3>3. data \in Seq(D)
      BY <3>1, <3>2
    <3> QED
      BY <3>3 DEF D
  <2>3. i - 1 \in 1..size /\ p = data[i - 1]
    <3> HIDE DEF data, rest, size
    <3> QED
      BY <1>1, <1>2, <1>5, <2>1, <2>2
  <2>4. p = Packet(IF i - 1 = 1 THEN "header" ELSE "block", r, i - 1)
    BY <2>3
  <2> QED
    BY <1>2, <1>5, <2>3, <2>4 DEF Packet, Rank, IsPacketOf
<1>6. CASE i > 1 /\ r.op \notin {"SendObjectInfo", "SendObject"}
  BY <1>1, <1>6
<1> QED
  BY <1>3, <1>4, <1>5, <1>6

(* A new request comes after everything that is on its way. *)
LEMMA AskingAdds ==
    ASSUME IInv, StreamInv, NEW op \in Operations, NEW o \in objects \cup {NoObject},
           HostAsks(op, o)
    PROVE  /\ asked' = [op |-> op, obj |-> o, tid |-> asked.tid + 1] /\ asked.tid \in Nat
           /\ \A p \in Ahead' :
                 \/ p \in Ahead /\ p.tid <= asked.tid
                 \/ p.tid = asked.tid + 1 /\ p.op = op /\ p.obj = o
           /\ wire = <<>> => \A p \in Ahead' : p.tid = asked.tid + 1
           /\ StreamInv'
<1>1. /\ hostPc = "idle" /\ left = <<>> /\ wire' = wire /\ objects' = objects
      /\ asked' = [op |-> op, obj |-> o, tid |-> asked.tid + 1] /\ hostPc' = "sending"
      /\ left' = Packets(asked')
      /\ op \in {"SendObjectInfo", "SendObject"} => o # NoObject
      /\ confirmed' \subseteq objects
  BY DEF HostAsks, StreamInv
<1>2. WireInv /\ asked.tid \in Nat
  BY DEF IInv, WireInv
<1>3. /\ asked' \in [op: Operations, obj: objects \cup {NoObject}, tid: Nat]
      /\ asked'.op = op /\ asked'.obj = o /\ asked'.tid = asked.tid + 1
  BY <1>1, <1>2
<1>4. asked'.op \in {"SendObjectInfo", "SendObject"} => asked'.obj # NoObject
  BY <1>1, <1>3
<1>5. left' \in Seq(Sent) /\ wire \in Seq(Sent)
  BY <1>1, <1>2, <1>3, <1>4, PacketsSent DEF WireInv
<1>6. /\ Stream = wire /\ Len(Stream') = Len(wire) + Len(left')
      /\ \A i \in 1..Len(wire) : Stream'[i] = Stream[i]
      /\ \A i \in (Len(wire) + 1)..Len(Stream') : Stream'[i] = left'[i - Len(wire)]
                                                  /\ i - Len(wire) \in 1..Len(left')
  BY <1>1, <1>5 DEF Stream
<1>7. Len(wire) \in Nat /\ Len(left') \in Nat
  BY <1>5
<1>8. ASSUME NEW i \in (Len(wire) + 1)..Len(Stream'), NEW p, p = Stream'[i]
      PROVE  /\ p.op = op /\ p.obj = o /\ p.tid = asked.tid + 1
             /\ Rank(p) = i - Len(wire) - 1
             /\ Shaped(p)'
  <2>1. i - Len(wire) \in 1..Len(Packets(asked')) /\ p = Packets(asked')[i - Len(wire)]
    BY <1>1, <1>6, <1>8
  <2>2. IsPacketOf(p, asked', i - Len(wire))
    BY <1>2, <1>3, <1>4, <2>1, PacketsAre
  <2>3. p.tid \in 1..asked'.tid /\ p.op = asked'.op /\ p.obj = asked'.obj
    BY <1>2, <1>3, <2>2 DEF IsPacketOf
  <2> QED
    BY <1>3, <2>2, <2>3 DEF IsPacketOf, Shaped, LastBlock
<1>9. ASSUME NEW i \in 1..Len(wire)
      PROVE  /\ Stream'[i] = Stream[i] /\ Stream[i] \in Ahead
             /\ Stream[i].tid \in 1..asked.tid /\ Shaped(Stream[i])
  BY <1>6, <1>7 DEF StreamInv, Ahead, Shaped
<1>10. ASSUME NEW p \in Ahead'
       PROVE  /\ (p \in Ahead /\ p.tid <= asked.tid)
                 \/ (p.tid = asked.tid + 1 /\ p.op = op /\ p.obj = o)
              /\ wire = <<>> => p.tid = asked.tid + 1
              /\ Shaped(p)'
  <2>1. PICK i \in 1..Len(Stream') : p = Stream'[i]
    BY DEF Ahead
  <2>2. CASE i \in 1..Len(wire)
    <3>1. p \in Ahead /\ p.tid \in 1..asked.tid /\ Shaped(p) /\ wire # <<>>
      BY <1>9, <2>1, <2>2
    <3>2. Shaped(p)'
      BY <1>2, <1>3, <3>1 DEF Shaped, LastBlock
    <3> QED
      BY <1>2, <3>1, <3>2
  <2>3. CASE i \in (Len(wire) + 1)..Len(Stream')
    <3>1. p.op = op /\ p.obj = o /\ p.tid = asked.tid + 1 /\ Shaped(p)'
      BY <1>8, <2>1, <2>3
    <3> QED
      BY <3>1
  <2> QED
    BY <1>6, <1>7, <2>2, <2>3
<1>11. Ordered'
  <2> SUFFICES ASSUME NEW i \in 1..Len(Stream'), NEW j \in 1..Len(Stream'), i < j
               PROVE  Before(Stream'[i], Stream'[j])
    BY DEF Ordered, Before, Rank
  <2>1. CASE j \in 1..Len(wire)
    <3>1. i \in 1..Len(Stream) /\ j \in 1..Len(Stream)
      BY <1>6, <1>7, <2>1
    <3>2. Before(Stream[i], Stream[j])
      BY <3>1 DEF StreamInv
    <3> QED
      BY <1>6, <2>1, <3>1, <3>2
  <2>2. CASE i \in 1..Len(wire) /\ j \in (Len(wire) + 1)..Len(Stream')
    <3>1. Stream'[i].tid \in 1..asked.tid /\ Stream'[j].tid = asked.tid + 1
      BY <1>8, <1>9, <2>2, Zenon
    <3> QED
      BY <1>2, <3>1 DEF Before
  <2>3. CASE i \in (Len(wire) + 1)..Len(Stream')
    <3>1. j \in (Len(wire) + 1)..Len(Stream')
      BY <1>6, <1>7, <2>3
    <3>2. /\ Stream'[i].op = op /\ Stream'[i].obj = o /\ Stream'[i].tid = asked.tid + 1
          /\ Stream'[j].op = op /\ Stream'[j].obj = o /\ Stream'[j].tid = asked.tid + 1
          /\ Rank(Stream'[i]) = i - Len(wire) - 1 /\ Rank(Stream'[j]) = j - Len(wire) - 1
      BY <1>8, <2>3, <3>1, Zenon
    <3>3. i - Len(wire) - 1 < j - Len(wire) - 1
      BY <1>6, <1>7
    <3> QED
      BY <3>2, <3>3 DEF Before
  <2> QED
    BY <1>6, <1>7, <2>1, <2>2, <2>3
<1>12. asked'.op \in {"SendObjectInfo", "SendObject"} => asked'.obj \in objects'
  BY <1>1, <1>3, <1>4
<1>13. StreamInv'
  <2>1. \A p \in Ahead' : Shaped(p)'
    BY <1>10
  <2>2. hostPc' = "sending" /\ asked'.tid > 0
    BY <1>1, <1>2, <1>3
  <2>3. confirmed' \subseteq objects'
    BY <1>1
  <2> QED
    BY <1>11, <1>12, <2>1, <2>2, <2>3 DEF StreamInv, Ordered
<1> QED
  BY <1>1, <1>2, <1>10, <1>13
(* What the server and the stores have does not change with the host. *)
LEMMA ServerKeeps ==
    ASSUME TransferInv,
           UNCHANGED <<pc, request, described, result, detail, mSendObjectHandle, sinkVars,
                       receiveVars, store, confirmed>>
    PROVE  LocalsInv' /\ SinkInv' /\ RejectionInv' /\ StoredIsOwn' /\ ConfirmedMeansStored'
<1>1. /\ UNCHANGED <<pc, request, described, result, detail, mSendObjectHandle, mSendObjectSink>>
      /\ UNCHANGED <<transferred, sink_rejected, temp, files, installed, confirmed>>
  BY DEF sinkVars, receiveVars, store
<1>2. LocalsInv' /\ SinkInv' /\ RejectionInv'
  BY <1>1 DEF TransferInv, LocalsInv, SinkInv, RejectionInv, Staged, Sink, SizeKnown, Size
<1>3. StoredIsOwn' /\ ConfirmedMeansStored'
  BY <1>1 DEF TransferInv, StoredIsOwn, ConfirmedMeansStored
<1> QED
  BY <1>2, <1>3

LEMMA HostKeepsTransfer == IInv /\ TransferInv /\ HostStep => TransferInv'
<1> SUFFICES ASSUME IInv, TransferInv, HostStep PROVE TransferInv'
  OBVIOUS
<1>1. /\ UNCHANGED <<pc, request, described, result, detail, mSendObjectHandle, sinkVars>>
      /\ UNCHANGED <<receiveVars, store, confirmed, objects>>
  BY DEF HostStep, HostAsks, HostSends, HostGivesUp, requestVars
<1>2. /\ Got' = Got /\ Size' = Size /\ ReadSoFar' = ReadSoFar
      /\ UNCHANGED <<pc, request, described, result, detail, mSendObjectHandle, transferred>>
      /\ UNCHANGED <<files, installed, sink_rejected>>
  BY <1>1 DEF Got, Staged, Sink, Size, ReadSoFar, sinkVars, receiveVars, store
<1>3. LocalsInv' /\ SinkInv' /\ RejectionInv' /\ StoredIsOwn' /\ ConfirmedMeansStored'
  BY <1>1, ServerKeeps
<1>4. request.tid \in 0..asked.tid /\ asked.tid \in Nat
  BY DEF TransferInv, RequestInv, IInv, WireInv
<1>5. ASSUME NEW op \in Operations, NEW o \in objects \cup {NoObject}, HostAsks(op, o)
      PROVE  TransferInv'
  <2>1. /\ asked' = [op |-> op, obj |-> o, tid |-> asked.tid + 1]
        /\ \A p \in Ahead' :
              \/ p \in Ahead /\ p.tid <= asked.tid
              \/ p.tid = asked.tid + 1 /\ p.op = op /\ p.obj = o
        /\ wire = <<>> => \A p \in Ahead' : p.tid = asked.tid + 1
        /\ StreamInv'
    BY <1>5, AskingAdds DEF TransferInv
  <2>2. /\ asked'.tid = asked.tid + 1 /\ asked'.op = op /\ asked'.obj = o
        /\ offered' = NoObject
        /\ op = "SendObject" => o = offered /\ o # NoObject
    BY <1>5, <2>1 DEF HostAsks
  <2>3. op = "SendObject" =>
           /\ wire = <<>> /\ mSendObjectHandle \in {o, NoObject}
           /\ pc \in {"request", "leaving", "stopped"} /\ request.tid = 0
    BY <2>2 DEF TransferInv, SendingInv, RequestInv, NoRequest
  <2>4. request.tid # asked'.tid
    BY <1>4, <2>2
  <2>5. \A p \in Ahead : p.tid \in Nat
    BY StreamIs DEF IInv, Sent
  <2>6. RequestInv'
    BY <1>2, <1>4, <2>1, <2>2, <2>4 DEF TransferInv, RequestInv
  <2>7. SendingInv'
    <3>1. ASSUME NEW p \in Ahead', p.op = "SendObject"
          PROVE  /\ request.tid \in {0, p.tid}
                 /\ mSendObjectHandle \in {NoObject, p.obj}
                 /\ \A q \in Ahead' : q.tid >= p.tid
      <4>1. CASE p \in Ahead /\ p.tid <= asked.tid
        BY <1>4, <2>1, <2>5, <3>1, <4>1 DEF TransferInv, SendingInv
      <4>2. CASE p.tid = asked.tid + 1 /\ p.op = op /\ p.obj = o
        <5>1. \A q \in Ahead' : q.tid = p.tid
          BY <2>1, <2>3, <3>1, <4>2
        <5> QED
          BY <1>4, <2>3, <3>1, <4>2, <5>1
      <4> QED
        BY <2>1, <4>1, <4>2
    <3> QED
      BY <1>2, <2>2, <2>4, <3>1 DEF SendingInv
  <2>8. InfoInv'
    BY <1>2, <2>4 DEF TransferInv, InfoInv
  <2>9. GotInv'
    <3>1. CASE pc \in {"receive", "finish"}
      <4>1. op # "SendObject"
        BY <2>3, <3>1
      <4>2. \A p \in Ahead' : p.op = "SendObject" => p \in Ahead
        BY <2>1, <4>1
      <4> QED
        BY <1>2, <4>2 DEF TransferInv, GotInv, OwnContent
    <3>2. CASE pc \notin {"receive", "finish"}
      BY <1>2, <3>2 DEF GotInv, ReadSoFar
    <3> QED
      BY <3>1, <3>2
  <2>10. PlaceInv' /\ AnswerInv'
    <3>1. ~Attended'
      BY <1>2, <2>4 DEF Attended
    <3>2. \A p \in Ahead' : p \in Ahead \/ p.tid # request.tid
      BY <1>4, <2>1
    <3> QED
      BY <1>2, <3>1, <3>2 DEF TransferInv, PlaceInv, AnswerInv
  <2> QED
    BY <1>3, <2>1, <2>6, <2>7, <2>8, <2>9, <2>10 DEF TransferInv
<1>6. CASE HostSends
  <2>1. /\ hostPc = "sending" /\ UNCHANGED <<asked, offered>>
        /\ wire' = Append(wire, Head(left)) /\ left' = Tail(left)
        /\ hostPc' = IF Len(left) = 1 THEN "awaiting" ELSE "sending"
    BY <1>6 DEF HostSends
  <2>2. WireInv /\ left # <<>> /\ left \in Seq(Sent)
    BY <2>1 DEF IInv, WireInv
  <2>3. Stream' = Stream
    BY <2>1, <2>2, SendKeepsStream
  <2>4. Ahead' = Ahead
    BY <2>3 DEF Ahead
  <2>5. hostPc' = "awaiting" => left' = <<>>
    BY <2>1, <2>2, HeadTailProperties, EmptySeq
  <2>6. offered = NoObject
    BY <2>1 DEF TransferInv, SendingInv
  <2>7. Attended' = Attended
    BY <1>2, <2>1 DEF Attended
  <2>8. StreamInv'
    BY <1>1, <2>1, <2>3, <2>4, <2>5 DEF TransferInv, StreamInv, Shaped, Before, Rank
  <2>9. RequestInv' /\ SendingInv' /\ InfoInv'
    BY <1>2, <2>1, <2>4, <2>6 DEF TransferInv, RequestInv, SendingInv, InfoInv
  <2>10. GotInv' /\ PlaceInv'
    BY <1>2, <2>4, <2>7 DEF TransferInv, GotInv, PlaceInv
  <2>11. AnswerInv'
    BY <1>2, <2>1, <2>4, <2>7 DEF TransferInv, AnswerInv, StoredWhole
  <2> QED
    BY <1>3, <2>8, <2>9, <2>10, <2>11 DEF TransferInv
<1>7. CASE HostGivesUp
  <2>1. /\ hostPc # "idle" /\ hostPc' = "idle" /\ UNCHANGED <<asked, offered, wire>>
        /\ left' = <<>>
    BY <1>7 DEF HostGivesUp
  <2>2. Ahead' \subseteq Ahead /\ Ordered'
    BY <2>1, GivingUpKeepsOrder DEF TransferInv, StreamInv, Ordered, IInv
  <2>3. offered = NoObject /\ ~Attended'
    BY <2>1 DEF TransferInv, SendingInv, Attended
  <2>4. StreamInv'
    BY <1>1, <2>1, <2>2 DEF TransferInv, StreamInv, Ordered, Shaped
  <2>5. RequestInv' /\ SendingInv' /\ InfoInv'
    BY <1>2, <2>1, <2>2, <2>3 DEF TransferInv, RequestInv, SendingInv, InfoInv
  <2>6. GotInv' /\ PlaceInv' /\ AnswerInv'
    BY <1>2, <2>2, <2>3 DEF TransferInv, GotInv, OwnContent, PlaceInv, AnswerInv
  <2> QED
    BY <1>3, <2>4, <2>5, <2>6 DEF TransferInv
<1> QED
  BY <1>5, <1>6, <1>7 DEF HostStep

-----------------------------------------------------------------------------
(* The server's reads. *)

(* The server takes from the stream, and adds nothing to it. *)
LEMMA ServerShrinks ==
    ASSUME IInv, TransferInv, UNCHANGED hostVars,
           (wire' = Tail(wire) /\ wire # <<>>) \/ Silence \/ wire' = wire
    PROVE  Ahead' \subseteq Ahead /\ StreamInv'
<1>1. /\ left' = left /\ hostPc' = hostPc /\ asked' = asked /\ objects' = objects
      /\ confirmed' = confirmed
  BY DEF hostVars
<1>2. Ordered /\ WireInv
  BY DEF TransferInv, StreamInv, Ordered, IInv
<1>3. Ahead' \subseteq Ahead /\ Ordered'
  <2>1. CASE wire' = wire
    <3>1. Stream' = Stream
      BY <1>1, <2>1 DEF Stream
    <3> QED
      BY <1>2, <3>1 DEF Ahead, Ordered, Before, Rank
  <2>2. CASE wire' = Tail(wire) /\ wire # <<>>
    BY <1>1, <1>2, <2>2, ReadTakes DEF Taken
  <2> QED
    BY <2>1, <2>2 DEF Silence
<1>4. StreamInv'
  BY <1>1, <1>3 DEF TransferInv, StreamInv, Ordered, Shaped
<1> QED
  BY <1>3, <1>4

(* What the packet that is read is like, and what comes after it. *)
LEMMA ReadPacket ==
    ASSUME IInv, TransferInv, UNCHANGED hostVars, wire # <<>>, wire' = Tail(wire)
    PROVE  /\ Head(wire) \in Sent /\ Shaped(Head(wire)) /\ Head(wire) \in Ahead
           /\ Head(wire).tid \in 1..asked.tid /\ asked.tid \in Nat
           /\ offered = NoObject
           /\ \A p \in Ahead' :
                 /\ p \in Ahead /\ p \in Sent /\ Shaped(p) /\ p.tid \in 1..asked.tid
                 /\ Before(Head(wire), p)
<1>1. left' = left /\ WireInv /\ Ordered
  BY DEF hostVars, IInv, TransferInv, StreamInv, Ordered
<1>2. Taken(Head(wire))
  BY <1>1, ReadTakes
<1>3. Ahead \subseteq Sent /\ \A p \in Ahead : Shaped(p)
  BY <1>1, StreamIs DEF TransferInv, StreamInv
<1>4. \A p \in Ahead : p.tid \in 1..asked.tid
  BY <1>3 DEF Shaped
<1>5. offered = NoObject /\ asked.tid \in Nat
  BY <1>1 DEF TransferInv, SendingInv, WireInv
<1> QED
  BY <1>2, <1>3, <1>4, <1>5 DEF Taken

(* Outside doSendObject, and before an answer, the rest follows. *)
LEMMA BetweenTransfers ==
    ASSUME TransferInv, pc' \notin {"header", "receive", "finish", "respond"},
           pc \notin {"receive", "finish"},
           detail' = "none", ~sink_rejected',
           transferred' \in Nat, sink_rejected' \in BOOLEAN,
           UNCHANGED <<mSendObjectHandle, mSendObjectSink, confirmed, store>>
    PROVE  /\ LocalsInv' /\ SinkInv' /\ GotInv' /\ PlaceInv' /\ RejectionInv' /\ AnswerInv'
           /\ StoredIsOwn' /\ ConfirmedMeansStored'
<1>1. UNCHANGED <<files, installed>>
  BY DEF store
<1>2. LocalsInv' /\ GotInv' /\ PlaceInv' /\ RejectionInv' /\ AnswerInv'
  BY DEF LocalsInv, GotInv, ReadSoFar, PlaceInv, RejectionInv, AnswerInv
<1>3. SinkInv'
  BY <1>1 DEF TransferInv, SinkInv, Staged, Sink, SizeKnown
<1>4. StoredIsOwn' /\ ConfirmedMeansStored'
  BY <1>1 DEF TransferInv, StoredIsOwn, ConfirmedMeansStored
<1> QED
  BY <1>2, <1>3, <1>4

LEMMA RequestKeepsTransfer ==
    IInv /\ TransferInv /\ (ReadRequest \/ RequestTimesOut \/ ReadDataset) => TransferInv'
<1> SUFFICES ASSUME IInv, TransferInv, ReadRequest \/ RequestTimesOut \/ ReadDataset
             PROVE  TransferInv'
  OBVIOUS
<1>1. /\ UNCHANGED hostVars /\ UNCHANGED <<mSendObjectHandle, sinkVars, store>>
      /\ ((wire' = Tail(wire) /\ wire # <<>>) \/ Silence)
      /\ pc \in {"request", "dataset"} /\ pc' \in {"request", "leaving", "dataset", "handle"}
      /\ (UNCHANGED <<detail, receiveVars>> \/ LocalsEnd)
  BY DEF ReadRequest, RequestTimesOut, ReadDataset, NextRequest
<1>2. Ahead' \subseteq Ahead /\ StreamInv'
  BY <1>1, ServerShrinks
<1>3. UNCHANGED <<objects, hostPc, asked, left, offered, confirmed, mSendObjectHandle>>
      /\ UNCHANGED <<mSendObjectSink, store>>
  BY <1>1 DEF hostVars, sinkVars
<1>4. /\ LocalsInv' /\ SinkInv' /\ GotInv' /\ PlaceInv' /\ RejectionInv' /\ AnswerInv'
      /\ StoredIsOwn' /\ ConfirmedMeansStored'
  <2>1. /\ detail' = "none" /\ ~sink_rejected'
        /\ transferred' \in Nat /\ sink_rejected' \in BOOLEAN
    <3>1. CASE UNCHANGED <<detail, receiveVars>>
      <4>1. /\ detail = "none" /\ ~sink_rejected
            /\ transferred \in Nat /\ sink_rejected \in BOOLEAN
        BY <1>1 DEF TransferInv, LocalsInv
      <4>2. detail' = detail /\ transferred' = transferred /\ sink_rejected' = sink_rejected
        BY <3>1 DEF receiveVars
      <4> QED
        BY <4>1, <4>2
    <3>2. CASE LocalsEnd
      <4>1. detail' = "none" /\ transferred' = 0 /\ sink_rejected' = FALSE
        BY <3>2 DEF LocalsEnd
      <4> QED
        BY <4>1
    <3> QED
      BY <1>1, <3>1, <3>2
  <2> QED
    BY <1>1, <1>3, <2>1, BetweenTransfers
<1>5. CASE ReadRequest
  <2> DEFINE h == Head(wire)
  <2>1. /\ wire # <<>> /\ wire' = Tail(wire) /\ request' = AsRequest(h) /\ described' = NoObject
        /\ pc' \in {"dataset", "handle"}
    BY <1>5 DEF ReadRequest
  <2>2. /\ h \in Sent /\ Shaped(h) /\ h \in Ahead /\ h.tid \in 1..asked.tid /\ asked.tid \in Nat
        /\ offered = NoObject
        /\ \A p \in Ahead' :
              /\ p \in Ahead /\ p \in Sent /\ Shaped(p) /\ p.tid \in 1..asked.tid
              /\ Before(h, p)
    BY <1>1, <2>1, ReadPacket
  <2> HIDE DEF h
  <2>3. h.kind \in {"request", "dataset", "header", "block"}
    BY <2>2 DEF Sent
  <2>4. \/ request' = NoRequest
        \/ /\ request'.op = h.op /\ request'.tid = h.tid /\ request'.obj \in {h.obj, NoObject}
    BY <2>1, <2>3 DEF AsRequest
  <2>5. /\ NoRequest.op = "Other" /\ NoRequest.tid = 0
    BY DEF NoRequest
  <2>6. ASSUME NEW p \in Ahead'
        PROVE  /\ p.tid >= h.tid
               /\ p.tid = h.tid => p.op = h.op /\ p.kind # "request"
    <3>1. Before(h, p) /\ p.kind \in {"request", "dataset", "header", "block"} /\ p.tid \in Nat
          /\ h.tid \in Nat
      BY <2>2 DEF Sent
    <3>2. Rank(h) \in Nat
      BY <2>2, <2>3 DEF Rank, Sent
    <3> QED
      BY <3>1, <3>2 DEF Before, Rank
  <2>7. RequestInv'
    <3>1. request'.tid \in 0..asked.tid
      BY <2>2, <2>4, <2>5
    <3>2. request'.op \in {"SendObjectInfo", "SendObject"} => request'.tid > 0
      BY <2>2, <2>4, <2>5
    <3>3. request'.tid > 0 /\ request'.tid = asked.tid =>
             request'.op = asked.op /\ request'.obj \in {asked.obj, NoObject}
      BY <2>2, <2>4, <2>5 DEF Shaped
    <3>4. \A p \in Ahead' :
             /\ p.tid >= request'.tid
             /\ p.tid = request'.tid => p.op = request'.op /\ p.kind # "request"
      BY <2>2, <2>4, <2>5, <2>6
    <3> QED
      BY <1>3, <2>1, <3>1, <3>2, <3>3, <3>4 DEF RequestInv
  <2>8. SendingInv'
    <3>1. ASSUME NEW p \in Ahead', p.op = "SendObject"
          PROVE  /\ request'.tid \in {0, p.tid}
                 /\ mSendObjectHandle \in {NoObject, p.obj}
                 /\ \A q \in Ahead' : q.tid >= p.tid
      <4>1. /\ mSendObjectHandle \in {NoObject, p.obj}
            /\ \A q \in Ahead : q.tid >= p.tid
        BY <2>2, <3>1 DEF TransferInv, SendingInv
      <4>2. h.tid = p.tid
        <5>1. p.tid >= h.tid /\ h.tid >= p.tid /\ p.tid \in Nat /\ h.tid \in Nat
          BY <2>2, <2>6, <4>1
        <5> QED
          BY <5>1
      <4> QED
        BY <1>2, <2>4, <2>5, <4>1, <4>2
    <3>2. request'.op = "SendObject" /\ request'.tid = asked.tid =>
             mSendObjectHandle \in {NoObject, asked.obj}
      <4> SUFFICES ASSUME request'.op = "SendObject", request'.tid = asked.tid
                   PROVE  mSendObjectHandle \in {NoObject, asked.obj}
        OBVIOUS
      <4>1. h.op = "SendObject" /\ h.tid = asked.tid
        BY <2>4, <2>5
      <4>2. mSendObjectHandle \in {NoObject, h.obj} /\ h.obj = asked.obj
        BY <2>2, <4>1 DEF TransferInv, SendingInv, Shaped
      <4> QED
        BY <4>2
    <3> QED
      BY <1>3, <2>2, <3>1, <3>2 DEF SendingInv
  <2>9. InfoInv'
    BY <2>1 DEF InfoInv
  <2> QED
    BY <1>2, <1>4, <2>7, <2>8, <2>9 DEF TransferInv
<1>6. CASE RequestTimesOut
  <2>1. /\ request' = NoRequest /\ described' = NoObject /\ pc' \in {"request", "leaving"}
        /\ Silence /\ NoRequest.op = "Other" /\ NoRequest.tid = 0
    BY <1>6 DEF RequestTimesOut, LocalsEnd, NextRequest, NoRequest
  <2>2. \A p \in Ahead : p.tid \in 1..asked.tid /\ asked.tid \in Nat
    BY DEF TransferInv, StreamInv, Shaped, IInv, WireInv
  <2>3. RequestInv'
    <3>1. asked.tid \in Nat
      BY DEF IInv, WireInv
    <3> QED
      BY <1>2, <1>3, <2>1, <2>2, <3>1 DEF RequestInv
  <2>4. SendingInv'
    <3>1. wire = <<>> => wire' = <<>>
      BY <2>1 DEF Silence
    <3> QED
      BY <1>2, <1>3, <2>1, <3>1 DEF TransferInv, SendingInv
  <2>5. InfoInv'
    BY <2>1 DEF InfoInv
  <2> QED
    BY <1>2, <1>4, <2>3, <2>4, <2>5 DEF TransferInv
<1>7. CASE ReadDataset
  <2> DEFINE h == Head(wire)
  <2>1. /\ wire # <<>> /\ wire' = Tail(wire) /\ request' = request /\ pc = "dataset"
        /\ pc' = "handle" /\ described' = IF h.kind = "dataset" THEN h.obj ELSE NoObject
    BY <1>7 DEF ReadDataset
  <2>2. /\ h \in Sent /\ Shaped(h) /\ h \in Ahead /\ h.tid \in 1..asked.tid /\ asked.tid \in Nat
        /\ offered = NoObject
        /\ \A p \in Ahead' :
              /\ p \in Ahead /\ p \in Sent /\ Shaped(p) /\ p.tid \in 1..asked.tid
              /\ Before(h, p)
    BY <1>1, <2>1, ReadPacket
  <2> HIDE DEF h
  <2>3. RequestInv'
    BY <1>2, <1>3, <2>1 DEF TransferInv, RequestInv
  <2>4. SendingInv'
    BY <1>2, <1>3, <2>1, <2>2 DEF TransferInv, SendingInv
  <2>5. InfoInv'
    <3>1. ASSUME h.kind = "dataset", request.tid = asked.tid, NEW p \in Ahead' PROVE FALSE
      <4>1. h.tid = asked.tid
        <5>1. h.tid >= request.tid
          BY <2>2 DEF TransferInv, RequestInv
        <5> QED
          BY <2>2, <3>1, <5>1
      <4>2. p.op = h.op /\ Rank(h) < Rank(p)
        <5>1. Before(h, p) /\ p.tid \in 1..asked.tid
          BY <2>2
        <5> QED
          BY <2>2, <4>1, <5>1 DEF Before
      <4>3. Rank(h) = 1 /\ h.op = "SendObjectInfo"
        BY <2>2, <3>1 DEF Rank, Shaped
      <4>4. p.kind \in {"request", "dataset"}
        BY <2>2, <4>2, <4>3 DEF Shaped, Sent
      <4> QED
        BY <4>2, <4>3, <4>4 DEF Rank
    <3> QED
      BY <1>3, <2>1, <3>1 DEF InfoInv
  <2> QED
    BY <1>2, <1>4, <2>3, <2>4, <2>5 DEF TransferInv
<1> QED
  BY <1>5, <1>6, <1>7

-----------------------------------------------------------------------------
(* handleRequest. *)

(* An answer to anything but SendObject. *)
LEMMA AnsweringOthers ==
    ASSUME TransferInv, pc = "handle", pc' = "respond", request.op # "SendObject",
           UNCHANGED <<request, receiveVars, confirmed, store>>
    PROVE  /\ LocalsInv' /\ GotInv' /\ PlaceInv' /\ RejectionInv' /\ AnswerInv'
           /\ StoredIsOwn' /\ ConfirmedMeansStored'
<1>1. UNCHANGED <<files, installed, transferred, sink_rejected>>
  BY DEF store, receiveVars
<1>2. GotInv' /\ PlaceInv' /\ RejectionInv' /\ AnswerInv'
  BY DEF GotInv, ReadSoFar, PlaceInv, RejectionInv, AnswerInv
<1>3. transferred' \in Nat /\ sink_rejected' \in BOOLEAN
  BY <1>1 DEF TransferInv, LocalsInv
<1>4. LocalsInv'
  BY <1>3 DEF LocalsInv
<1>5. StoredIsOwn' /\ ConfirmedMeansStored'
  BY <1>1 DEF TransferInv, StoredIsOwn, ConfirmedMeansStored
<1> QED
  BY <1>2, <1>4, <1>5

(* A request that drops the pending object. *)
LEMMA DroppingKeepsTransfer ==
    ASSUME IInv, TransferInv, pc = "handle", pc' = "respond", request.op # "SendObject",
           UNCHANGED <<hostVars, wire, request, described, receiveVars, store>>,
           mSendObjectHandle' = NoObject,
           request.op = "SendObjectInfo" => result' # "OK"
    PROVE  TransferInv'
<1>1. Ahead' \subseteq Ahead /\ StreamInv'
  BY ServerShrinks
<1>2. UNCHANGED <<hostPc, asked, left, offered, confirmed>>
  BY DEF hostVars
<1>3. /\ LocalsInv' /\ GotInv' /\ PlaceInv' /\ RejectionInv' /\ AnswerInv'
      /\ StoredIsOwn' /\ ConfirmedMeansStored'
  BY <1>2, AnsweringOthers
<1>4. offered = NoObject
  BY DEF TransferInv, SendingInv
<1>5. RequestInv' /\ SendingInv' /\ InfoInv' /\ SinkInv'
  BY <1>1, <1>2, <1>4 DEF TransferInv, RequestInv, SendingInv, InfoInv, SinkInv
<1> QED
  BY <1>1, <1>3, <1>5 DEF TransferInv

LEMMA RefusalKeepsTransfer ==
    IInv /\ TransferInv /\ (InfoRefused \/ HandleOpenSession \/ HandleCloseSession \/ HandleOther)
    => TransferInv'
<1> SUFFICES ASSUME IInv, TransferInv,
                    InfoRefused \/ HandleOpenSession \/ HandleCloseSession \/ HandleOther
             PROVE  TransferInv'
  OBVIOUS
<1>1. /\ pc = "handle" /\ pc' = "respond" /\ mSendObjectHandle' = NoObject
      /\ UNCHANGED <<hostVars, wire, requestVars, receiveVars, store>>
      /\ request.op # "SendObject" /\ (request.op = "SendObjectInfo" => result' # "OK")
  BY DEF InfoRefused, HandleOpenSession, HandleCloseSession, HandleOther, Answer
<1> QED
  BY <1>1, DroppingKeepsTransfer DEF requestVars

(* An object that is announced waits for its SendObject, alone. *)
LEMMA AnnouncingKeepsTransfer ==
    ASSUME OneStorage
    PROVE  IInv /\ TransferInv /\ (InfoStaged \/ InfoSink) => TransferInv'
<1> SUFFICES ASSUME IInv, TransferInv, InfoStaged \/ InfoSink PROVE TransferInv'
  OBVIOUS
<1>1. /\ pc = "handle" /\ pc' = "respond" /\ request.op = "SendObjectInfo"
      /\ UNCHANGED <<hostVars, wire, requestVars, receiveVars, store>>
      /\ InfoUsable
  BY DEF InfoStaged, InfoSink, InfoAccepted, Answer
<1>2. CASE ~InfoAccepted
  <2>1. mSendObjectHandle' = NoObject /\ result' # "OK"
    BY <1>2 DEF InfoStaged, InfoSink, Answer
  <2> QED
    BY <1>1, <2>1, DroppingKeepsTransfer DEF requestVars
<1>3. CASE InfoAccepted
  <2>1. Ahead' \subseteq Ahead /\ StreamInv'
    BY <1>1, ServerShrinks
  <2>2. UNCHANGED <<hostPc, asked, left, offered, confirmed, request, described, files>>
    BY <1>1 DEF hostVars, requestVars, store
  <2>3. /\ LocalsInv' /\ GotInv' /\ PlaceInv' /\ RejectionInv' /\ AnswerInv'
        /\ StoredIsOwn' /\ ConfirmedMeansStored'
    BY <1>1, <2>2, AnsweringOthers
  <2>4. /\ mSendObjectHandle' = described /\ described = request.obj /\ described # NoObject
        /\ files[described] = NoFile
    BY <1>1, <1>3 DEF InfoAccepted, InfoUsable
  <2>5. \A p \in Ahead : p.op # "SendObject"
    <3> SUFFICES ASSUME NEW p \in Ahead, p.op = "SendObject" PROVE FALSE
      OBVIOUS
    <3>1. request.tid \in {0, p.tid} /\ request.tid > 0
      BY <1>1 DEF TransferInv, SendingInv, RequestInv
    <3> QED
      BY <1>1, <3>1 DEF TransferInv, RequestInv
  <2>6. offered = NoObject
    BY <1>1 DEF TransferInv, SendingInv
  <2>7. RequestInv' /\ SendingInv' /\ InfoInv'
    BY <1>1, <2>1, <2>2, <2>4, <2>5, <2>6 DEF TransferInv, RequestInv, SendingInv, InfoInv
  <2>8. SinkInv'
    <3>1. CASE InfoStaged
      <4>1. described \in objects /\ mSendObjectSink' = mSendObjectSink
        BY <3>1, <2>4 DEF IInv, ReadInv, InfoStaged, sinkVars
      <4>2. Staged
        <5>1. ASSUME ~Staged PROVE FALSE
          <6>1. Sink.for \in objects /\ Object[Sink.for].storage = "install"
            BY <5>1 DEF IInv, HandleInv
          <6> QED
            BY <3>1, <4>1, <6>1 DEF InfoStaged, OneStorage, IInv, WireInv
        <5> QED
          BY <5>1
      <4> QED
        BY <2>2, <2>4, <4>1, <4>2 DEF SinkInv, Staged, Sink
    <3>2. CASE InfoSink
      <4>1. mSendObjectSink' = OpenedSink(described)
        BY <1>3, <3>2 DEF InfoSink, InfoAccepted, Answer
      <4>2. /\ mSendObjectSink'.known = Object[described].sized /\ mSendObjectSink'.got = <<>>
            /\ mSendObjectSink' # NoSink
        BY <2>4, <4>1 DEF OpenedSink, NoSink
      <4> QED
        BY <2>4, <4>2 DEF SinkInv, Staged, Sink, SizeKnown
    <3> QED
      BY <3>1, <3>2
  <2> QED
    BY <2>1, <2>3, <2>7, <2>8 DEF TransferInv
<1> QED
  BY <1>2, <1>3

LEMMA StartKeepsTransfer == IInv /\ TransferInv /\ HandleSendObject => TransferInv'
<1> SUFFICES ASSUME IInv, TransferInv, HandleSendObject PROVE TransferInv'
  OBVIOUS
<1>1. /\ pc = "handle" /\ request.op = "SendObject"
      /\ UNCHANGED <<hostVars, wire, requestVars, mSendObjectHandle, sinkVars, store>>
      /\ \/ /\ pc' = "respond" /\ result' = "NoValidObjectInfo"
            /\ transferred' = transferred /\ sink_rejected' = sink_rejected /\ detail' = detail
         \/ /\ pc' = "header" /\ result' = "OK" /\ detail' = "done"
            /\ transferred' = 0 /\ sink_rejected' = FALSE
  BY DEF HandleSendObject, Answer
<1>2. Ahead' \subseteq Ahead /\ StreamInv'
  BY <1>1, ServerShrinks
<1>3. /\ UNCHANGED <<hostPc, asked, left, offered, confirmed, request, described>>
      /\ UNCHANGED <<mSendObjectSink, files, installed>>
  BY <1>1 DEF hostVars, requestVars, sinkVars, store
<1>4. offered = NoObject /\ detail = "none" /\ ~sink_rejected /\ transferred \in Nat
  BY <1>1 DEF TransferInv, SendingInv, LocalsInv
<1>5. sink_rejected \in BOOLEAN
  BY DEF TransferInv, LocalsInv
<1>6. RequestInv' /\ SendingInv' /\ InfoInv' /\ SinkInv'
  BY <1>1, <1>2, <1>3, <1>4
     DEF TransferInv, RequestInv, SendingInv, InfoInv, SinkInv, Staged, Sink, SizeKnown
<1>7. LocalsInv'
  <2>1. CASE pc' = "respond"
    <3>1. transferred' \in Nat /\ sink_rejected' \in BOOLEAN
      BY <1>1, <1>4, <1>5, <2>1
    <3> QED
      BY <2>1, <3>1 DEF LocalsInv
  <2>2. CASE pc' = "header"
    <3>1. /\ transferred' = 0 /\ sink_rejected' = FALSE /\ request'.op = "SendObject"
          /\ result' = "OK" /\ detail' = "done"
      BY <1>1, <1>3, <2>2
    <3>2. transferred' \in Nat /\ sink_rejected' \in BOOLEAN /\ ~sink_rejected'
      BY <3>1
    <3> QED
      BY <2>2, <3>1, <3>2 DEF LocalsInv
  <2> QED
    BY <1>1, <2>1, <2>2
<1>8. GotInv' /\ PlaceInv' /\ RejectionInv'
  BY <1>1 DEF GotInv, ReadSoFar, PlaceInv, RejectionInv
<1>9. AnswerInv'
  <2>1. CASE pc' = "respond"
    <3>1. result' # "OK" /\ detail' # "sink" /\ ~sink_rejected'
      BY <1>1, <1>4, <2>1
    <3> QED
      BY <3>1 DEF AnswerInv
  <2>2. CASE pc' = "header"
    BY <2>2 DEF AnswerInv
  <2> QED
    BY <1>1, <2>1, <2>2
<1>10. StoredIsOwn' /\ ConfirmedMeansStored'
  BY <1>3 DEF TransferInv, StoredIsOwn, ConfirmedMeansStored
<1> QED
  BY <1>2, <1>6, <1>7, <1>8, <1>9, <1>10 DEF TransferInv

-----------------------------------------------------------------------------
(* The answer, and the end and the beginning of the server. *)

LEMMA RespondKeepsTransfer == IInv /\ TransferInv /\ Respond => TransferInv'
<1> SUFFICES ASSUME IInv, TransferInv, Respond PROVE TransferInv'
  OBVIOUS
<1> DEFINE Told == hostPc = "awaiting" /\ asked.tid = request.tid
<1>1. /\ UNCHANGED <<objects, asked, left, wire, mSendObjectHandle, store>>
      /\ pc = "respond" /\ pc' \in {"request", "leaving"}
      /\ request' = NoRequest /\ described' = NoObject /\ detail' = "none"
      /\ transferred' = 0 /\ sink_rejected' = FALSE
  BY DEF Respond, NextRequest, LocalsEnd
<1>2. IF Told
      THEN /\ hostPc' = "idle"
           /\ offered' = IF asked.op = "SendObjectInfo" /\ result = "OK"
                         THEN asked.obj ELSE NoObject
           /\ confirmed' = IF asked.op = "SendObject" /\ result = "OK"
                           THEN confirmed \cup {asked.obj} ELSE confirmed
      ELSE UNCHANGED <<hostPc, offered, confirmed>>
  BY DEF Respond
<1>3. Stream' = Stream /\ Ahead' = Ahead
  BY <1>1 DEF Stream, Ahead
<1>4. NoRequest.op = "Other" /\ NoRequest.tid = 0 /\ asked.tid \in Nat
  BY DEF NoRequest, IInv, WireInv
<1>5. UNCHANGED <<files, installed>> /\ offered = NoObject
  BY <1>1 DEF store, TransferInv, SendingInv
<1>6. Told => asked.tid > 0 /\ request.op = asked.op /\ request.obj \in {asked.obj, NoObject}
              /\ hostPc # "idle" /\ left = <<>>
  BY DEF TransferInv, StreamInv, RequestInv
<1>7. StreamInv'
  BY <1>1, <1>2, <1>3, <1>6 DEF TransferInv, StreamInv, Shaped, Before, Rank
<1>8. RequestInv'
  <2>1. \A p \in Ahead : p.tid \in 1..asked.tid
    BY DEF TransferInv, StreamInv, Shaped
  <2> QED
    BY <1>1, <1>3, <1>4, <2>1 DEF RequestInv
<1>9. SendingInv'
  <2>1. ASSUME offered' # NoObject
        PROVE  /\ hostPc' = "idle" /\ wire' = <<>> /\ left' = <<>>
               /\ mSendObjectHandle' \in {offered', NoObject}
               /\ pc' \in {"request", "leaving", "stopped"}
    <3>1. Told /\ asked.op = "SendObjectInfo" /\ result = "OK" /\ offered' = asked.obj
      BY <1>2, <1>5, <2>1
    <3>2. request.op = "SendObjectInfo" /\ request.tid = asked.tid
      BY <1>6, <3>1
    <3>3. described = request.obj /\ described # NoObject /\ mSendObjectHandle = described
      BY <1>1, <3>1, <3>2 DEF TransferInv, InfoInv
    <3>4. Ahead = {} /\ described = asked.obj
      BY <1>6, <3>1, <3>2, <3>3 DEF TransferInv, InfoInv
    <3>5. wire = <<>>
      <4>1. Len(Stream) = Len(wire) + Len(left) /\ Len(wire) \in Nat /\ Len(left) \in Nat
        BY StreamIs DEF IInv
      <4>2. Len(Stream) = 0
        <5>1. \A i \in 1..Len(Stream) : Stream[i] \in Ahead
          BY DEF Ahead
        <5>2. 1 \notin 1..Len(Stream)
          BY <3>4, <5>1
        <5> QED
          BY <4>1, <5>2
      <4>3. wire \in Seq(Sent)
        BY DEF IInv, WireInv
      <4>4. Len(wire) = 0
        BY <4>1, <4>2
      <4> QED
        BY <4>3, <4>4, EmptySeq
    <3> QED
      BY <1>1, <1>2, <1>6, <3>1, <3>3, <3>4, <3>5
  <2>2. \A p \in Ahead : p.op = "SendObject" =>
           mSendObjectHandle \in {NoObject, p.obj} /\ \A q \in Ahead : q.tid >= p.tid
    BY DEF TransferInv, SendingInv
  <2>3. request'.tid = 0 /\ request'.op = "Other" /\ mSendObjectHandle' = mSendObjectHandle
    BY <1>1, <1>4
  <2> QED
    BY <1>3, <2>1, <2>2, <2>3 DEF SendingInv
<1>10. InfoInv' /\ GotInv' /\ PlaceInv' /\ RejectionInv' /\ AnswerInv'
  BY <1>1 DEF InfoInv, GotInv, ReadSoFar, PlaceInv, RejectionInv, AnswerInv
<1>11. LocalsInv'
  <2>1. transferred' \in Nat /\ sink_rejected' \in BOOLEAN /\ ~sink_rejected' /\ detail' = "none"
    BY <1>1
  <2> QED
    BY <1>1, <2>1 DEF LocalsInv
<1>12. SinkInv'
  <2>1. mSendObjectHandle # NoObject => mSendObjectSink' = mSendObjectSink
    BY DEF Respond, sinkVars, IInv, HandleInv
  <2> QED
    BY <1>1, <1>5, <2>1 DEF TransferInv, SinkInv, Staged, Sink, SizeKnown
<1>13. StoredIsOwn'
  BY <1>5 DEF TransferInv, StoredIsOwn
<1>14. ConfirmedMeansStored'
  <2>1. ASSUME NEW o \in confirmed' PROVE StoredWhole(o)
    <3>1. CASE o \in confirmed
      BY <3>1 DEF TransferInv, ConfirmedMeansStored, StoredWhole
    <3>2. CASE o \notin confirmed
      <4>1. Told /\ asked.op = "SendObject" /\ result = "OK" /\ o = asked.obj
        BY <1>2, <2>1, <3>2
      <4> QED
        BY <1>1, <1>6, <4>1 DEF TransferInv, AnswerInv, Attended
    <3> QED
      BY <3>1, <3>2
  <2> QED
    BY <1>5, <2>1 DEF ConfirmedMeansStored, StoredWhole
<1> QED
  BY <1>7, <1>8, <1>9, <1>10, <1>11, <1>12, <1>13, <1>14 DEF TransferInv

LEMMA EndingKeepsTransfer ==
    IInv /\ TransferInv /\ (Leave \/ Crash \/ Restart \/ Stop \/ UNCHANGED vars) => TransferInv'
<1>1. IInv /\ TransferInv /\ (Leave \/ Crash) => TransferInv'
  <2> SUFFICES ASSUME IInv, TransferInv, Leave \/ Crash PROVE TransferInv'
    OBVIOUS
  <2>1. /\ UNCHANGED <<hostVars, wire, files, installed>> /\ pc' = "stopped"
        /\ mSendObjectHandle' = NoObject /\ request' = NoRequest /\ described' = NoObject
        /\ detail' = "none" /\ transferred' = 0 /\ sink_rejected' = FALSE
    BY DEF Leave, Crash, ServerIsGone, LocalsEnd
  <2>2. Ahead' \subseteq Ahead /\ StreamInv'
    BY <2>1, ServerShrinks
  <2>3. UNCHANGED <<hostPc, asked, left, offered, confirmed>>
    BY <2>1 DEF hostVars
  <2>4. NoRequest.op = "Other" /\ NoRequest.tid = 0 /\ asked.tid \in Nat
    BY DEF NoRequest, IInv, WireInv
  <2>5. \A p \in Ahead : p.tid \in 1..asked.tid
    BY DEF TransferInv, StreamInv, Shaped
  <2>6. RequestInv' /\ SendingInv'
    BY <2>1, <2>2, <2>3, <2>4, <2>5 DEF TransferInv, RequestInv, SendingInv
  <2>7. InfoInv' /\ GotInv' /\ PlaceInv' /\ RejectionInv' /\ AnswerInv' /\ SinkInv'
    BY <2>1 DEF InfoInv, GotInv, ReadSoFar, PlaceInv, RejectionInv, AnswerInv, SinkInv
  <2>8. LocalsInv'
    <3>1. transferred' \in Nat /\ sink_rejected' \in BOOLEAN /\ ~sink_rejected' /\ detail' = "none"
      BY <2>1
    <3> QED
      BY <2>1, <3>1 DEF LocalsInv
  <2>9. StoredIsOwn' /\ ConfirmedMeansStored'
    BY <2>1, <2>3 DEF TransferInv, StoredIsOwn, ConfirmedMeansStored
  <2> QED
    BY <2>2, <2>6, <2>7, <2>8, <2>9 DEF TransferInv
<1>2. IInv /\ TransferInv /\ Restart => TransferInv'
  <2> SUFFICES ASSUME IInv, TransferInv, Restart PROVE TransferInv'
    OBVIOUS
  <2>1. /\ UNCHANGED <<objects, asked, confirmed, requestVars, result, detail>>
        /\ UNCHANGED <<mSendObjectHandle, sinkVars, receiveVars, store>>
        /\ pc = "stopped" /\ pc' = "request" /\ wire' = <<>> /\ left' = <<>>
        /\ hostPc' = "idle" /\ offered' = NoObject
    BY DEF Restart
  <2>2. UNCHANGED <<request, described, mSendObjectSink, confirmed>>
    BY <2>1 DEF requestVars, sinkVars
  <2>3. Stream' = <<>>
    BY <2>1 DEF Stream
  <2>4. Len(Stream') = 0 /\ Ahead' = {}
    BY <2>3 DEF Ahead
  <2>5. StreamInv'
    BY <2>1, <2>4 DEF TransferInv, StreamInv
  <2>6. request = NoRequest
    BY <2>1 DEF TransferInv, RequestInv
  <2>7. RequestInv' /\ SendingInv' /\ InfoInv'
    BY <2>1, <2>2, <2>4, <2>6 DEF TransferInv, RequestInv, SendingInv, InfoInv
  <2>8. /\ detail' = "none" /\ ~sink_rejected'
        /\ transferred' \in Nat /\ sink_rejected' \in BOOLEAN
    <3>1. detail' = detail /\ transferred' = transferred /\ sink_rejected' = sink_rejected
      BY <2>1 DEF receiveVars
    <3>2. detail = "none" /\ ~sink_rejected /\ transferred \in Nat /\ sink_rejected \in BOOLEAN
      BY <2>1 DEF TransferInv, LocalsInv
    <3> QED
      BY <3>1, <3>2
  <2>9. /\ LocalsInv' /\ SinkInv' /\ GotInv' /\ PlaceInv' /\ RejectionInv' /\ AnswerInv'
        /\ StoredIsOwn' /\ ConfirmedMeansStored'
    BY <2>1, <2>2, <2>8, BetweenTransfers
  <2> QED
    BY <2>5, <2>7, <2>9 DEF TransferInv
<1>3. IInv /\ TransferInv /\ (Stop \/ UNCHANGED vars) => TransferInv'
  <2> SUFFICES ASSUME IInv, TransferInv, Stop \/ UNCHANGED vars PROVE TransferInv'
    OBVIOUS
  <2>1. /\ UNCHANGED <<hostVars, wire, pc, requestVars, result, detail, mSendObjectHandle>>
        /\ UNCHANGED <<sinkVars, receiveVars, store>>
    BY DEF Stop, vars
  <2>2. /\ UNCHANGED <<objects, hostPc, asked, left, offered, confirmed, wire, pc, request>>
        /\ UNCHANGED <<described, result, detail, mSendObjectHandle, mSendObjectSink>>
        /\ UNCHANGED <<transferred, sink_rejected, temp, files, installed>>
    BY <2>1 DEF hostVars, requestVars, sinkVars, receiveVars, store
  <2>3. Stream' = Stream /\ Ahead' = Ahead
    BY <2>2 DEF Stream, Ahead
  <2>4. StreamInv' /\ RequestInv' /\ SendingInv' /\ InfoInv'
    BY <2>2, <2>3 DEF TransferInv, StreamInv, Shaped, Before, Rank, RequestInv, SendingInv, InfoInv
  <2>5. LocalsInv' /\ SinkInv' /\ RejectionInv' /\ StoredIsOwn' /\ ConfirmedMeansStored'
    BY <2>2, <2>1, ServerKeeps
  <2>6. Got' = Got /\ Size' = Size /\ ReadSoFar' = ReadSoFar /\ Attended' = Attended
    BY <2>2 DEF Got, Staged, Sink, Size, ReadSoFar, Attended
  <2>7. GotInv' /\ PlaceInv' /\ AnswerInv'
    BY <2>2, <2>3, <2>6 DEF TransferInv, GotInv, PlaceInv, AnswerInv, StoredWhole
  <2> QED
    BY <2>4, <2>5, <2>7 DEF TransferInv
<1> QED
  BY <1>1, <1>2, <1>3

-----------------------------------------------------------------------------
(* The reads of doSendObject. *)

(* A packet of an object's data, among those ahead of the server. *)
IsDataOf(p, o) ==
    /\ p.obj = o /\ p.kind \in {"header", "block"} /\ p.block \in 1..LastBlock(o)
    /\ p.kind = "header" <=> p.block = 1
    /\ Rank(p) = p.block

(* h is read while o is received: ahead comes before, rest after the read.   *)
ReadOf(h, o, ahead, rest) ==
    /\ h \in ahead /\ rest \subseteq ahead
    /\ \A p \in ahead : p.kind \in {"header", "block"} => p.op = "SendObject"
    /\ \A p \in ahead : p.op = "SendObject" => IsDataOf(p, o)
    /\ \A p \in rest : p.op = "SendObject" => h.op = "SendObject" /\ Rank(h) < Rank(p)

LEMMA TransferReads ==
    ASSUME IInv, TransferInv, UNCHANGED hostVars, wire # <<>>, wire' = Tail(wire),
           pc \in {"header", "receive"}
    PROVE  /\ ReadOf(Head(wire), mSendObjectHandle, Ahead, Ahead')
           /\ Attended => \A p \in Ahead : p.op = "SendObject"
<1> DEFINE h == Head(wire)
<1>1. /\ h \in Ahead /\ \A p \in Ahead' : p \in Ahead /\ Before(h, p)
  BY ReadPacket
<1>2. \A p \in Ahead : p \in Sent /\ Shaped(p)
  BY StreamIs DEF IInv, TransferInv, StreamInv
<1> HIDE DEF h
<1>3. request.op = "SendObject" /\ request.tid > 0 /\ request.tid \in 0..asked.tid
      /\ asked.tid \in Nat /\ mSendObjectHandle # NoObject
  BY DEF TransferInv, LocalsInv, RequestInv, IInv, HandleInv, WireInv
<1>4. ASSUME NEW p \in Ahead, p.op = "SendObject"
      PROVE  IsDataOf(p, mSendObjectHandle) /\ p.tid = request.tid
             /\ \A q \in Ahead : q.tid >= p.tid
  <2>1. /\ p.tid = request.tid /\ p.obj = mSendObjectHandle
        /\ \A q \in Ahead : q.tid >= p.tid
    BY <1>3, <1>4 DEF TransferInv, SendingInv
  <2>2. p.kind # "request"
    BY <2>1 DEF TransferInv, RequestInv
  <2> QED
    BY <1>2, <1>4, <2>1, <2>2 DEF IsDataOf, Shaped, Rank, Sent
<1>5. ASSUME NEW p \in Ahead', p.op = "SendObject"
      PROVE  h.op = "SendObject" /\ Rank(h) < Rank(p)
  <2>1. p \in Ahead /\ h.tid >= p.tid /\ Before(h, p)
    BY <1>1, <1>4, <1>5
  <2>2. h.tid \in Nat /\ p.tid \in Nat
    BY <1>1, <1>2, <2>1 DEF Sent
  <2> QED
    BY <1>5, <2>1, <2>2 DEF Before
<1>6. \A p \in Ahead : p.kind \in {"header", "block"} => p.op = "SendObject"
  BY <1>2 DEF Shaped
<1>7. ASSUME Attended, NEW p \in Ahead PROVE p.op = "SendObject"
  <2>1. p.tid \in 1..asked.tid /\ p.tid >= request.tid /\ request.tid = asked.tid
    BY <1>2, <1>7 DEF Attended, Shaped, TransferInv, RequestInv
  <2>2. p.tid = request.tid
    BY <1>3, <2>1
  <2> QED
    BY <1>3, <2>2 DEF TransferInv, RequestInv
<1>8. ReadOf(h, mSendObjectHandle, Ahead, Ahead')
  BY <1>1, <1>4, <1>5, <1>6 DEF ReadOf
<1> QED
  BY <1>7, <1>8 DEF h

(* A piece of data is no data, scrap, or the next block of the object. *)
LEMMA PieceRead ==
    ASSUME NEW h, NEW o \in Objects, NEW ahead, NEW rest, ReadOf(h, o, ahead, rest),
           NEW kind \in {"header", "block"}, NEW data \in DataOf(h, kind)
    PROVE  \/ data = <<>>
           \/ data = <<Scrap>>
           \/ /\ h.kind = kind /\ h.op = "SendObject" /\ IsDataOf(h, o)
              /\ Object[o].blocks > 0 /\ data = <<<<o, h.block>>>>
<1>1. CASE h.kind = kind
  <2>1. h.op = "SendObject" /\ IsDataOf(h, o)
    BY <1>1 DEF ReadOf
  <2>2. data = Expected(h) /\ h.obj = o
    BY <1>1, <2>1 DEF DataOf, IsDataOf
  <2>3. Object[o].blocks \in Nat
    BY ObjectAssumption
  <2> QED
    BY <1>1, <2>1, <2>2, <2>3 DEF Expected
<1>2. CASE h.kind # kind
  BY <1>2 DEF DataOf
<1> QED
  BY <1>1, <1>2

LEMMA PieceIsOwn ==
    ASSUME NEW h, NEW o \in Objects, NEW ahead, NEW rest, ReadOf(h, o, ahead, rest),
           NEW kind \in {"header", "block"}, NEW data \in DataOf(h, kind),
           NEW content \in Seq(Data), OwnContent(content, o, ahead)
    PROVE  OwnContent(content, o, rest) /\ OwnContent(content \o data, o, rest)
<1>1. OwnContent(content, o, rest)
  BY DEF OwnContent, ReadOf
<1>2. CASE data = <<>>
  BY <1>1, <1>2
<1> DEFINE last == Len(content) + 1
           longer == content \o data
<1>3. ASSUME NEW d, data = <<d>>
      PROVE  /\ DOMAIN longer = 1..last /\ longer[last] = d /\ last \in Nat
             /\ \A n \in DOMAIN content : longer[n] = content[n]
             /\ \A n \in DOMAIN longer : n = last \/ n \in DOMAIN content
             /\ \A n \in DOMAIN content : n < last
  BY <1>3
<1>4. CASE data = <<Scrap>>
  <2>1. /\ longer[last] = Scrap
        /\ \A n \in DOMAIN content : longer[n] = content[n]
        /\ \A n \in DOMAIN longer : n = last \/ n \in DOMAIN content
    BY <1>3, <1>4
  <2> HIDE DEF longer, last
  <2>2. OwnContent(longer, o, rest)
    BY <1>1, <2>1 DEF OwnContent
  <2> QED
    BY <1>1, <2>2 DEF longer
<1>5. CASE h.op = "SendObject" /\ IsDataOf(h, o) /\ Object[o].blocks > 0
           /\ data = <<<<o, h.block>>>>
  <2> DEFINE d == <<o, h.block>>
  <2>1. /\ longer[last] = d /\ last \in Nat
        /\ \A n \in DOMAIN content : longer[n] = content[n]
        /\ \A n \in DOMAIN longer : n = last \/ n \in DOMAIN content
        /\ \A n \in DOMAIN content : n < last
    BY <1>3, <1>5
  <2>2. h.block \in 1..Object[o].blocks /\ Rank(h) = h.block /\ Object[o].blocks \in Nat
    BY <1>5, ObjectAssumption DEF IsDataOf, LastBlock
  <2>3. d # Scrap /\ d[2] = h.block /\ d \in {<<o, k>> : k \in 1..Object[o].blocks}
    BY <2>2, ObjectAssumption
  <2>4. \A n \in DOMAIN content : content[n] # Scrap => content[n][2] < h.block
    BY <1>5, <2>2 DEF OwnContent, ReadOf
  <2>5. \A p \in rest : p.op = "SendObject" => Rank(p) > h.block
    BY <2>2 DEF ReadOf
  <2>6. DOMAIN content \subseteq Nat
    OBVIOUS
  <2> HIDE DEF d, longer, last
  <2>7. \A n \in DOMAIN longer :
           longer[n] \in {Scrap} \cup {<<o, k>> : k \in 1..Object[o].blocks}
    BY <1>1, <2>1, <2>3 DEF OwnContent
  <2>8. ASSUME NEW m \in DOMAIN longer, NEW n \in DOMAIN longer, m < n,
               Scrap \notin {longer[m], longer[n]}
        PROVE  longer[m][2] < longer[n][2]
    <3>1. CASE n = last
      <4>1. m \in DOMAIN content
        BY <2>1, <2>8, <3>1
      <4> QED
        BY <2>1, <2>3, <2>4, <2>8, <3>1, <4>1
    <3>2. CASE n \in DOMAIN content
      <4>1. m \in DOMAIN content
        BY <2>1, <2>6, <2>8, <3>2
      <4> QED
        BY <1>1, <2>1, <2>8, <3>2, <4>1 DEF OwnContent
    <3> QED
      BY <2>1, <3>1, <3>2
  <2>9. ASSUME NEW n \in DOMAIN longer, longer[n] # Scrap,
               NEW p \in rest, p.op = "SendObject"
        PROVE  Rank(p) > longer[n][2]
    <3>1. CASE n = last
      BY <2>1, <2>3, <2>5, <2>9, <3>1
    <3>2. CASE n \in DOMAIN content
      BY <1>1, <2>1, <2>9, <3>2 DEF OwnContent
    <3> QED
      BY <2>1, <3>1, <3>2
  <2>10. OwnContent(longer, o, rest)
    BY <2>7, <2>8, <2>9 DEF OwnContent
  <2> QED
    BY <1>1, <2>10 DEF longer
<1> QED
  BY <1>2, <1>4, <1>5, PieceRead

LEMMA PieceIsPlaced ==
    ASSUME NEW h, NEW o \in Objects, NEW ahead, NEW rest, ReadOf(h, o, ahead, rest),
           \A p \in ahead : p.op = "SendObject",
           NEW kind \in {"header", "block"}, NEW data \in DataOf(h, kind),
           NEW content \in Seq(Data),
           InPlace(content, o, ahead) \/ TooFew(content, o, ahead),
           kind = "header" => content = <<>>, kind = "block" => Rank(h) > 1
    PROVE  /\ InPlace(content, o, rest) \/ TooFew(content, o, rest)
           /\ InPlace(content \o data, o, rest) \/ TooFew(content \o data, o, rest)
<1> SUFFICES ASSUME NEW after, after = content \/ after = content \o data
             PROVE  InPlace(after, o, rest) \/ TooFew(after, o, rest)
  BY ZenonT(30)
<1>1. /\ IsDataOf(h, o) /\ h \in ahead /\ rest \subseteq ahead
      /\ \A p \in rest : Rank(h) < Rank(p)
      /\ \A p \in rest : Rank(p) \in Nat
      /\ Rank(h) = h.block /\ h.block \in 1..LastBlock(o) /\ Object[o].blocks \in Nat
      /\ Len(content) \in Nat
  <2>1. Object[o].blocks \in Nat /\ Len(content) \in Nat
    BY ObjectAssumption
  <2>2. LastBlock(o) \in Nat
    BY <2>1 DEF LastBlock
  <2>3. \A p \in ahead : IsDataOf(p, o)
    BY DEF ReadOf
  <2>4. \A p \in ahead : Rank(p) = p.block /\ p.block \in 1..LastBlock(o)
    BY <2>3 DEF IsDataOf
  <2>5. h \in ahead /\ rest \subseteq ahead /\ \A p \in rest : Rank(h) < Rank(p)
    BY DEF ReadOf
  <2> QED
    BY <2>1, <2>2, <2>3, <2>4, <2>5
<1>2. CASE Object[o].blocks = 0
  <2>1. h.block = 1 /\ h.kind = "header" /\ kind = "header"
    BY <1>1, <1>2 DEF LastBlock, IsDataOf
  <2>2. data = <<>>
    BY <1>1, <1>2, <2>1 DEF DataOf, Expected, IsDataOf
  <2>3. after = content
    BY <2>2
  <2> QED
    BY <1>1, <1>2, <2>3 DEF InPlace, TooFew
<1>3. CASE Object[o].blocks > 0
  <2>1. h.block \in 1..Object[o].blocks
    BY <1>1, <1>3 DEF LastBlock
  <2>2. Len(data) \in {0, 1} /\ data \in Seq(Data) /\ Len(after) \in Nat
        /\ Len(after) <= Len(content) + 1
    <3>1. data = <<>> \/ data = <<Scrap>> \/ data = <<<<o, h.block>>>>
      BY PieceRead
    <3>2. Scrap \in Data /\ <<o, h.block>> \in Data
      BY <1>1 DEF Data
    <3>3. CASE data = <<>>
      BY <1>1, <3>3
    <3>4. ASSUME NEW d \in Data, data = <<d>>
          PROVE  Len(data) \in {0, 1} /\ data \in Seq(Data) /\ Len(after) \in Nat
                 /\ Len(after) <= Len(content) + 1
      BY <1>1, <3>4
    <3> QED
      BY <3>1, <3>2, <3>3, <3>4
  <2>3. Len(after) < h.block => TooFew(after, o, rest)
    BY <1>1, <2>1 DEF TooFew
  <2>4. CASE TooFew(content, o, ahead)
    <3>1. PICK k \in 1..Object[o].blocks : Len(content) < k /\ \A p \in ahead : Rank(p) > k
      BY <2>4 DEF TooFew
    <3>2. Len(after) < h.block
      BY <1>1, <2>2, <3>1
    <3> QED
      BY <2>3, <3>2
  <2>5. CASE InPlace(content, o, ahead)
    <3>1. Len(content) < h.block
      BY <1>1, <2>5 DEF InPlace
    <3>2. CASE Len(after) < h.block
      BY <2>3, <3>2
    <3>3. CASE Len(after) >= h.block
      <4>1. Len(after) = h.block /\ h.block = Len(content) + 1 /\ after # content
        BY <1>1, <2>1, <2>2, <3>1, <3>3
      <4>2. h.kind = kind
        <5>1. CASE kind = "header"
          <6>1. content = <<>> /\ Len(content) = 0
            BY <5>1
          <6> QED
            BY <1>1, <4>1, <5>1, <6>1 DEF IsDataOf
        <5>2. CASE kind = "block"
          BY <1>1, <5>2 DEF IsDataOf
        <5> QED
          BY <5>1, <5>2
      <4>3. data = <<<<o, h.block>>>> /\ after = content \o data
        BY <1>1, <1>3, <4>1, <4>2 DEF DataOf, Expected, IsDataOf
      <4>4. \A n \in 1..Len(after) : after[n] = <<o, n>>
        <5>1. after[Len(content) + 1] = <<o, h.block>>
              /\ \A n \in 1..Len(content) : after[n] = content[n]
          BY <4>3
        <5> QED
          BY <1>1, <2>5, <4>1, <5>1 DEF InPlace
      <4> QED
        BY <1>1, <4>1, <4>4 DEF InPlace
    <3> QED
      BY <1>1, <2>1, <2>2, <3>2, <3>3
  <2> QED
    BY <2>4, <2>5
<1> QED
  BY <1>1, <1>2, <1>3

-----------------------------------------------------------------------------
(* The reception of an object. *)

(* What a read, whatever it brings, leaves as it was. *)
LEMMA ReceptionBasics ==
    ASSUME IInv, TransferInv, pc \in {"header", "receive"}, pc' \in {"receive", "finish"},
           UNCHANGED <<hostVars, requestVars, mSendObjectHandle, files, installed>>,
           (wire' = Tail(wire) /\ wire # <<>>) \/ Silence
    PROVE  /\ Ahead' \subseteq Ahead /\ StreamInv' /\ RequestInv' /\ SendingInv' /\ InfoInv'
           /\ AnswerInv' /\ StoredIsOwn' /\ ConfirmedMeansStored'
           /\ Size' = Size /\ SizeKnown' = SizeKnown /\ Attended' = Attended
           /\ request'.op = "SendObject"
<1>1. Ahead' \subseteq Ahead /\ StreamInv'
  BY ServerShrinks
<1>2. UNCHANGED <<hostPc, asked, left, offered, confirmed, request, described>>
  BY DEF hostVars, requestVars
<1>3. offered = NoObject /\ request.op = "SendObject"
  BY DEF TransferInv, SendingInv, LocalsInv
<1>4. RequestInv' /\ SendingInv' /\ InfoInv'
  BY <1>1, <1>2, <1>3 DEF TransferInv, RequestInv, SendingInv, InfoInv
<1>5. AnswerInv'
  BY DEF AnswerInv
<1>6. StoredIsOwn' /\ ConfirmedMeansStored'
  BY <1>2 DEF TransferInv, StoredIsOwn, ConfirmedMeansStored
<1>7. Size' = Size /\ SizeKnown' = SizeKnown /\ Attended' = Attended
  BY <1>2 DEF Size, SizeKnown, Attended
<1> QED
  BY <1>1, <1>2, <1>3, <1>4, <1>5, <1>6, <1>7

LEMMA FailureKeepsTransfer ==
    ASSUME IInv, TransferInv, pc \in {"header", "receive"},
           UNCHANGED <<hostVars, requestVars, mSendObjectHandle, mSendObjectSink, receiveVars,
                       files, installed>>,
           (wire' = Tail(wire) /\ wire # <<>>) \/ Silence,
           NEW code, NEW reason, TransferFails(code, reason), code # "OK", reason # "sink"
    PROVE  TransferInv'
<1>1. pc' = "finish" /\ result' # "OK" /\ detail' # "sink"
  BY DEF TransferFails
<1>2. /\ StreamInv' /\ RequestInv' /\ SendingInv' /\ InfoInv'
      /\ AnswerInv' /\ StoredIsOwn' /\ ConfirmedMeansStored'
      /\ Size' = Size /\ SizeKnown' = SizeKnown /\ request'.op = "SendObject"
  BY <1>1, ReceptionBasics
<1>3. transferred' = transferred /\ sink_rejected' = sink_rejected
  BY DEF receiveVars
<1>4. LocalsInv'
  <2>1. transferred' \in Nat
    BY <1>3 DEF TransferInv, LocalsInv
  <2>2. sink_rejected' \in BOOLEAN
    BY <1>3 DEF TransferInv, LocalsInv
  <2> QED
    BY <1>1, <1>2, <2>1, <2>2 DEF LocalsInv
<1>5. GotInv' /\ PlaceInv'
  BY <1>1 DEF GotInv, ReadSoFar, PlaceInv
<1>6. SinkInv'
  BY <1>1, <1>2 DEF TransferInv, SinkInv, Staged, Sink
<1>7. RejectionInv'
  <2>1. CASE pc = "header"
    <3>1. ~sink_rejected'
      BY <1>3, <2>1 DEF TransferInv, LocalsInv
    <3> QED
      BY <1>1, <3>1 DEF RejectionInv
  <2>2. CASE pc = "receive"
    <3>1. sink_rejected => ~Staged' /\ Sink'.failed
      BY <2>2 DEF TransferInv, RejectionInv, Staged, Sink
    <3>2. SizeKnown => transferred < Size
      BY <2>2 DEF TransferInv, RejectionInv
    <3>3. transferred \in Nat /\ Size \in Nat
      BY <2>2, ObjectAssumption DEF TransferInv, LocalsInv, IInv, HandleInv, ReadInv, WireInv, Size
    <3> QED
      BY <1>1, <1>2, <1>3, <3>1, <3>2, <3>3 DEF RejectionInv
  <2> QED
    BY <2>1, <2>2
<1> QED
  BY <1>2, <1>4, <1>5, <1>6, <1>7 DEF TransferInv

(* A read that brings data, which the file or the sink takes or refuses. *)
Held == IF pc = "header" THEN <<>> ELSE Got
Awaited == IF pc = "header" THEN "header" ELSE "block"

LEMMA DataKeepsTransfer ==
    ASSUME IInv, TransferInv, pc \in {"header", "receive"}, pc' \in {"receive", "finish"},
           UNCHANGED <<hostVars, requestVars, mSendObjectHandle, files, installed>>,
           wire # <<>>, wire' = Tail(wire), Held \in Seq(Data),
           NEW data \in DataOf(Head(wire), Awaited),
           transferred' = transferred + Len(data), Got' \in {Held, Held \o data},
           Staged' = Staged, ~Staged /\ SizeKnown => Sink'.known,
           sink_rejected' \in BOOLEAN, sink_rejected' => ~Staged' /\ Sink'.failed,
           pc' = "receive" =>
               result' = "OK" /\ detail' = "done" /\ (SizeKnown => transferred' < Size),
           pc' = "finish" => transferred' >= Size /\ (result' = "OK" \/ detail' = "sink")
    PROVE  TransferInv'
<1> DEFINE o == mSendObjectHandle
           h == Head(wire)
<1>1. /\ Ahead' \subseteq Ahead /\ StreamInv' /\ RequestInv' /\ SendingInv' /\ InfoInv'
      /\ AnswerInv' /\ StoredIsOwn' /\ ConfirmedMeansStored'
      /\ Size' = Size /\ SizeKnown' = SizeKnown /\ Attended' = Attended
      /\ request'.op = "SendObject"
  BY ReceptionBasics
<1>2. /\ ReadOf(h, o, Ahead, Ahead')
      /\ Attended => \A p \in Ahead : p.op = "SendObject"
  BY TransferReads
<1>3. /\ o \in Objects /\ Object[o].blocks \in Nat /\ Size = Object[o].blocks
      /\ transferred \in Nat /\ files' = files /\ mSendObjectHandle' = o
  BY ObjectAssumption DEF IInv, HandleInv, ReadInv, WireInv, TransferInv, LocalsInv, Size
<1> HIDE DEF o, h
<1>4. Awaited \in {"header", "block"} /\ data \in DataOf(h, Awaited)
  BY DEF Awaited, h
<1>5. Len(data) \in {0, 1}
  <2>1. data = <<>> \/ data = <<Scrap>> \/ data = <<<<o, h.block>>>>
    BY <1>2, <1>3, <1>4, PieceRead
  <2>2. \A d : Len(<<d>>) = 1
    OBVIOUS
  <2> QED
    BY <2>1, <2>2
<1>6. \A p \in Ahead : p.op = "SendObject" =>
         Rank(p) \in Nat /\ Rank(p) >= 1 /\ Rank(p) > transferred
               /\ (pc = "receive" => Rank(p) > 1)
  <2> SUFFICES ASSUME NEW p \in Ahead, p.op = "SendObject"
               PROVE  Rank(p) \in Nat /\ Rank(p) >= 1 /\ Rank(p) > transferred
                      /\ (pc = "receive" => Rank(p) > 1)
    OBVIOUS
  <2>1. IsDataOf(p, o)
    BY <1>2 DEF ReadOf
  <2>2. LastBlock(o) \in Nat
    BY <1>3 DEF LastBlock
  <2>3. Rank(p) \in Nat /\ Rank(p) >= 1
    BY <2>1, <2>2 DEF IsDataOf
  <2>4. CASE pc = "header"
    BY <2>3, <2>4 DEF TransferInv, LocalsInv
  <2>5. CASE pc = "receive"
    BY <2>3, <2>5 DEF TransferInv, GotInv, ReadSoFar
  <2> QED
    BY <2>3, <2>4, <2>5
<1>7. transferred' \in Nat /\ transferred' <= transferred + 1
  <2>1. CASE Len(data) = 0
    BY <1>3, <2>1
  <2>2. CASE Len(data) = 1
    BY <1>3, <2>2
  <2> QED
    BY <1>5, <2>1, <2>2
<1>8. LocalsInv'
  <2>1. sink_rejected' \in BOOLEAN
    OBVIOUS
  <2> QED
    BY <1>1, <1>7, <2>1 DEF LocalsInv
<1>9. SinkInv'
  BY <1>1, <1>3 DEF TransferInv, SinkInv, o
<1>10. OwnContent(Held, o, Ahead) /\ (Attended => InPlace(Held, o, Ahead) \/ TooFew(Held, o, Ahead))
  <2>1. CASE pc = "header"
    <3>1. Held = <<>>
      BY <2>1 DEF Held
    <3>2. OwnContent(<<>>, o, Ahead)
      BY DEF OwnContent
    <3>3. Attended => InPlace(<<>>, o, Ahead)
      BY <1>2, <1>6 DEF InPlace
    <3> QED
      BY <3>1, <3>2, <3>3
  <2>2. CASE pc = "receive"
    <3>1. Held = Got /\ result = "OK"
      BY <2>2 DEF Held, TransferInv, LocalsInv
    <3> QED
      BY <2>2, <3>1 DEF TransferInv, GotInv, PlaceInv, o
  <2> QED
    BY <2>1, <2>2
<1>11. OwnContent(Got', o, Ahead')
  <2>1. OwnContent(Held, o, Ahead') /\ OwnContent(Held \o data, o, Ahead')
    BY <1>2, <1>3, <1>4, <1>10, PieceIsOwn
  <2> QED
    BY <2>1
<1>12. Attended => InPlace(Got', o, Ahead') \/ TooFew(Got', o, Ahead')
  <2> SUFFICES ASSUME Attended PROVE InPlace(Got', o, Ahead') \/ TooFew(Got', o, Ahead')
    OBVIOUS
  <2>1. \A p \in Ahead : p.op = "SendObject"
    BY <1>2
  <2>2. h \in Ahead
    BY <1>2 DEF ReadOf
  <2>3. Awaited = "header" => Held = <<>>
    BY DEF Awaited, Held
  <2>4. Awaited = "block" => Rank(h) > 1
    BY <1>6, <2>1, <2>2 DEF Awaited
  <2>5. InPlace(Held, o, Ahead) \/ TooFew(Held, o, Ahead)
    BY <1>10
  <2>6. ReadOf(h, o, Ahead, Ahead') /\ o \in Objects /\ Held \in Seq(Data)
    BY <1>2, <1>3
  <2>7. /\ InPlace(Held, o, Ahead') \/ TooFew(Held, o, Ahead')
        /\ InPlace(Held \o data, o, Ahead') \/ TooFew(Held \o data, o, Ahead')
    BY <1>4, <2>1, <2>3, <2>4, <2>5, <2>6, PieceIsPlaced
  <2> QED
    BY <2>7
<1>13. GotInv'
  <2>1. \A p \in Ahead' : p.op = "SendObject" => Rank(p) > 1 /\ Rank(p) > transferred'
    <3> SUFFICES ASSUME NEW p \in Ahead', p.op = "SendObject"
                 PROVE  Rank(p) > 1 /\ Rank(p) > transferred'
      OBVIOUS
    <3>1. h.op = "SendObject" /\ Rank(h) < Rank(p) /\ h \in Ahead /\ p \in Ahead
      BY <1>1, <1>2 DEF ReadOf
    <3>2. Rank(h) \in Nat /\ Rank(p) \in Nat /\ Rank(h) >= 1 /\ Rank(h) > transferred
      BY <1>6, <3>1
    <3> QED
      BY <1>3, <1>7, <3>1, <3>2
  <2>2. pc' = "finish" => transferred' >= Size'
    BY <1>1
  <2> QED
    BY <1>3, <1>11, <2>1, <2>2 DEF GotInv, ReadSoFar
<1>14. PlaceInv'
  BY <1>1, <1>3, <1>12 DEF PlaceInv
<1>15. RejectionInv'
  BY <1>1 DEF RejectionInv
<1> QED
  BY <1>1, <1>8, <1>9, <1>13, <1>14, <1>15 DEF TransferInv
(* The end of a loop of receive_file or receive_sink. *)
LEMMA ContinueEnds ==
    ASSUME IInv, TransferInv, pc \in {"header", "receive"}, transferred' \in Nat, Continue
    PROVE  /\ pc' \in {"receive", "finish"}
           /\ pc' = "receive" =>
                 result' = "OK" /\ detail' = "done" /\ (SizeKnown => transferred' < Size)
           /\ pc' = "finish" => transferred' >= Size /\ (result' = "OK" \/ detail' = "sink")
<1>1. result = "OK" /\ detail = "done"
  BY DEF TransferInv, LocalsInv
<1>2. mSendObjectHandle \in Objects /\ Size \in Nat
  BY ObjectAssumption DEF IInv, HandleInv, ReadInv, WireInv, Size
<1>3. ~SizeKnown => FinalSize = Size
  BY <1>2, ObjectAssumption DEF IInv, HandleInv, SizeKnown, FinalSize, Size
<1>4. CASE MoreToReceive(mSendObjectSink', transferred')
  BY <1>1, <1>4 DEF Continue, MoreToReceive
<1>5. CASE ~MoreToReceive(mSendObjectSink', transferred')
  <2>1. transferred' >= Size
    BY <1>2, <1>3, <1>5 DEF MoreToReceive
  <2>2. pc' = "finish" /\ (result' = "OK" \/ detail' = "sink")
    BY <1>1, <1>5 DEF Continue
  <2> QED
    BY <2>1, <2>2
<1> QED
  BY <1>4, <1>5

(* What the sink makes of the data. *)
LEMMA SinkData ==
    ASSUME IInv, TransferInv, ~Staged, pc \in {"header", "receive"}, NEW data \in Seq(Data),
           \/ SinkTakes(data)
           \/ SinkRefuses(data)
           \/ sink_rejected /\ pc = "receive" /\ UNCHANGED <<mSendObjectSink, sink_rejected>>
    PROVE  /\ Staged' = Staged /\ (SizeKnown => Sink'.known)
           /\ Held \in Seq(Data) /\ Got' \in {Held, Held \o data}
           /\ sink_rejected' \in BOOLEAN /\ (sink_rejected' => ~Staged' /\ Sink'.failed)
<1>1. Sink \in [for: objects \cup {NoObject}, got: Seq(Data), known: BOOLEAN,
                failed: BOOLEAN, ended: BOOLEAN]
  BY DEF IInv, ReadInv, Sink
<1>2. ~Staged'
  BY SinkStays
<1>3. mSendObjectHandle # NoObject
  BY DEF IInv, HandleInv
<1>4. Held = Sink.got
  BY <1>3 DEF Held, Got, TransferInv, SinkInv
<1>5. Got' = Sink'.got
  BY <1>2 DEF Got
<1>6. SizeKnown => Sink.known
  BY <1>3 DEF TransferInv, SinkInv
<1>7. /\ SizeKnown => Sink'.known
      /\ Sink'.got \in {Sink.got, Sink.got \o data}
      /\ sink_rejected' \in BOOLEAN /\ (sink_rejected' => Sink'.failed)
  <2>1. CASE SinkTakes(data)
    <3>1. PICK known \in {Sink.known, TRUE} :
             Sink' = [Sink EXCEPT !.got = @ \o data,
                                  !.known = IF data = <<>> THEN Sink.known ELSE known]
      BY <2>1 DEF SinkTakes, Sink
    <3>2. Sink'.got = Sink.got \o data
      BY <1>1, <3>1
    <3>3. Sink.known => Sink'.known
      BY <1>1, <3>1
    <3>4. sink_rejected' = FALSE
      BY <2>1 DEF SinkTakes
    <3> QED
      BY <1>6, <3>2, <3>3, <3>4
  <2>2. CASE SinkRefuses(data)
    <3>1. Sink' = [Sink EXCEPT !.failed = TRUE] /\ sink_rejected' = TRUE
      BY <2>2 DEF SinkRefuses, Sink
    <3>2. Sink'.got = Sink.got /\ Sink'.known = Sink.known /\ Sink'.failed = TRUE
      BY <1>1, <3>1
    <3>3. sink_rejected' \in BOOLEAN
      BY <3>1
    <3> QED
      BY <1>6, <3>2, <3>3
  <2>3. CASE sink_rejected /\ pc = "receive" /\ UNCHANGED <<mSendObjectSink, sink_rejected>>
    <3>1. Sink' = Sink /\ sink_rejected' = sink_rejected
      BY <2>3 DEF Sink
    <3>2. sink_rejected' \in BOOLEAN
      BY <3>1 DEF TransferInv, LocalsInv
    <3>3. Sink.failed
      BY <2>3 DEF TransferInv, RejectionInv
    <3> QED
      BY <1>6, <3>1, <3>2, <3>3
  <2> QED
    BY <2>1, <2>2, <2>3
<1>8. Held \in Seq(Data)
  BY <1>1, <1>4
<1>9. Staged' = Staged
  BY <1>2 DEF Staged
<1> QED
  BY <1>2, <1>4, <1>5, <1>7, <1>8, <1>9

LEMMA HeaderKeepsTransfer == IInv /\ TransferInv /\ ReadHeader => TransferInv'
<1> SUFFICES ASSUME IInv, TransferInv, ReadHeader PROVE TransferInv'
  OBVIOUS
<1>1. /\ pc = "header" /\ wire # <<>> /\ wire' = Tail(wire)
      /\ UNCHANGED <<hostVars, requestVars, mSendObjectHandle, files, installed>>
  BY DEF ReadHeader
<1>2. transferred = 0 /\ ~sink_rejected /\ sink_rejected \in BOOLEAN
      /\ result = "OK" /\ detail = "done"
  BY <1>1 DEF TransferInv, LocalsInv
<1>3. PICK data \in DataOf(Head(wire), "header") :
          \/ /\ \E code, reason : TransferFails(code, reason) /\ code # "OK" /\ reason # "sink"
             /\ UNCHANGED <<mSendObjectSink, receiveVars>>
          \/ /\ Staged /\ temp' = data
             /\ transferred' = Len(data)
             /\ UNCHANGED <<mSendObjectSink, sink_rejected>>
             /\ Continue
          \/ /\ ~Staged
             /\ SinkTakes(data) \/ SinkRefuses(data)
             /\ transferred' = Len(data)
             /\ IF SizeKnown /\ transferred' = Size
                THEN pc' = "finish" /\ UNCHANGED <<result, detail>>
                ELSE Continue
  BY DEF ReadHeader
<1>4. data \in Seq(Data) /\ Awaited = "header"
  BY <1>1, ReadsData DEF IInv, Awaited
<1>5. Len(data) \in Nat
  BY <1>4
<1>6. ASSUME NEW code, NEW reason, TransferFails(code, reason), code # "OK", reason # "sink",
             UNCHANGED <<mSendObjectSink, receiveVars>>
      PROVE  TransferInv'
  BY <1>1, <1>6, FailureKeepsTransfer
<1>7. CASE /\ Staged /\ temp' = data
           /\ transferred' = Len(data)
           /\ UNCHANGED <<mSendObjectSink, sink_rejected>>
           /\ Continue
  <2>1. /\ pc' \in {"receive", "finish"}
        /\ pc' = "receive" =>
              result' = "OK" /\ detail' = "done" /\ (SizeKnown => transferred' < Size)
        /\ pc' = "finish" => transferred' >= Size /\ (result' = "OK" \/ detail' = "sink")
    BY <1>1, <1>5, <1>7, ContinueEnds
  <2>2. Held = <<>> /\ Held \in Seq(Data)
    BY <1>1 DEF Held
  <2>3. Staged /\ Staged' = Staged /\ Got' = data
    BY <1>7 DEF Staged, Sink, Got
  <2>4. Held \o data = data
    BY <1>4, <2>2
  <2>5. transferred' = transferred + Len(data)
    BY <1>2, <1>5, <1>7
  <2>6. sink_rejected' \in BOOLEAN /\ ~sink_rejected'
    BY <1>2, <1>7
  <2> QED
    BY <1>1, <1>4, <2>1, <2>2, <2>3, <2>4, <2>5, <2>6, DataKeepsTransfer
<1>8. CASE /\ ~Staged
           /\ SinkTakes(data) \/ SinkRefuses(data)
           /\ transferred' = Len(data)
           /\ IF SizeKnown /\ transferred' = Size
              THEN pc' = "finish" /\ UNCHANGED <<result, detail>>
              ELSE Continue
  <2>1. /\ Staged' = Staged /\ (SizeKnown => Sink'.known)
        /\ Held \in Seq(Data) /\ Got' \in {Held, Held \o data}
        /\ sink_rejected' \in BOOLEAN /\ (sink_rejected' => ~Staged' /\ Sink'.failed)
    BY <1>1, <1>4, <1>8, SinkData
  <2>2. /\ pc' \in {"receive", "finish"}
        /\ pc' = "receive" =>
              result' = "OK" /\ detail' = "done" /\ (SizeKnown => transferred' < Size)
        /\ pc' = "finish" => transferred' >= Size /\ (result' = "OK" \/ detail' = "sink")
    <3>1. CASE SizeKnown /\ transferred' = Size
      BY <1>2, <1>5, <1>8, <3>1
    <3>2. CASE ~(SizeKnown /\ transferred' = Size)
      BY <1>1, <1>5, <1>8, <3>2, ContinueEnds
    <3> QED
      BY <3>1, <3>2
  <2>3. transferred' = transferred + Len(data)
    BY <1>2, <1>5, <1>8
  <2> QED
    BY <1>1, <1>4, <2>1, <2>2, <2>3, DataKeepsTransfer
<1> QED
  BY <1>3, <1>6, <1>7, <1>8

LEMMA FileKeepsTransfer == IInv /\ TransferInv /\ ReceiveToFile => TransferInv'
<1> SUFFICES ASSUME IInv, TransferInv, ReceiveToFile PROVE TransferInv'
  OBVIOUS
<1>1. /\ pc = "receive" /\ wire # <<>> /\ wire' = Tail(wire) /\ Staged
      /\ UNCHANGED <<hostVars, requestVars, mSendObjectHandle, files, installed>>
  BY DEF ReceiveToFile
<1>2. PICK data \in DataOf(Head(wire), "block") :
          \/ /\ temp' = temp \o data
             /\ transferred' = transferred + Len(data)
             /\ UNCHANGED <<mSendObjectSink, sink_rejected>>
             /\ Continue
          \/ /\ TransferFails("GeneralError", "reception")
             /\ UNCHANGED <<mSendObjectSink, receiveVars>>
  BY DEF ReceiveToFile
<1>3. CASE TransferFails("GeneralError", "reception") /\ UNCHANGED <<mSendObjectSink, receiveVars>>
  BY <1>1, <1>3, FailureKeepsTransfer
<1>4. CASE /\ temp' = temp \o data
           /\ transferred' = transferred + Len(data)
           /\ UNCHANGED <<mSendObjectSink, sink_rejected>>
           /\ Continue
  <2>1. data \in Seq(Data) /\ Awaited = "block"
    BY <1>1, ReadsData DEF IInv, Awaited
  <2>2. Len(data) \in Nat /\ transferred \in Nat
    BY <2>1 DEF TransferInv, LocalsInv
  <2>3. transferred' \in Nat
    BY <1>4, <2>2
  <2>4. /\ pc' \in {"receive", "finish"}
        /\ pc' = "receive" =>
              result' = "OK" /\ detail' = "done" /\ (SizeKnown => transferred' < Size)
        /\ pc' = "finish" => transferred' >= Size /\ (result' = "OK" \/ detail' = "sink")
    BY <1>1, <1>4, <2>3, ContinueEnds
  <2>5. result = "OK"
    BY <1>1 DEF TransferInv, LocalsInv
  <2>6. Held = temp /\ Held \in Seq(Data)
    BY <1>1, <2>5 DEF Held, Got, IInv, ReadInv
  <2>7. Staged' = Staged /\ Got' = Held \o data
    BY <1>1, <1>4, <2>6 DEF Staged, Sink, Got
  <2>8. ~sink_rejected
    BY <1>1 DEF TransferInv, RejectionInv
  <2>9. sink_rejected \in BOOLEAN
    BY DEF TransferInv, LocalsInv
  <2>10. sink_rejected' \in BOOLEAN /\ ~sink_rejected'
    BY <1>4, <2>8, <2>9
  <2> QED
    BY <1>1, <1>4, <2>1, <2>4, <2>6, <2>7, <2>10, DataKeepsTransfer
<1> QED
  BY <1>2, <1>3, <1>4

LEMMA SinkKeepsTransfer == IInv /\ TransferInv /\ ReceiveToSink => TransferInv'
<1> SUFFICES ASSUME IInv, TransferInv, ReceiveToSink PROVE TransferInv'
  OBVIOUS
<1>1. /\ pc = "receive" /\ wire # <<>> /\ wire' = Tail(wire) /\ ~Staged
      /\ UNCHANGED <<hostVars, requestVars, mSendObjectHandle, files, installed>>
  BY DEF ReceiveToSink, store
<1>2. PICK data \in DataOf(Head(wire), "block") :
          /\ \/ SinkTakes(data)
             \/ SinkRefuses(data)
             \/ sink_rejected /\ UNCHANGED <<mSendObjectSink, sink_rejected>>
          /\ transferred' = transferred + Len(data)
          /\ Continue
  BY DEF ReceiveToSink
<1>3. data \in Seq(Data) /\ Awaited = "block"
  BY <1>1, ReadsData DEF IInv, Awaited
<1>4. Len(data) \in Nat /\ transferred \in Nat
  BY <1>3 DEF TransferInv, LocalsInv
<1>5. transferred' \in Nat
  BY <1>2, <1>4
<1>6. /\ pc' \in {"receive", "finish"}
      /\ pc' = "receive" =>
            result' = "OK" /\ detail' = "done" /\ (SizeKnown => transferred' < Size)
      /\ pc' = "finish" => transferred' >= Size /\ (result' = "OK" \/ detail' = "sink")
  BY <1>1, <1>2, <1>5, ContinueEnds
<1>7. /\ Staged' = Staged /\ (SizeKnown => Sink'.known)
      /\ Held \in Seq(Data) /\ Got' \in {Held, Held \o data}
      /\ sink_rejected' \in BOOLEAN /\ (sink_rejected' => ~Staged' /\ Sink'.failed)
  BY <1>1, <1>2, <1>3, SinkData
<1> QED
  BY <1>1, <1>2, <1>3, <1>6, <1>7, DataKeepsTransfer

LEMMA ReceptionKeepsTransfer ==
    IInv /\ TransferInv /\ (ReadHeader \/ ReceiveToFile \/ ReceiveToSink \/ TransferTimesOut)
    => TransferInv'
<1>1. ASSUME IInv, TransferInv, TransferTimesOut PROVE TransferInv'
  <2>1. /\ pc \in {"header", "receive"} /\ Silence
        /\ UNCHANGED <<hostVars, requestVars, mSendObjectHandle, mSendObjectSink, receiveVars,
                       files, installed>>
    BY <1>1 DEF TransferTimesOut, sinkVars, store
  <2>2. PICK reason \in {"header", "reception"} : TransferFails("GeneralError", reason)
    BY <1>1 DEF TransferTimesOut
  <2> QED
    BY <1>1, <2>1, <2>2, FailureKeepsTransfer
<1> QED
  BY <1>1, HeaderKeepsTransfer, FileKeepsTransfer, SinkKeepsTransfer

-----------------------------------------------------------------------------
(* The ends of doSendObject. *)

LEMMA EndBasics ==
    ASSUME IInv, TransferInv, pc = "finish", NEW code, NEW reason, EndTransfer(code, reason),
           UNCHANGED <<hostVars, wire, requestVars, receiveVars>>
    PROVE  /\ StreamInv' /\ RequestInv' /\ SendingInv' /\ InfoInv' /\ LocalsInv' /\ SinkInv'
           /\ GotInv' /\ PlaceInv' /\ RejectionInv'
           /\ Ahead' \subseteq Ahead /\ result' = code /\ detail' = reason
           /\ UNCHANGED <<hostPc, asked, confirmed, request, transferred, sink_rejected>>
<1>1. pc' = "respond" /\ result' = code /\ detail' = reason /\ mSendObjectHandle' = NoObject
  BY DEF EndTransfer, Answer
<1>2. Ahead' \subseteq Ahead /\ StreamInv'
  BY ServerShrinks
<1>3. /\ UNCHANGED <<hostPc, asked, left, offered, confirmed, request, described>>
      /\ UNCHANGED <<transferred, sink_rejected>>
  BY DEF hostVars, requestVars, receiveVars
<1>4. offered = NoObject /\ request.op = "SendObject"
  BY DEF TransferInv, SendingInv, LocalsInv
<1>5. RequestInv' /\ SendingInv' /\ InfoInv'
  BY <1>1, <1>2, <1>3, <1>4 DEF TransferInv, RequestInv, SendingInv, InfoInv
<1>6. LocalsInv'
  <2>1. transferred' \in Nat
    BY <1>3 DEF TransferInv, LocalsInv
  <2>2. sink_rejected' \in BOOLEAN
    BY <1>3 DEF TransferInv, LocalsInv
  <2> QED
    BY <1>1, <2>1, <2>2 DEF LocalsInv
<1>7. SinkInv' /\ GotInv' /\ PlaceInv' /\ RejectionInv'
  BY <1>1 DEF SinkInv, GotInv, ReadSoFar, PlaceInv, RejectionInv
<1> QED
  BY <1>1, <1>2, <1>3, <1>5, <1>6, <1>7

(* What was read to its end has no packet left. *)
LEMMA ReadToItsEnd ==
    ASSUME IInv, TransferInv, pc = "finish", ReadSoFar, NEW p \in Ahead
    PROVE  p.tid # request.tid
<1> SUFFICES ASSUME p.tid = request.tid PROVE FALSE
  OBVIOUS
<1>1. mSendObjectHandle \in Objects /\ Size \in Nat /\ transferred \in Nat
      /\ mSendObjectHandle # NoObject
  BY ObjectAssumption
     DEF IInv, HandleInv, ReadInv, WireInv, Size, TransferInv, LocalsInv
<1>2. p.op = "SendObject" /\ p.kind # "request"
  BY DEF TransferInv, RequestInv, LocalsInv
<1>3. p.obj = mSendObjectHandle
  BY <1>1, <1>2 DEF TransferInv, SendingInv
<1>4. p \in Sent /\ Shaped(p)
  BY StreamIs DEF IInv, TransferInv, StreamInv
<1>5. p.kind \in {"header", "block"} /\ p.block \in 1..LastBlock(mSendObjectHandle)
  BY <1>2, <1>3, <1>4 DEF Shaped
<1>6. p.block > 1 /\ p.block > transferred /\ transferred >= Size
  BY <1>2, <1>5 DEF TransferInv, GotInv, Rank
<1> QED
  BY <1>1, <1>5, <1>6 DEF LastBlock, Size

(* The object that is received, and where it goes. *)
LEMMA Receiving ==
    ASSUME IInv, TransferInv, pc = "finish"
    PROVE  /\ mSendObjectHandle \in Objects /\ mSendObjectHandle # NoObject /\ Size \in Nat
           /\ Size = Object[mSendObjectHandle].blocks
           /\ request.op = "SendObject"
           /\ IF Object[mSendObjectHandle].storage = "inbox"
              THEN Staged ELSE ~Staged /\ Sink.for = mSendObjectHandle /\ FinalSize = Size
           /\ Attended => asked.obj = mSendObjectHandle
<1>1. mSendObjectHandle \in Objects /\ mSendObjectHandle # NoObject /\ Size \in Nat
  BY ObjectAssumption DEF IInv, HandleInv, ReadInv, WireInv, Size
<1>2. IF Object[mSendObjectHandle].storage = "inbox" THEN Staged ELSE Sink.for = mSendObjectHandle
  BY <1>1 DEF IInv, HandleInv
<1>3. Sink.for = mSendObjectHandle => ~Staged /\ FinalSize = Size
  BY <1>1 DEF Staged, NoSink, FinalSize, Size
<1>4. request.op = "SendObject"
  BY DEF TransferInv, LocalsInv
<1>5. Attended => asked.obj = mSendObjectHandle
  BY <1>1, <1>4 DEF TransferInv, SendingInv, Attended
<1> QED
  BY <1>1, <1>2, <1>3, <1>4, <1>5 DEF Size

(* What arrives with the announced number of blocks can be stored, and while *)
(* the host waits it is the object.                                          *)
LEMMA FullIsOwn ==
    ASSUME IInv, TransferInv, pc = "finish", result = "OK", Len(Got) = Size
    PROVE  /\ Got \in Seq(Data)
           /\ OwnContent(Got, mSendObjectHandle, Ahead)
           /\ Attended => Got = Whole(mSendObjectHandle)
<1> DEFINE o == mSendObjectHandle
<1>1. Size \in Nat /\ Size = Object[o].blocks
  BY Receiving
<1>2. Got \in Seq(Data)
  BY DEF IInv, ReadInv, Got, Sink
<1>3. OwnContent(Got, o, Ahead)
  BY DEF TransferInv, GotInv
<1>4. ASSUME Attended PROVE Got = Whole(o)
  <2>1. InPlace(Got, o, Ahead) \/ TooFew(Got, o, Ahead)
    BY <1>4 DEF TransferInv, PlaceInv
  <2>2. ~TooFew(Got, o, Ahead)
    BY <1>1 DEF TooFew
  <2>3. \A n \in 1..Len(Got) : Got[n] = <<o, n>>
    BY <2>1, <2>2 DEF InPlace
  <2>4. Got = [n \in 1..Len(Got) |-> Got[n]]
    BY <1>2
  <2> QED
    BY <1>1, <2>3, <2>4 DEF Whole
<1> QED
  BY <1>2, <1>3, <1>4

(* What is stored then is the object's own. *)
OwnWhole(content, o) ==
    /\ Len(content) = Object[o].blocks
    /\ \A n \in DOMAIN content :
          content[n] \in {Scrap} \cup {<<o, k>> : k \in 1..Object[o].blocks}
    /\ \A m, n \in DOMAIN content :
          m < n /\ Scrap \notin {content[m], content[n]} => content[m][2] < content[n][2]

LEMMA PublishKeepsTransfer == IInv /\ TransferInv /\ PublishFile => TransferInv'
<1> SUFFICES ASSUME IInv, TransferInv, PublishFile PROVE TransferInv'
  OBVIOUS
<1> DEFINE o == mSendObjectHandle
<1>1. /\ pc = "finish" /\ result = "OK" /\ Staged /\ Len(temp) = Size
      /\ files' = [files EXCEPT ![o] = temp] /\ installed' = installed
      /\ EndTransfer("OK", "done")
      /\ UNCHANGED <<hostVars, wire, requestVars, receiveVars>>
  BY DEF PublishFile
<1>2. /\ StreamInv' /\ RequestInv' /\ SendingInv' /\ InfoInv' /\ LocalsInv' /\ SinkInv'
      /\ GotInv' /\ PlaceInv' /\ RejectionInv'
      /\ Ahead' \subseteq Ahead /\ result' = "OK" /\ detail' = "done"
      /\ UNCHANGED <<hostPc, asked, confirmed, request, transferred, sink_rejected>>
  BY <1>1, EndBasics
<1>3. o \in Objects /\ o # NoObject /\ Object[o].storage = "inbox" /\ (Attended => asked.obj = o)
  BY <1>1, Receiving
<1>4. /\ temp \in Seq(Data) /\ OwnContent(temp, o, Ahead) /\ (Attended => temp = Whole(o))
      /\ Len(temp) = Object[o].blocks
  <2>1. Got = temp
    BY <1>1 DEF Got
  <2> QED
    BY <1>1, <2>1, FullIsOwn DEF Size
<1>5. files[o] = NoFile
  BY <1>1, <1>3 DEF TransferInv, SinkInv
<1>6. DOMAIN files = Objects
  BY DEF IInv, EntriesInv
<1>7. files'[o] = temp /\ \A q \in Objects : q # o => files'[q] = files[q]
  BY <1>1, <1>3, <1>6
<1>8. \A p \in Ahead' : p.tid # request'.tid
  <2>1. ReadSoFar
    BY <1>1 DEF ReadSoFar
  <2> QED
    BY <1>1, <1>2, <2>1, ReadToItsEnd
<1>9. ~sink_rejected
  BY <1>1 DEF TransferInv, RejectionInv
<1> HIDE DEF o
<1>10. AnswerInv'
  <2>1. Attended' => Attended
    BY <1>2 DEF Attended
  <2>2. Attended' => StoredWhole(asked.obj)'
    BY <1>2, <1>3, <1>4, <1>7, <2>1 DEF StoredWhole, Whole
  <2>3. ~sink_rejected'
    BY <1>2, <1>9
  <2> QED
    BY <1>8, <2>2, <2>3 DEF AnswerInv
<1>11. StoredIsOwn'
  <2>1. OwnWhole(temp, o)
    BY <1>4 DEF OwnContent, OwnWhole
  <2>2. \A q \in Objects : \A content \in ({files[q]} \ {NoFile}) \cup installed[q] :
           OwnWhole(content, q)
    BY DEF TransferInv, StoredIsOwn, OwnWhole
  <2>3. \A q \in Objects : \A content \in ({files'[q]} \ {NoFile}) \cup installed'[q] :
           OwnWhole(content, q)
    BY <1>1, <1>7, <2>1, <2>2
  <2> QED
    BY <2>3 DEF StoredIsOwn, OwnWhole
<1>12. ConfirmedMeansStored'
  <2>1. ASSUME NEW q \in confirmed
        PROVE  IF Object[q].storage = "inbox" THEN files'[q] = Whole(q)
               ELSE Whole(q) \in installed[q]
    <3>1. IF Object[q].storage = "inbox" THEN files[q] = Whole(q)
          ELSE Whole(q) \in installed[q]
      BY <2>1 DEF TransferInv, ConfirmedMeansStored
    <3>2. q \in Objects
      BY <2>1, ObjectAssumption DEF IInv, WireInv, TransferInv, StreamInv
    <3>3. ASSUME q = o PROVE FALSE
      <4>1. files[q] = Whole(q) /\ files[q] = NoFile
        BY <1>3, <1>5, <3>1, <3>3
      <4>2. Whole(q) \in Seq(Data)
        <5>1. Object[q].blocks \in Nat
          BY <3>2, ObjectAssumption
        <5>2. \A n \in 1..Object[q].blocks : <<q, n>> \in Data
          BY <3>2, <5>1 DEF Data
        <5> QED
          BY <5>1, <5>2 DEF Whole
      <4> QED
        BY <4>1, <4>2, DataIsAFile
    <3> QED
      BY <1>7, <3>1, <3>2, <3>3
  <2> QED
    BY <1>1, <1>2, <2>1 DEF ConfirmedMeansStored, Whole
<1> QED
  BY <1>2, <1>10, <1>11, <1>12 DEF TransferInv

LEMMA FinishKeepsTransfer == IInv /\ TransferInv /\ FinishSink => TransferInv'
<1> SUFFICES ASSUME IInv, TransferInv, FinishSink PROVE TransferInv'
  OBVIOUS
<1> DEFINE o == mSendObjectHandle
           got == Sink.got
<1>1. /\ pc = "finish" /\ result = "OK" /\ ~Staged /\ Len(got) = FinalSize /\ ~Sink.failed
      /\ installed' = [installed EXCEPT ![Sink.for] = @ \cup {got}] /\ files' = files
      /\ EndTransfer("OK", "done")
      /\ UNCHANGED <<hostVars, wire, requestVars, receiveVars>>
  BY DEF FinishSink
<1>2. /\ StreamInv' /\ RequestInv' /\ SendingInv' /\ InfoInv' /\ LocalsInv' /\ SinkInv'
      /\ GotInv' /\ PlaceInv' /\ RejectionInv'
      /\ Ahead' \subseteq Ahead /\ result' = "OK" /\ detail' = "done"
      /\ UNCHANGED <<hostPc, asked, confirmed, request, transferred, sink_rejected>>
  BY <1>1, EndBasics
<1>3. /\ o \in Objects /\ Object[o].storage # "inbox" /\ Sink.for = o /\ FinalSize = Size
      /\ (Attended => asked.obj = o)
  BY <1>1, Receiving
<1>4. /\ OwnContent(got, o, Ahead) /\ (Attended => got = Whole(o))
      /\ Len(got) = Object[o].blocks
  <2>1. Got = got
    BY <1>1 DEF Got
  <2> QED
    BY <1>1, <1>3, <2>1, FullIsOwn DEF Size
<1>5. DOMAIN installed = Objects
  BY DEF IInv, EntriesInv
<1>6. /\ installed'[o] = installed[o] \cup {got}
      /\ \A q \in Objects : q # o => installed'[q] = installed[q]
  BY <1>1, <1>3, <1>5
<1>7. \A p \in Ahead' : p.tid # request'.tid
  <2>1. ReadSoFar
    BY <1>1 DEF ReadSoFar
  <2> QED
    BY <1>1, <1>2, <2>1, ReadToItsEnd
<1>8. ~sink_rejected
  BY <1>1 DEF TransferInv, RejectionInv
<1> HIDE DEF o, got
<1>9. AnswerInv'
  <2>1. Attended' => Attended
    BY <1>2 DEF Attended
  <2>2. Attended' => StoredWhole(asked.obj)'
    BY <1>2, <1>3, <1>4, <1>6, <2>1 DEF StoredWhole, Whole
  <2>3. ~sink_rejected'
    BY <1>2, <1>8
  <2> QED
    BY <1>7, <2>2, <2>3 DEF AnswerInv
<1>10. StoredIsOwn'
  <2>1. OwnWhole(got, o)
    BY <1>4 DEF OwnContent, OwnWhole
  <2>2. \A q \in Objects : \A content \in ({files[q]} \ {NoFile}) \cup installed[q] :
           OwnWhole(content, q)
    BY DEF TransferInv, StoredIsOwn, OwnWhole
  <2>3. \A q \in Objects : \A content \in ({files'[q]} \ {NoFile}) \cup installed'[q] :
           OwnWhole(content, q)
    BY <1>1, <1>6, <2>1, <2>2
  <2> QED
    BY <2>3 DEF StoredIsOwn, OwnWhole
<1>11. ConfirmedMeansStored'
  <2>1. \A q \in confirmed : q \in Objects
    BY ObjectAssumption DEF IInv, WireInv, TransferInv, StreamInv
  <2>2. \A q \in Objects : installed[q] \subseteq installed'[q]
    BY <1>6
  <2> QED
    BY <1>1, <1>2, <2>1, <2>2 DEF TransferInv, ConfirmedMeansStored, Whole
<1> QED
  BY <1>2, <1>9, <1>10, <1>11 DEF TransferInv

(* A transfer that ends badly stores nothing, and says why. *)
LEMMA UnstoredKeepsTransfer ==
    ASSUME IInv, TransferInv, pc = "finish", NEW code, NEW reason, EndTransfer(code, reason),
           UNCHANGED <<hostVars, wire, requestVars, receiveVars, files, installed>>,
           code # "OK", reason = "sink" => result = "OK" \/ detail = "sink",
           sink_rejected /\ SizeKnown /\ transferred = Size => reason = "sink"
    PROVE  TransferInv'
<1>1. /\ StreamInv' /\ RequestInv' /\ SendingInv' /\ InfoInv' /\ LocalsInv' /\ SinkInv'
      /\ GotInv' /\ PlaceInv' /\ RejectionInv'
      /\ Ahead' \subseteq Ahead /\ result' = code /\ detail' = reason
      /\ UNCHANGED <<hostPc, asked, confirmed, request, transferred, sink_rejected>>
  BY EndBasics
<1>2. detail' = "sink" => \A p \in Ahead' : p.tid # request'.tid
  BY <1>1, ReadToItsEnd DEF ReadSoFar
<1>3. ASSUME sink_rejected', Attended', Object[asked'.obj].sized,
             transferred' = Object[asked'.obj].blocks
      PROVE  detail' = "sink"
  <2>1. Attended
    BY <1>1, <1>3 DEF Attended
  <2>2. asked.obj = mSendObjectHandle
    BY <2>1, Receiving
  <2> QED
    BY <1>1, <1>3, <2>2 DEF SizeKnown, Size
<1>4. AnswerInv'
  BY <1>1, <1>2, <1>3 DEF AnswerInv
<1>5. StoredIsOwn' /\ ConfirmedMeansStored'
  BY <1>1 DEF TransferInv, StoredIsOwn, ConfirmedMeansStored
<1> QED
  BY <1>1, <1>4, <1>5 DEF TransferInv

LEMMA DropKeepsTransfer == IInv /\ TransferInv /\ DropFile => TransferInv'
<1> SUFFICES ASSUME IInv, TransferInv, DropFile PROVE TransferInv'
  OBVIOUS
<1>1. /\ pc = "finish" /\ Staged
      /\ UNCHANGED <<hostVars, wire, requestVars, receiveVars, files, installed>>
  BY DEF DropFile
<1>2. PICK code, reason : /\ EndTransfer(code, reason) /\ code # "OK"
                          /\ reason = "sink" => result = "OK" \/ detail = "sink"
  BY DEF DropFile, FileFails
<1>3. ~sink_rejected
  BY <1>1 DEF TransferInv, RejectionInv
<1> QED
  BY <1>1, <1>2, <1>3, UnstoredKeepsTransfer

LEMMA AbortKeepsTransfer == IInv /\ TransferInv /\ AbortSink => TransferInv'
<1> SUFFICES ASSUME IInv, TransferInv, AbortSink PROVE TransferInv'
  OBVIOUS
<1>1. /\ pc = "finish" /\ ~Staged
      /\ UNCHANGED <<hostVars, wire, requestVars, receiveVars, files, installed>>
  BY DEF AbortSink, store
<1>2. FinalSize = Size /\ (SizeKnown => Sink.known)
  BY <1>1, Receiving DEF TransferInv, SinkInv
<1>3. sink_rejected /\ SizeKnown /\ transferred = Size => result = "OK" \/ detail = "sink"
  BY <1>1 DEF TransferInv, RejectionInv
<1>4. CASE result # "OK" /\ EndTransfer(result, detail)
  BY <1>1, <1>3, <1>4, UnstoredKeepsTransfer
<1>5. CASE /\ result = "OK"
           /\ ~Sink.known \/ transferred # FinalSize
           /\ EndTransfer("GeneralError", "size")
  BY <1>1, <1>2, <1>5, UnstoredKeepsTransfer
<1>6. CASE result = "OK" /\ EndTransfer("GeneralError", "sink")
  BY <1>1, <1>6, UnstoredKeepsTransfer
<1> QED
  BY <1>4, <1>5, <1>6 DEF AbortSink

-----------------------------------------------------------------------------
LEMMA InitTransfer == Init => TransferInv
<1> SUFFICES ASSUME Init PROVE TransferInv
  OBVIOUS
<1>1. Stream = <<>>
  BY DEF Init, Stream
<1>2. Len(Stream) = 0 /\ Ahead = {}
  BY <1>1 DEF Ahead
<1>3. /\ NoRequest.op = "Other" /\ NoRequest.tid = 0 /\ request = NoRequest /\ asked = NoRequest
  BY DEF Init, NoRequest
<1>4. StreamInv
  BY <1>2, <1>3 DEF Init, StreamInv
<1>5. RequestInv /\ SendingInv /\ InfoInv
  BY <1>2, <1>3 DEF Init, RequestInv, SendingInv, InfoInv
<1>6. LocalsInv
  BY <1>3 DEF Init, LocalsInv
<1>7. SinkInv /\ GotInv /\ PlaceInv /\ RejectionInv /\ AnswerInv
  BY DEF Init, SinkInv, GotInv, ReadSoFar, PlaceInv, RejectionInv, AnswerInv
<1>8. StoredIsOwn /\ ConfirmedMeansStored
  BY DEF Init, StoredIsOwn, ConfirmedMeansStored
<1> QED
  BY <1>4, <1>5, <1>6, <1>7, <1>8 DEF TransferInv

LEMMA NextKeepsTransfer ==
    ASSUME OneStorage
    PROVE  IInv /\ TransferInv /\ [Next]_vars => TransferInv'
<1>1. IInv /\ TransferInv /\ (InfoStaged \/ InfoSink) => TransferInv'
  BY AnnouncingKeepsTransfer
<1> QED
  BY <1>1, HostKeepsTransfer, RequestKeepsTransfer, RefusalKeepsTransfer, StartKeepsTransfer,
     ReceptionKeepsTransfer, PublishKeepsTransfer, DropKeepsTransfer, FinishKeepsTransfer,
     AbortKeepsTransfer, RespondKeepsTransfer, EndingKeepsTransfer
     DEF Next, ServerStep, SendObjectStep

(* The second invariant, for any objects, failures, crashes and hosts that   *)
(* copy to one storage.                                                      *)
THEOREM TransferInductive == ASSUME OneStorage PROVE Spec => [](IInv /\ TransferInv)
<1>1. IInv /\ [Next]_vars => IInv'
  BY NextKeeps
<1>2. IInv /\ TransferInv /\ [Next]_vars => TransferInv'
  BY NextKeepsTransfer
<1> QED
  BY <1>1, <1>2, InitInv, InitTransfer, PTL DEF Spec

(* What a host was told is stored, is stored whole.                          *)
THEOREM ConfirmedStored == ASSUME OneStorage PROVE Spec => []ConfirmedMeansStored
<1>1. IInv /\ TransferInv => ConfirmedMeansStored
  BY DEF TransferInv
<1> QED
  BY <1>1, TransferInductive, PTL

(* What is stored has the announced size, and blocks of no other object,     *)
(* none twice and none out of order.                                         *)
THEOREM StoredOwn == ASSUME OneStorage PROVE Spec => []StoredIsOwn
<1>1. IInv /\ TransferInv => StoredIsOwn
  BY DEF TransferInv
<1> QED
  BY <1>1, TransferInductive, PTL

(* A SendObject whose data was read to the end leaves no packet of it that   *)
(* could be taken for a request.                                             *)
THEOREM DrainedAligned == ASSUME OneStorage PROVE Spec => []DrainedIsAligned
<1>1. IInv /\ TransferInv => DrainedIsAligned
  <2> SUFFICES ASSUME IInv, TransferInv, pc = "respond", request.op = "SendObject",
                      result = "OK" \/ detail = "sink"
               PROVE  Remaining = {}
    BY DEF DrainedIsAligned
  <2>1. \A p \in Ahead : p.tid # request.tid
    BY DEF TransferInv, AnswerInv
  <2>2. /\ \A n \in DOMAIN wire : wire[n] \in Ahead
        /\ \A n \in DOMAIN left : left[n] \in Ahead
    <3>1. /\ Stream \in Seq(Sent) /\ Len(Stream) = Len(wire) + Len(left)
          /\ \A i \in 1..Len(wire) : Stream[i] = wire[i]
          /\ \A i \in 1..Len(left) : Stream[Len(wire) + i] = left[i]
          /\ Len(wire) \in Nat /\ Len(left) \in Nat
      BY StreamIs DEF IInv
    <3>2. DOMAIN wire = 1..Len(wire) /\ DOMAIN left = 1..Len(left)
      BY DEF IInv, WireInv
    <3>3. ASSUME NEW n \in 1..Len(wire) PROVE wire[n] \in Ahead
      BY <3>1, <3>3 DEF Ahead
    <3>4. ASSUME NEW n \in 1..Len(left) PROVE left[n] \in Ahead
      <4>1. Len(wire) + n \in 1..Len(Stream)
        BY <3>1, <3>4
      <4> QED
        BY <3>1, <3>4, <4>1 DEF Ahead
    <3> QED
      BY <3>2, <3>3, <3>4
  <2> QED
    BY <2>1, <2>2 DEF Remaining
<1> QED
  BY <1>1, TransferInductive, PTL

(* A host that sent the whole of an object of known size is told why the     *)
(* installer refused it.                                                     *)
THEOREM RejectionReported == ASSUME OneStorage PROVE Spec => []SizedRejectionIsReported
<1>1. IInv /\ TransferInv => SizedRejectionIsReported
  <2> DEFINE sized == {o \in Objects : Object[o].sized}
  <2> SUFFICES ASSUME IInv, TransferInv, pc = "respond", request.op = "SendObject",
                      request.obj \in sized, sink_rejected, WholeObjectRead
               PROVE  detail = "sink"
    BY DEF SizedRejectionIsReported, ReasonIsKept
  <2>1. Attended /\ transferred = Object[request.obj].blocks
    BY DEF WholeObjectRead, Attended
  <2>2. request.obj = asked.obj
    BY <2>1, ObjectAssumption DEF TransferInv, RequestInv, Attended
  <2> QED
    BY <2>1, <2>2 DEF TransferInv, AnswerInv
<1> QED
  BY <1>1, TransferInductive, PTL
=============================================================================

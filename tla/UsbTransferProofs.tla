--------------------------- MODULE UsbTransferProofs ---------------------------
(***************************************************************************)
(* Proofs about UsbTransfer, for every set of calls, every buffer size and *)
(* page boundary, and every number of calls, messages and changes of the   *)
(* bus: what a read returns is one piece of the host's stream, what it     *)
(* drops it tells, and a repeated write is heard as one.                   *)
(***************************************************************************)
EXTENDS UsbTransfer, FiniteSetTheorems, TLAPS

HostByte == Nat \X Nat \X Nat
DeviceByte == Nat \X Nat

InUrb == pc \in {"wait", "cancel"}
Busy == pc = "post" \/ InUrb
Taken == urb.status \in {"posted", "done"}

(* TypeOK, with the elements of the sequences. *)
StateType ==
    /\ state \in {"configured", "suspended", "detached"}
    /\ connection \in Nat /\ changes \in 0..MaxChanges /\ connection <= changes
    /\ pc \in {"idle", "ready", "post", "wait", "cancel", "failed"}
    /\ call \in Calls \cup {NoCall} /\ calls \in 0..MaxCalls
    /\ transferredSize \in 0..MaxSize

RetriedType == retried \in BOOLEAN

HostType ==
    /\ message \in [number: 0..MaxMessages, length: 0..MaxSize, sent: 0..MaxSize]
    /\ heard \in Seq(DeviceByte)
    /\ moved \subseteq HostByte

BufferType ==
    /\ urb \in [size: 0..MaxSize, bytes: Seq(HostByte \cup DeviceByte),
                status: {"none", "posted", "done", "aborted"}]
    /\ buffer \in Seq(HostByte \cup DeviceByte) /\ Len(buffer) <= MaxSize
    /\ Reading => urb.bytes \in Seq(HostByte) /\ buffer \in Seq(HostByte)

TypeInv == StateType /\ RetriedType /\ HostType /\ BufferType

(* A call has one urb under way at most, and its buffer is empty but for a    *)
(* first chunk, which was full.                                              *)
CallInv ==
    /\ urb.status = "none" <=> ~InUrb
    /\ urb.status = "none" => urb = NoUrb
    /\ InUrb => urb.size = Chunk /\ Len(urb.bytes) <= urb.size
    /\ Posted => Len(urb.bytes) < urb.size /\ state # "detached"
    /\ urb.status = "done" => urb.bytes # <<>>
    /\ Busy => buffer = <<>> \/ (Len(buffer) = call.lead /\ 0 < call.lead /\ call.lead < call.size)
    /\ pc # "idle" => transferredSize = 0
    /\ transferredSize > 0 => transferredSize = Len(buffer)
    /\ pc = "cancel" => Reading
    /\ state = "suspended" => pc # "post" /\ (InUrb => Posted /\ urb.bytes = <<>>)

(* Consecutive bytes of one message. *)
Run(seq) ==
    \A m, n \in DOMAIN seq :
        /\ seq[n][1] = seq[m][1] /\ seq[n][2] = seq[m][2]
        /\ seq[n][3] + m = seq[m][3] + n

(* The byte the host sends next follows this one. *)
LinkedTo(byte) ==
    /\ byte[1] = connection
    /\ \/ byte[2] = message.number /\ byte[3] = message.sent
       \/ byte[2] + 1 = message.number /\ message.sent = 0 /\ Unfinished

(* One piece of what the host sent, with at most one end of a message in it. *)
Piece(seq) ==
    \A n \in 1..Len(seq) - 1 :
        /\ Follows(seq[n + 1], seq[n])
        /\ seq[n + 1][2] # seq[n][2] => n = call.lead

(* What a read has taken is of messages the host has begun, *)
ReadBegun ==
    /\ Busy \/ Returned => \A n \in DOMAIN buffer : buffer[n][2] <= message.number
    /\ \A n \in DOMAIN urb.bytes : urb.bytes[n][2] <= message.number

(* each chunk of one message, and the second goes on after the first;        *)
ReadRuns ==
    /\ Busy => Run(buffer) /\ Run(urb.bytes)
    /\ buffer # <<>> /\ urb.bytes # <<>> => Follows(urb.bytes[1], Last(buffer))

(* while its urb may take more, the host goes on where it stands;            *)
ReadLinked ==
    /\ state # "detached" /\ (pc = "post" \/ Taken) /\ buffer # <<>> /\ urb.bytes = <<>> =>
          LinkedTo(Last(buffer))
    /\ state # "detached" /\ Taken /\ urb.bytes # <<>> => LinkedTo(Last(urb.bytes))
    /\ Posted /\ urb.bytes # <<>> => Unfinished /\ message.sent > 0

(* and it ends short only with a message.                                    *)
ReadEnded ==
    /\ urb.status = "done" /\ Len(urb.bytes) < urb.size => EndsMessage(Last(urb.bytes))
    /\ Returned => Piece(buffer)
    /\ Returned /\ transferredSize < call.size => EndsMessage(Last(buffer))

ReadInv == Reading => ReadBegun /\ ReadRuns /\ ReadLinked /\ ReadEnded

Here == {byte \in moved : byte[1] = connection}
Got == ToSet(buffer) \cup ToSet(urb.bytes)
OneChunk(S) == S = {} \/ Cardinality(S) = call.lead

(* What left the host in this call is of this connection or an earlier one,   *)
(* and of what the host has sent.                                            *)
MovedInv ==
    Reading =>
        /\ \A byte \in moved : byte[1] <= connection
        /\ state # "detached" =>
              \A byte \in Here : \/ byte[2] < message.number
                                 \/ byte[2] = message.number /\ byte[3] <= message.sent

(* The first attempt has it all in its buffer; it is tried again over the     *)
(* same connection only when nothing or one first chunk goes with it.        *)
FirstAttempt ==
    ~retried =>
        /\ pc = "ready" => moved = {}
        /\ Busy \/ Returned => moved = Got
        /\ pc = "failed" /\ state = "suspended" => OneChunk(Here)

(* The second has all but what went with the first.                          *)
SecondAttempt ==
    retried =>
        /\ pc = "ready" /\ state # "detached" => OneChunk(Here)
        /\ Busy \/ Returned => OneChunk(Here \ Got)

LossInv == Reading => FirstAttempt /\ SecondAttempt

(* What the host hears belongs to a call that was made, over this connection. *)
HeardInv ==
    /\ \A n \in DOMAIN heard : heard[n][1] <= calls
    /\ state = "detached" => heard = <<>>

(* What it has heard of a write is what the urbs have given, and nothing when *)
(* the write is to be repeated.                                              *)
WriteInv ==
    ~Reading =>
        /\ urb.status = "aborted" \/ pc \in {"ready", "failed"} => HeardOfCall(0)
        /\ state # "detached" /\ (pc = "post" \/ Taken) =>
              HeardOfCall(Len(buffer) + Len(urb.bytes))
        /\ urb.status = "done" => Len(urb.bytes) = urb.size
        /\ Returned => transferredSize = call.size
        /\ pc = "idle" => HeardOfCall(0) \/ (Returned /\ HeardOfCall(call.size))

IndInv == TypeInv /\ CallInv /\ ReadInv /\ MovedInv /\ LossInv /\ HeardInv /\ WriteInv

-----------------------------------------------------------------------------
(* What the actions do to the urb, field by field. *)

LEMMA Bounds ==
    /\ MaxSize \in Nat \ {0} /\ MaxCalls \in Nat /\ MaxMessages \in Nat /\ MaxChanges \in Nat
BY TransferAssumption

LEMMA CallTyped ==
    ASSUME StateType
    PROVE  /\ call.size \in 1..MaxSize /\ call.lead \in 0..MaxSize
           /\ call.dir \in {"read", "write"}
BY TransferAssumption DEF StateType, NoCall

LEMMA ChunkTyped ==
    ASSUME StateType, BufferType, CallInv, Busy
    PROVE  /\ Chunk \in 1..MaxSize
           /\ Len(buffer) \in Nat /\ Len(buffer) + Chunk <= call.size
           /\ buffer = <<>> => Chunk = IF 0 < call.lead /\ call.lead < call.size
                                       THEN call.lead ELSE call.size
           /\ buffer # <<>> => /\ Chunk = call.size - call.lead /\ Len(buffer) = call.lead
                               /\ 0 < call.lead /\ call.lead < call.size
<1>1. Len(buffer) \in Nat
  BY DEF BufferType
<1> QED
  BY <1>1, CallTyped, Bounds DEF CallInv, Chunk

(* The byte the host sends, and hears, next. *)
NextSent == <<connection, message.number, message.sent + 1>>
NextHeard == <<calls, Len(buffer) + Len(urb.bytes) + 1>>

LEMMA SendsFacts ==
    ASSUME TypeInv, HostSends
    PROVE  /\ NextSent \in HostByte
           /\ urb'.size = urb.size /\ urb'.bytes = Append(urb.bytes, NextSent)
           /\ urb'.status = IF message.sent + 1 = message.length \/ Len(urb.bytes) + 1 = urb.size
                            THEN "done" ELSE "posted"
           /\ message' \in [number: 0..MaxMessages, length: 0..MaxSize, sent: 0..MaxSize]
           /\ message'.number = message.number /\ message'.length = message.length
           /\ message'.sent = message.sent + 1
           /\ moved' = moved \cup {NextSent}
           /\ urb' \in [size: 0..MaxSize, bytes: Seq(HostByte \cup DeviceByte),
                        status: {"none", "posted", "done", "aborted"}]
           /\ urb'.bytes \in Seq(HostByte)
           /\ Len(urb'.bytes) = Len(urb.bytes) + 1
           /\ Len(urb.bytes) \in Nat
           /\ \A n \in 1..Len(urb.bytes) : urb'.bytes[n] = urb.bytes[n]
           /\ urb'.bytes[Len(urb.bytes) + 1] = NextSent
<1>1. NextSent \in HostByte
  BY DEF TypeInv, StateType, HostType, HostByte, NextSent
<1>2. urb.bytes \in Seq(HostByte)
  BY DEF TypeInv, BufferType, HostSends
<1>3. message' = [message EXCEPT !.sent = @ + 1] /\ moved' = moved \cup {NextSent}
      /\ urb' = [urb EXCEPT !.bytes = Append(@, NextSent),
                            !.status = IF message'.sent = message.length
                                          \/ Len(urb.bytes) + 1 = urb.size
                                       THEN "done" ELSE "posted"]
  BY DEF HostSends, NextSent
<1>4. /\ message'.number = message.number /\ message'.length = message.length
      /\ message'.sent = message.sent + 1
      /\ message' \in [number: 0..MaxMessages, length: 0..MaxSize, sent: 0..MaxSize]
  <2>1. message \in [number: 0..MaxMessages, length: 0..MaxSize, sent: 0..MaxSize]
        /\ message.sent < message.length
    BY DEF TypeInv, HostType, HostSends, Unfinished
  <2> QED
    BY <1>3, <2>1, Bounds
<1>5. /\ urb'.size = urb.size /\ urb'.bytes = Append(urb.bytes, NextSent)
      /\ urb'.status = IF message.sent + 1 = message.length \/ Len(urb.bytes) + 1 = urb.size
                       THEN "done" ELSE "posted"
      /\ urb' = [size |-> urb'.size, bytes |-> urb'.bytes, status |-> urb'.status]
  BY <1>3, <1>4 DEF TypeInv, BufferType
<1>6. urb'.bytes \in Seq(HostByte) /\ urb'.bytes \in Seq(HostByte \cup DeviceByte)
  BY <1>1, <1>2, <1>5
<1>7. urb.size \in 0..MaxSize
  BY DEF TypeInv, BufferType
<1>8. urb' \in [size: 0..MaxSize, bytes: Seq(HostByte \cup DeviceByte),
                status: {"none", "posted", "done", "aborted"}]
  BY <1>5, <1>6, <1>7
<1> QED
  BY <1>1, <1>2, <1>3, <1>4, <1>5, <1>6, <1>8

LEMMA HearsFacts ==
    ASSUME TypeInv, HostHears
    PROVE  /\ NextHeard \in DeviceByte
           /\ urb'.size = urb.size /\ urb'.bytes = Append(urb.bytes, NextHeard)
           /\ urb'.status = IF Len(urb.bytes) + 1 = urb.size THEN "done" ELSE "posted"
           /\ heard' = Append(heard, NextHeard) /\ heard' \in Seq(DeviceByte)
           /\ urb' \in [size: 0..MaxSize, bytes: Seq(HostByte \cup DeviceByte),
                        status: {"none", "posted", "done", "aborted"}]
           /\ Len(urb'.bytes) = Len(urb.bytes) + 1 /\ Len(urb.bytes) \in Nat
           /\ Len(buffer) \in Nat
<1>1. NextHeard \in DeviceByte /\ Len(urb.bytes) \in Nat /\ Len(buffer) \in Nat
  BY Bounds DEF TypeInv, StateType, BufferType, DeviceByte, NextHeard
<1>2. heard' = Append(heard, NextHeard)
      /\ urb' = [urb EXCEPT !.bytes = Append(@, heard'[Len(heard')]),
                            !.status = IF Len(urb.bytes) + 1 = urb.size THEN "done" ELSE "posted"]
  BY DEF HostHears, NextHeard
<1>3. heard'[Len(heard')] = NextHeard /\ heard' \in Seq(DeviceByte)
  <2>1. heard \in Seq(DeviceByte)
    BY DEF TypeInv, HostType
  <2> QED
    BY <1>1, <1>2, <2>1
<1>4. /\ urb'.size = urb.size /\ urb'.bytes = Append(urb.bytes, NextHeard)
      /\ urb'.status = IF Len(urb.bytes) + 1 = urb.size THEN "done" ELSE "posted"
      /\ urb' = [size |-> urb'.size, bytes |-> urb'.bytes, status |-> urb'.status]
  BY <1>2, <1>3 DEF TypeInv, BufferType
<1>5. urb.bytes \in Seq(HostByte \cup DeviceByte) /\ urb.size \in 0..MaxSize
  BY DEF TypeInv, BufferType
<1>6. urb'.bytes \in Seq(HostByte \cup DeviceByte) /\ Len(urb'.bytes) = Len(urb.bytes) + 1
  BY <1>1, <1>4, <1>5
<1>7. urb' \in [size: 0..MaxSize, bytes: Seq(HostByte \cup DeviceByte),
                status: {"none", "posted", "done", "aborted"}]
  BY <1>4, <1>5, <1>6
<1> QED
  BY <1>1, <1>2, <1>3, <1>4, <1>6, <1>7

(* Unplugging aborts the urb that is posted. *)
LEMMA DetachFacts ==
    ASSUME TypeInv, Detach
    PROVE  /\ urb'.size = urb.size /\ urb'.bytes = urb.bytes
           /\ urb'.status = IF Posted THEN "aborted" ELSE urb.status
           /\ ~Posted => urb' = urb
           /\ urb' \in [size: 0..MaxSize, bytes: Seq(HostByte \cup DeviceByte),
                        status: {"none", "posted", "done", "aborted"}]
           /\ message'.number = message.number /\ message'.sent = 0 /\ message'.length = 0
           /\ message' \in [number: 0..MaxMessages, length: 0..MaxSize, sent: 0..MaxSize]
<1>1. urb' = IF Posted THEN [urb EXCEPT !.status = "aborted"] ELSE urb
  BY DEF Detach
<1>2. message' = [number |-> message.number, length |-> 0, sent |-> 0]
  BY DEF Detach, NoMessage
<1>3. message.number \in 0..MaxMessages
  BY DEF TypeInv, HostType
<1>4. urb \in [size: 0..MaxSize, bytes: Seq(HostByte \cup DeviceByte),
               status: {"none", "posted", "done", "aborted"}]
  BY DEF TypeInv, BufferType
<1>5. /\ urb'.size = urb.size /\ urb'.bytes = urb.bytes
      /\ urb'.status = IF Posted THEN "aborted" ELSE urb.status
      /\ urb' \in [size: 0..MaxSize, bytes: Seq(HostByte \cup DeviceByte),
                   status: {"none", "posted", "done", "aborted"}]
  BY <1>1, <1>4
<1> QED
  BY <1>1, <1>2, <1>3, <1>5, Bounds

LEMMA InitInd == Init => IndInv
<1> SUFFICES ASSUME Init PROVE IndInv
  OBVIOUS
<1> USE DEF Init, NoUrb, NoMessage
<1>1. TypeInv
  <2>1. StateType
    BY Bounds DEF StateType
  <2>2. HostType
    BY Bounds DEF HostType
  <2>3. BufferType
    BY Bounds DEF BufferType
  <2> QED
    BY <2>1, <2>2, <2>3 DEF TypeInv, RetriedType
<1>2. CallInv
  BY DEF CallInv, InUrb, Busy, Posted
<1>3. ReadInv
  BY DEF ReadInv, ReadBegun, ReadRuns, ReadLinked, ReadEnded, Run, Busy, InUrb, Returned, Taken,
         Posted
<1>5. MovedInv /\ LossInv
  BY DEF MovedInv, Here, LossInv, FirstAttempt, SecondAttempt, Busy, InUrb, Returned
<1>4. HeardInv /\ WriteInv
  BY DEF HeardInv, WriteInv, Reading, NoCall
<1> QED
  BY <1>1, <1>2, <1>3, <1>4, <1>5 DEF IndInv

LEMMA StateTypePreserved == TypeInv /\ CallInv /\ [Next]_vars => StateType'
<1> SUFFICES ASSUME TypeInv, CallInv, [Next]_vars PROVE StateType'
  OBVIOUS
<1> USE Bounds DEF bus, host, device, StateType
<1>1. StateType
  BY DEF TypeInv
<1>2. CASE HostStarts \/ HostSends \/ HostHears \/ UNCHANGED vars
  BY <1>1, <1>2 DEF HostStarts, HostSends, HostHears, vars
<1>3. CASE Detach \/ Attach \/ Suspend \/ Resume
  <2>1. UNCHANGED device /\ changes < MaxChanges /\ changes' = changes + 1
        /\ state' \in {"configured", "suspended", "detached"}
        /\ connection' \in {connection, connection + 1}
    BY <1>3 DEF Detach, Attach, Suspend, Resume, Changes
  <2> QED
    BY <1>1, <2>1
<1>4. CASE Transfer \/ BeReady \/ NotReady \/ PostChunk
  BY <1>1, <1>4 DEF Transfer, BeReady, NotReady, PostChunk, Fail
<1>5. CASE ChunkDone
  <2>1. Len(urb.bytes) <= Chunk /\ Chunk \in 1..MaxSize /\ Len(buffer) + Chunk <= call.size
        /\ Len(buffer) \in Nat
    BY <1>5, ChunkTyped DEF ChunkDone, CallInv, InUrb, Busy, TypeInv
  <2>2. Len(buffer') = Len(buffer) + Len(urb.bytes) /\ Len(urb.bytes) \in Nat
    BY <1>5 DEF ChunkDone, TypeInv, BufferType
  <2>3. Len(buffer') \in 0..MaxSize
    BY <1>1, <2>1, <2>2, CallTyped
  <2> QED
    BY <1>1, <1>5, <2>3 DEF ChunkDone
<1>6. CASE ChunkAborted \/ ChunkTimesOut \/ CancelChunk \/ LookAtState
  BY <1>1, <1>6 DEF ChunkAborted, ChunkTimesOut, CancelChunk, LookAtState, Fail
<1> QED
  BY <1>2, <1>3, <1>4, <1>5, <1>6 DEF Next, TransferStep

LEMMA RetriedTypePreserved == RetriedType /\ [Next]_vars => RetriedType'
BY DEF RetriedType, Next, TransferStep, vars, host, device, HostStarts, HostSends, HostHears,
       Detach, Attach, Suspend, Resume, Transfer, BeReady, NotReady, PostChunk, ChunkDone,
       ChunkAborted, ChunkTimesOut, CancelChunk, LookAtState

LEMMA HostTypePreserved == TypeInv /\ [Next]_vars => HostType'
<1> SUFFICES ASSUME TypeInv, [Next]_vars PROVE HostType'
  OBVIOUS
<1> USE Bounds DEF bus, host, device, HostType
<1>1. HostType
  BY DEF TypeInv
<1>2. CASE HostStarts
  <2>1. PICK n \in 1..MaxSize :
           message' = [number |-> message.number + 1, length |-> n, sent |-> 0]
    BY <1>2 DEF HostStarts
  <2>2. message.number + 1 \in 0..MaxMessages
    BY <1>1, <1>2 DEF HostStarts
  <2> QED
    BY <1>1, <1>2, <2>1, <2>2 DEF HostStarts
<1>3. CASE HostSends
  <2>1. heard' = heard
    BY <1>3 DEF HostSends
  <2> QED
    BY <1>1, <1>3, <2>1, SendsFacts
<1>4. CASE HostHears
  <2>1. UNCHANGED <<message, moved>>
    BY <1>4 DEF HostHears
  <2> QED
    BY <1>1, <1>4, <2>1, HearsFacts
<1>5. CASE Detach
  <2>1. heard' = <<>> /\ UNCHANGED moved
    BY <1>5 DEF Detach
  <2> QED
    BY <1>1, <1>5, <2>1, DetachFacts
<1>6. CASE Transfer
  BY <1>1, <1>6 DEF Transfer
<1>7. CASE UNCHANGED <<message, heard, moved>>
  BY <1>1, <1>7
<1> QED
  BY <1>2, <1>3, <1>4, <1>5, <1>6, <1>7
  DEF Next, TransferStep, vars, Attach, Suspend, Resume, BeReady, NotReady, PostChunk,
      ChunkDone, ChunkAborted, ChunkTimesOut, CancelChunk, LookAtState

LEMMA BufferTypePreserved == TypeInv /\ CallInv /\ [Next]_vars => BufferType'
<1> SUFFICES ASSUME TypeInv, CallInv, [Next]_vars PROVE BufferType'
  OBVIOUS
<1> USE Bounds DEF bus, host, device, BufferType
<1>1. BufferType
  BY DEF TypeInv
<1>2. ASSUME UNCHANGED <<buffer, call>>, urb' = urb \/ urb' = NoUrb PROVE BufferType'
  <2>1. CASE urb' = urb
    BY <1>1, <1>2, <2>1 DEF Reading
  <2>2. CASE urb' = NoUrb
    <3>1. NoUrb \in [size: 0..MaxSize, bytes: Seq(HostByte \cup DeviceByte),
                     status: {"none", "posted", "done", "aborted"}]
          /\ NoUrb.bytes = <<>>
      BY DEF NoUrb
    <3> QED
      BY <1>1, <1>2, <2>2, <3>1 DEF Reading
  <2> QED
    BY <1>2, <2>1, <2>2
<1>3. CASE HostSends
  <2>1. UNCHANGED <<buffer, call>>
    BY <1>3 DEF HostSends
  <2> QED
    BY <1>1, <1>3, <2>1, SendsFacts DEF Reading
<1>4. CASE HostHears
  <2>1. UNCHANGED <<buffer, call>> /\ ~Reading
    BY <1>4 DEF HostHears
  <2> QED
    BY <1>1, <1>4, <2>1, HearsFacts DEF Reading
<1>5. CASE Detach
  <2>1. UNCHANGED <<buffer, call>>
    BY <1>5 DEF Detach
  <2> QED
    BY <1>1, <1>5, <2>1, DetachFacts DEF Reading
<1>6. CASE Transfer \/ BeReady
  <2>1. buffer' = <<>> /\ urb' = urb /\ urb = NoUrb
    BY <1>6 DEF Transfer, BeReady, Rewound, CallInv, InUrb
  <2> QED
    BY <2>1 DEF NoUrb
<1>7. CASE PostChunk
  <2>1. Chunk \in 1..MaxSize
    BY <1>7, ChunkTyped DEF PostChunk, Busy, TypeInv
  <2>2. UNCHANGED <<buffer, call>>
    BY <1>7 DEF PostChunk
  <2>3. CASE urb' = [size |-> Chunk, bytes |-> <<>>, status |-> "posted"]
    <3>1. /\ urb'.bytes = <<>>
          /\ urb' \in [size: 0..MaxSize, bytes: Seq(HostByte \cup DeviceByte),
                       status: {"none", "posted", "done", "aborted"}]
      BY <2>1, <2>3
    <3> QED
      BY <1>1, <2>2, <3>1 DEF Reading
  <2> QED
    BY <1>2, <1>7, <2>2, <2>3 DEF PostChunk, Fail
<1>8. CASE ChunkDone
  <2>1. Len(urb.bytes) <= Chunk /\ Chunk \in 1..MaxSize /\ Len(buffer) + Chunk <= call.size
        /\ Len(buffer) \in Nat /\ call.size \in 1..MaxSize
    BY <1>8, ChunkTyped, CallTyped DEF ChunkDone, CallInv, InUrb, Busy, TypeInv
  <2>2. buffer' \in Seq(HostByte \cup DeviceByte) /\ (Reading => buffer' \in Seq(HostByte))
        /\ Len(buffer') = Len(buffer) + Len(urb.bytes) /\ Len(urb.bytes) \in Nat
    BY <1>1, <1>8 DEF ChunkDone
  <2>3. urb' = NoUrb /\ UNCHANGED call
    BY <1>8 DEF ChunkDone
  <2> QED
    BY <2>1, <2>2, <2>3 DEF NoUrb, Reading
<1>9. CASE UNCHANGED <<buffer, call>> /\ (urb' = urb \/ urb' = NoUrb)
  BY <1>2, <1>9
<1> QED
  BY <1>3, <1>4, <1>5, <1>6, <1>7, <1>8, <1>9
  DEF Next, TransferStep, vars, HostStarts, Attach, Suspend, Resume, NotReady,
      ChunkAborted, ChunkTimesOut, CancelChunk, LookAtState, Fail

LEMMA CallPreserved == TypeInv /\ CallInv /\ [Next]_vars => CallInv'
<1> SUFFICES ASSUME TypeInv, CallInv, [Next]_vars PROVE CallInv'
  OBVIOUS
<1> USE DEF bus, host, device, CallInv, InUrb, Busy, Posted, Chunk
<1>1. CASE UNCHANGED vars
  BY <1>1 DEF vars, Reading
<1>2. CASE HostStarts \/ Resume
  BY <1>2 DEF HostStarts, Resume, Reading
<1>3. CASE HostSends
  <2>1. InUrb /\ state = "configured" /\ Posted
    BY <1>3 DEF HostSends
  <2>2. UNCHANGED <<state, device>>
    BY <1>3 DEF HostSends
  <2>3. /\ urb'.size = urb.size /\ Len(urb'.bytes) = Len(urb.bytes) + 1
        /\ urb'.status \in {"posted", "done"}
        /\ urb'.status = "posted" => Len(urb.bytes) + 1 # urb.size
        /\ Len(urb.bytes) \in Nat /\ urb'.bytes # <<>>
        /\ urb.size \in Nat
    BY <1>3, SendsFacts, Bounds DEF TypeInv, BufferType
  <2> QED
    BY <2>1, <2>2, <2>3 DEF Reading
<1>4. CASE HostHears
  <2>1. InUrb /\ state = "configured" /\ Posted
    BY <1>4 DEF HostHears
  <2>2. UNCHANGED <<state, device>>
    BY <1>4 DEF HostHears
  <2>3. /\ urb'.size = urb.size /\ Len(urb'.bytes) = Len(urb.bytes) + 1
        /\ urb'.status \in {"posted", "done"}
        /\ urb'.status = "posted" => Len(urb.bytes) + 1 # urb.size
        /\ Len(urb.bytes) \in Nat /\ urb'.bytes # <<>>
        /\ urb.size \in Nat
    BY <1>4, HearsFacts, Bounds DEF TypeInv, BufferType
  <2> QED
    BY <2>1, <2>2, <2>3 DEF Reading
<1>5. CASE Detach
  <2>1. state' = "detached" /\ UNCHANGED device
    BY <1>5 DEF Detach
  <2> QED
    BY <1>5, <2>1, DetachFacts DEF Reading
<1>6. CASE Attach \/ Suspend
  BY <1>6 DEF Attach, Suspend, BetweenChunks, Reading
<1>7. CASE Transfer \/ BeReady
  BY <1>7 DEF Transfer, BeReady, Rewound, NoUrb, Reading
<1>8. CASE NotReady \/ ChunkAborted \/ CancelChunk
  BY <1>8 DEF NotReady, ChunkAborted, CancelChunk, Fail, NoUrb, Reading
<1>9. CASE PostChunk
  <2>1. Chunk \in 1..MaxSize
    BY <1>9, ChunkTyped DEF PostChunk, TypeInv
  <2>2. UNCHANGED <<state, call, buffer, transferredSize>> /\ state # "suspended"
    BY <1>9 DEF PostChunk
  <2>3. CASE urb' = [size |-> Chunk, bytes |-> <<>>, status |-> "posted"] /\ pc' = "wait"
             /\ state = "configured"
    BY <1>9, <2>1, <2>2, <2>3 DEF PostChunk
  <2>4. CASE pc' = "failed" /\ urb' = NoUrb
    BY <1>9, <2>2, <2>4 DEF PostChunk, NoUrb
  <2> QED
    BY <1>9, <2>3, <2>4 DEF PostChunk, Fail
<1>10. CASE ChunkDone
  <2>1. /\ Len(urb.bytes) <= urb.size /\ urb.size = Chunk
        /\ Chunk \in 1..MaxSize /\ Len(buffer) + Chunk <= call.size
        /\ Len(urb.bytes) \in Nat /\ Len(urb.bytes) # 0 /\ Len(buffer) \in Nat
    BY <1>10, ChunkTyped DEF ChunkDone, TypeInv, BufferType
  <2>2. Len(buffer') = Len(buffer) + Len(urb.bytes)
    BY <1>10 DEF ChunkDone, TypeInv, BufferType
  <2>3. urb' = NoUrb /\ UNCHANGED <<state, call>> /\ pc = "wait" /\ state # "suspended"
    BY <1>10 DEF ChunkDone
  <2>4. CASE EndsCall(buffer')
    BY <1>10, <2>2, <2>1, <2>3, <2>4 DEF ChunkDone, NoUrb
  <2>5. CASE ~EndsCall(buffer')
    <3>1. Len(urb.bytes) = Chunk /\ Len(buffer') # call.size
      BY <2>1, <2>5 DEF EndsCall
    <3>2. buffer = <<>> /\ Len(buffer) = 0 /\ 0 < call.lead /\ call.lead < call.size
          /\ Len(buffer') = call.lead
      BY <1>10, <2>1, <2>2, <3>1, ChunkTyped, CallTyped DEF ChunkDone, TypeInv
    <3> QED
      BY <1>10, <2>3, <2>5, <3>2 DEF ChunkDone, NoUrb
  <2> QED
    BY <2>4, <2>5
<1>11. CASE ChunkTimesOut \/ LookAtState
  BY <1>11 DEF ChunkTimesOut, LookAtState, HasTimeout, Reading
<1> QED
  BY <1>1, <1>2, <1>3, <1>4, <1>5, <1>6, <1>7, <1>8, <1>9, <1>10, <1>11
  DEF Next, TransferStep
LEMMA TypePreserved == TypeInv /\ CallInv /\ [Next]_vars => TypeInv'
BY StateTypePreserved, RetriedTypePreserved, HostTypePreserved, BufferTypePreserved DEF TypeInv

-----------------------------------------------------------------------------
(* Reads. *)

LEMMA ByteTyped ==
    ASSUME NEW byte \in HostByte
    PROVE  byte[1] \in Nat /\ byte[2] \in Nat /\ byte[3] \in Nat
BY DEF HostByte

LEMMA MessageTyped ==
    ASSUME HostType
    PROVE  message.number \in Nat /\ message.length \in Nat /\ message.sent \in Nat
BY Bounds DEF HostType

(* The elements of what a read has taken, and of its urb. *)
LEMMA ReadTyped ==
    ASSUME BufferType, Reading
    PROVE  /\ buffer \in Seq(HostByte) /\ urb.bytes \in Seq(HostByte)
           /\ Len(buffer) \in Nat /\ Len(urb.bytes) \in Nat /\ urb.size \in Nat
           /\ \A n \in DOMAIN buffer : buffer[n] \in HostByte
           /\ \A n \in DOMAIN urb.bytes : urb.bytes[n] \in HostByte
           /\ buffer # <<>> => Last(buffer) = buffer[Len(buffer)] /\ Len(buffer) \in DOMAIN buffer
           /\ urb.bytes # <<>> => /\ Last(urb.bytes) = urb.bytes[Len(urb.bytes)]
                                  /\ Len(urb.bytes) \in DOMAIN urb.bytes
BY Bounds DEF BufferType, Last

(* A run goes on with the byte after its last. *)
LEMMA RunAppend ==
    ASSUME NEW seq \in Seq(HostByte), seq # <<>>, Run(seq), NEW next \in HostByte,
           next = <<Last(seq)[1], Last(seq)[2], Last(seq)[3] + 1>>
    PROVE  Run(Append(seq, next)) /\ Append(seq, next)[1] = seq[1]
<1> DEFINE len == Len(seq)
           longer == Append(seq, next)
<1>1. /\ len \in Nat /\ len > 0 /\ DOMAIN seq = 1..len /\ DOMAIN longer = 1..len + 1
      /\ \A n \in 1..len : longer[n] = seq[n] /\ seq[n] \in HostByte
      /\ longer[len + 1] = next /\ Last(seq) = seq[len] /\ Last(seq) \in HostByte
  BY DEF Last
<1>2. Last(seq)[3] \in Nat /\ next[1] = Last(seq)[1] /\ next[2] = Last(seq)[2]
      /\ next[3] = Last(seq)[3] + 1
  BY <1>1, ByteTyped
<1>3. \A n \in 1..len : /\ seq[n][1] = Last(seq)[1] /\ seq[n][2] = Last(seq)[2]
                        /\ seq[n][3] + len = Last(seq)[3] + n /\ seq[n][3] \in Nat
  <2> SUFFICES ASSUME NEW n \in 1..len
               PROVE  /\ seq[n][1] = Last(seq)[1] /\ seq[n][2] = Last(seq)[2]
                      /\ seq[n][3] + len = Last(seq)[3] + n /\ seq[n][3] \in Nat
    OBVIOUS
  <2>1. n \in DOMAIN seq /\ len \in DOMAIN seq
    BY <1>1
  <2>2. seq[n][3] \in Nat
    BY <1>1, ByteTyped
  <2> QED
    BY <1>1, <2>1, <2>2 DEF Run
<1> HIDE DEF longer
<1>4. \A n \in 1..len + 1 : /\ longer[n][1] = Last(seq)[1] /\ longer[n][2] = Last(seq)[2]
                            /\ longer[n][3] + len = Last(seq)[3] + n /\ longer[n][3] \in Nat
  <2> SUFFICES ASSUME NEW n \in 1..len + 1
               PROVE  /\ longer[n][1] = Last(seq)[1] /\ longer[n][2] = Last(seq)[2]
                      /\ longer[n][3] + len = Last(seq)[3] + n /\ longer[n][3] \in Nat
    OBVIOUS
  <2>1. CASE n \in 1..len
    BY <1>1, <1>3, <2>1
  <2>2. CASE n = len + 1
    <3>1. Last(seq)[3] + 1 + len = Last(seq)[3] + (len + 1)
      <4>1. len \in Nat /\ Last(seq)[3] \in Nat
        BY <1>1, <1>2
      <4> HIDE DEF len
      <4> QED
        BY <4>1
    <3> QED
      BY <1>1, <1>2, <2>2, <3>1
  <2> QED
    BY <1>1, <2>1, <2>2
<1>5. Run(longer)
  <2> SUFFICES ASSUME NEW m \in 1..len + 1, NEW n \in 1..len + 1
               PROVE  /\ longer[n][1] = longer[m][1] /\ longer[n][2] = longer[m][2]
                      /\ longer[n][3] + m = longer[m][3] + n
    BY <1>1 DEF Run
  <2>1. /\ longer[n][3] \in Nat /\ longer[m][3] \in Nat
        /\ longer[n][3] + len = Last(seq)[3] + n /\ longer[m][3] + len = Last(seq)[3] + m
        /\ longer[n][1] = longer[m][1] /\ longer[n][2] = longer[m][2]
    BY <1>4
  <2>2. len \in Nat /\ Last(seq)[3] \in Nat /\ m \in Nat /\ n \in Nat
    BY <1>1, <1>2
  <2>3. longer[n][3] + m = longer[m][3] + n
    <3> DEFINE a == longer[n][3]
               b == longer[m][3]
               c == Last(seq)[3]
    <3>1. a \in Nat /\ b \in Nat /\ c \in Nat /\ a + len = c + n /\ b + len = c + m
      BY <2>1, <2>2
    <3> HIDE DEF a, b, c, len
    <3>2. a + m = b + n
      BY <2>2, <3>1
    <3> QED
      BY <3>2 DEF a, b
  <2> QED
    BY <2>1, <2>3
<1> QED
  BY <1>1, <1>5 DEF longer

(* The host begins a message where it has ended one. *)
LEMMA StartsFacts ==
    ASSUME TypeInv, HostStarts
    PROVE  /\ UNCHANGED <<bus, urb, heard, device, moved>>
           /\ message'.number = message.number + 1 /\ message'.sent = 0 /\ Unfinished'
           /\ ~Unfinished /\ state = "configured"
           /\ \A byte \in HostByte : LinkedTo(byte) => LinkedTo(byte)'
           /\ \A byte \in HostByte :
                 byte[2] <= message.number => EndsMessage(byte)' /\ byte[2] <= message'.number
<1>1. /\ UNCHANGED <<bus, urb, heard, device, moved>>
      /\ message'.number = message.number + 1 /\ message'.sent = 0 /\ Unfinished'
      /\ ~Unfinished /\ state = "configured"
  BY Bounds DEF HostStarts, Unfinished
<1>2. connection' = connection
  BY <1>1 DEF bus
<1>3. \A byte \in HostByte : LinkedTo(byte) => LinkedTo(byte)'
  BY <1>1, <1>2, ByteTyped, MessageTyped DEF TypeInv, LinkedTo, Unfinished
<1>4. \A byte \in HostByte :
         byte[2] <= message.number => EndsMessage(byte)' /\ byte[2] <= message'.number
  BY <1>1, ByteTyped, MessageTyped DEF TypeInv, EndsMessage
<1> QED
  BY <1>1, <1>3, <1>4

(* In a run of bytes each follows the one before. *)
LEMMA RunFollows ==
    ASSUME NEW seq, NEW n \in Nat, Run(seq), n \in DOMAIN seq, n + 1 \in DOMAIN seq,
           seq[n] \in HostByte, seq[n + 1] \in HostByte
    PROVE  Follows(seq[n + 1], seq[n]) /\ seq[n + 1][2] = seq[n][2]
<1>1. /\ seq[n + 1][1] = seq[n][1] /\ seq[n + 1][2] = seq[n][2]
      /\ seq[n + 1][3] + n = seq[n][3] + (n + 1)
  BY DEF Run
<1>2. seq[n][3] \in Nat /\ seq[n + 1][3] \in Nat
  BY ByteTyped
<1>3. seq[n + 1][3] = seq[n][3] + 1
  BY <1>1, <1>2
<1>4. seq[n + 1] = <<seq[n + 1][1], seq[n + 1][2], seq[n + 1][3]>>
  BY DEF HostByte
<1> QED
  BY <1>1, <1>3, <1>4 DEF Follows

LEMMA ReadPreserved == TypeInv /\ CallInv /\ ReadInv /\ [Next]_vars => ReadInv'
<1> SUFFICES ASSUME TypeInv, CallInv, ReadInv, [Next]_vars, Reading' PROVE ReadInv'
  BY DEF ReadInv
<1> USE DEF bus, host, device
<1>0. StateType /\ HostType /\ BufferType
  BY DEF TypeInv
<1>1. CASE Suspend \/ Resume \/ ChunkTimesOut \/ LookAtState \/ UNCHANGED vars
  <2>1. /\ UNCHANGED <<connection, urb, message, call, buffer, transferredSize>>
        /\ Busy' => Busy
        /\ Returned' => Returned
        /\ pc' = "post" => pc = "post"
        /\ state' # "detached" => state # "detached"
    BY <1>1 DEF Suspend, Resume, ChunkTimesOut, LookAtState, vars, Busy, InUrb, Returned, CallInv
  <2> QED
    BY <2>1 DEF ReadInv, ReadBegun, ReadRuns, ReadLinked, ReadEnded, Reading, Taken, Posted,
                Unfinished, LinkedTo, EndsMessage, Run, Piece
<1>2. CASE Attach
  <2>1. /\ UNCHANGED <<urb, message, pc, call, buffer, transferredSize>>
        /\ ~Taken /\ pc # "post"
    BY <1>2 DEF Attach, BetweenChunks, Taken, CallInv, Posted
  <2> QED
    BY <2>1 DEF ReadInv, ReadBegun, ReadRuns, ReadLinked, ReadEnded, Reading, Taken, Posted,
                Busy, InUrb, Returned, Unfinished, EndsMessage, Run, Piece
<1>3. CASE HostStarts
  <2>1. UNCHANGED <<state, urb, pc, call, buffer, transferredSize>>
    BY <1>3 DEF HostStarts
  <2>2. /\ Reading /\ (Busy' <=> Busy) /\ (Returned' <=> Returned)
        /\ (Taken' <=> Taken) /\ (Posted' <=> Posted)
    BY <2>1 DEF Reading, Busy, InUrb, Returned, Taken, Posted
  <2>3. ReadBegun /\ ReadRuns /\ ReadLinked /\ ReadEnded
    BY <2>2 DEF ReadInv
  <2>4. ReadBegun'
    BY <1>0, <1>3, <2>1, <2>2, <2>3, ReadTyped, StartsFacts DEF ReadBegun
  <2>5. ReadRuns'
    BY <2>1, <2>2, <2>3 DEF ReadRuns, Run, Follows
  <2>6. ReadLinked'
    BY <1>0, <1>3, <2>1, <2>2, <2>3, ReadTyped, StartsFacts DEF ReadLinked
  <2>7. ReadEnded'
    <3>1. urb.status = "done" /\ Len(urb.bytes) < urb.size => EndsMessage(Last(urb.bytes))'
      BY <1>0, <1>3, <2>2, <2>3, ReadTyped, StartsFacts DEF ReadBegun, CallInv
    <3>2. Returned => Piece(buffer)'
      BY <2>1, <2>3 DEF Piece, Follows, ReadEnded
    <3>3. Returned => EndsMessage(Last(buffer))'
      BY <1>0, <1>3, <2>2, <2>3, ReadTyped, StartsFacts DEF ReadBegun, Returned, CallInv
    <3> QED
      BY <2>1, <2>2, <3>1, <3>2, <3>3 DEF ReadEnded
  <2> QED
    BY <2>4, <2>5, <2>6, <2>7 DEF ReadInv
<1>4. CASE HostHears
  BY <1>4 DEF HostHears, Reading
<1>5. CASE Detach
  <2>1. UNCHANGED <<pc, call, buffer, transferredSize>> /\ state' = "detached"
    BY <1>5 DEF Detach
  <2>2. /\ Reading /\ (Busy' <=> Busy) /\ (Returned' <=> Returned) /\ ~Posted'
        /\ urb'.status = "done" => urb.status = "done"
        /\ \A byte : EndsMessage(byte)'
    BY <1>5, <2>1, DetachFacts DEF Reading, Busy, InUrb, Returned, Posted, EndsMessage, Unfinished
  <2>3. ReadBegun /\ ReadRuns /\ ReadLinked /\ ReadEnded
    BY <2>2 DEF ReadInv
  <2>4. ReadBegun'
    BY <1>5, <2>1, <2>2, <2>3, DetachFacts DEF ReadBegun
  <2>5. ReadRuns'
    BY <1>5, <2>1, <2>2, <2>3, DetachFacts DEF ReadRuns, Run, Follows
  <2>6. ReadLinked' /\ ReadEnded'
    BY <2>1, <2>2, <2>3 DEF ReadLinked, ReadEnded, Piece, Follows
  <2> QED
    BY <2>4, <2>5, <2>6 DEF ReadInv
<1>6. CASE Transfer \/ BeReady
  <2>1. buffer' = <<>> /\ urb' = NoUrb /\ ~Returned'
    BY <1>6 DEF Transfer, BeReady, Rewound, CallInv, InUrb, Returned
  <2> QED
    BY <2>1 DEF ReadInv, ReadBegun, ReadRuns, ReadLinked, ReadEnded, Taken, Posted, NoUrb, Run
<1>7. CASE NotReady \/ ChunkAborted \/ CancelChunk \/ (PostChunk /\ Fail)
  <2>1. pc' = "failed" /\ urb' = NoUrb
    BY <1>7 DEF NotReady, ChunkAborted, CancelChunk, Fail
  <2> QED
    BY <2>1 DEF ReadInv, ReadBegun, ReadRuns, ReadLinked, ReadEnded, Taken, Posted, NoUrb,
                Busy, InUrb, Returned
<1>8. CASE PostChunk /\ ~Fail
  <2>1. /\ UNCHANGED <<state, connection, message, call, buffer, transferredSize>>
        /\ urb' = [size |-> Chunk, bytes |-> <<>>, status |-> "posted"] /\ pc' = "wait" /\ pc = "post"
    BY <1>8 DEF PostChunk
  <2>2. urb'.bytes = <<>> /\ Reading /\ ~Returned' /\ urb'.status = "posted" /\ Busy
    BY <2>1 DEF Reading, Returned, Busy
  <2>3. ReadBegun /\ ReadRuns /\ ReadLinked
    BY <2>2 DEF ReadInv
  <2>4. ReadBegun' /\ ReadRuns'
    BY <2>1, <2>2, <2>3 DEF ReadBegun, ReadRuns, Run
  <2>5. ReadLinked'
    <3>1. urb.bytes = <<>>
      BY <2>1 DEF CallInv, InUrb, NoUrb
    <3> QED
      BY <2>1, <2>2, <2>3, <3>1 DEF ReadLinked, LinkedTo, Unfinished
  <2>6. ReadEnded'
    BY <2>2 DEF ReadEnded
  <2> QED
    BY <2>4, <2>5, <2>6 DEF ReadInv
<1>9. CASE HostSends
  <2>1. /\ UNCHANGED <<state, connection, pc, call, buffer, transferredSize>>
        /\ Reading /\ Posted /\ Unfinished
    BY <1>9 DEF HostSends
  <2>2. Busy /\ ~Returned' /\ (Busy' <=> Busy) /\ Taken /\ state # "detached"
    BY <2>1 DEF Busy, InUrb, Returned, CallInv, Posted, Taken
  <2>3. ReadBegun /\ ReadRuns /\ ReadLinked
    BY <2>1 DEF ReadInv
  <2>4. /\ urb'.bytes # <<>> /\ Last(urb'.bytes) = NextSent
        /\ DOMAIN urb'.bytes = 1..Len(urb.bytes) + 1
        /\ DOMAIN urb.bytes = 1..Len(urb.bytes) /\ Len(urb.bytes) \in Nat
        /\ DOMAIN buffer = 1..Len(buffer) /\ Len(buffer) \in Nat
    BY <1>0, <1>9, <2>1, SendsFacts, ReadTyped DEF Last
  <2>5. NextSent[1] = connection /\ NextSent[2] = message.number /\ NextSent[3] = message.sent + 1
    BY DEF NextSent
  <2>6. ReadBegun'
    <3>1. \A n \in 1..Len(urb.bytes) + 1 : urb'.bytes[n][2] <= message.number
      <4>1. \A n \in 1..Len(urb.bytes) : urb'.bytes[n] = urb.bytes[n]
            /\ urb.bytes[n][2] <= message.number
        BY <1>9, <2>3, <2>4, SendsFacts DEF ReadBegun
      <4>2. urb'.bytes[Len(urb.bytes) + 1][2] = message.number /\ message.number \in Nat
        BY <1>0, <1>9, <2>5, SendsFacts, MessageTyped
      <4>3. message.number <= message.number
        BY <4>2
      <4>4. ASSUME NEW n \in 1..Len(urb.bytes) + 1
            PROVE  n \in 1..Len(urb.bytes) \/ n = Len(urb.bytes) + 1
        BY <2>4
      <4> QED
        BY <4>1, <4>2, <4>3, <4>4
    <3>2. message'.number = message.number
      BY <1>9, SendsFacts
    <3> QED
      BY <2>1, <2>2, <2>3, <2>4, <3>1, <3>2 DEF ReadBegun
  <2>7. ReadRuns'
    <3>1. CASE urb.bytes = <<>>
      <4>1. Len(urb.bytes) = 0 /\ urb'.bytes[1] = NextSent
        BY <1>9, <3>1, SendsFacts
      <4>2. Run(urb'.bytes)
        BY <2>4, <4>1 DEF Run
      <4>3. buffer # <<>> => Follows(NextSent, Last(buffer))
        <5> SUFFICES ASSUME buffer # <<>> PROVE Follows(NextSent, Last(buffer))
          OBVIOUS
        <5>1. LinkedTo(Last(buffer)) /\ Last(buffer) \in HostByte
          BY <1>0, <2>1, <2>2, <2>3, <3>1, ReadTyped DEF ReadLinked
        <5> QED
          BY <1>0, <5>1, ByteTyped, MessageTyped DEF LinkedTo, Follows, NextSent
      <4> QED
        BY <2>1, <2>2, <2>3, <4>1, <4>2, <4>3 DEF ReadRuns, Run
    <3>2. CASE urb.bytes # <<>>
      <4>1. /\ LinkedTo(Last(urb.bytes)) /\ message.sent > 0 /\ Run(urb.bytes)
            /\ Last(urb.bytes) = urb.bytes[Len(urb.bytes)] /\ Len(urb.bytes) \in DOMAIN urb.bytes
            /\ Last(urb.bytes) \in HostByte
        BY <1>0, <2>1, <2>2, <2>3, <3>2, ReadTyped DEF ReadLinked, ReadRuns
      <4>2. NextSent = <<Last(urb.bytes)[1], Last(urb.bytes)[2], Last(urb.bytes)[3] + 1>>
        BY <1>0, <4>1, MessageTyped, ByteTyped DEF LinkedTo, NextSent
      <4>3. Run(urb'.bytes) /\ urb'.bytes[1] = urb.bytes[1]
        <5>1. urb.bytes \in Seq(HostByte) /\ NextSent \in HostByte
              /\ urb'.bytes = Append(urb.bytes, NextSent)
          BY <1>0, <1>9, <2>1, SendsFacts, ReadTyped
        <5> QED
          BY <3>2, <4>1, <4>2, <5>1, RunAppend
      <4> QED
        BY <2>1, <2>2, <2>3, <3>2, <4>3 DEF ReadRuns, Run
    <3> QED
      BY <3>1, <3>2
  <2>8. ReadLinked'
    <3>1. \A byte : byte = NextSent => LinkedTo(byte)'
      BY <1>9, <2>1, <2>5, SendsFacts DEF LinkedTo
    <3>2. urb'.status = "posted" => Unfinished' /\ message'.sent > 0
      BY <1>0, <1>9, <2>1, SendsFacts, MessageTyped DEF Unfinished
    <3> QED
      BY <2>4, <3>1, <3>2 DEF ReadLinked, Posted
  <2>9. ReadEnded'
    <3>1. urb'.status = "done" /\ Len(urb'.bytes) < urb'.size => ~Unfinished'
      BY <1>0, <1>9, SendsFacts, MessageTyped DEF Unfinished
    <3> QED
      BY <2>2, <3>1 DEF ReadEnded, EndsMessage
  <2> QED
    BY <2>6, <2>7, <2>8, <2>9 DEF ReadInv
<1>10. CASE ChunkDone
  <2>1. /\ UNCHANGED <<state, connection, message, call>> /\ Reading /\ urb' = NoUrb
        /\ urb.status = "done" /\ Busy /\ buffer' = buffer \o urb.bytes /\ pc = "wait"
    BY <1>10 DEF ChunkDone, Reading, Busy, InUrb
  <2>2. ReadBegun /\ ReadRuns /\ ReadLinked /\ ReadEnded
    BY <2>1 DEF ReadInv
  <2>3. /\ urb'.bytes = <<>> /\ urb'.status = "none" /\ urb.bytes # <<>>
        /\ Len(urb.bytes) > 0 /\ Len(urb.bytes) \in Nat /\ Len(buffer) \in Nat
        /\ Len(buffer') = Len(buffer) + Len(urb.bytes) /\ DOMAIN buffer' = 1..Len(buffer')
        /\ \A n \in 1..Len(buffer) : buffer'[n] = buffer[n]
        /\ \A n \in 1..Len(urb.bytes) : buffer'[Len(buffer) + n] = urb.bytes[n]
        /\ \A n \in Len(buffer) + 1..Len(buffer') : buffer'[n] = urb.bytes[n - Len(buffer)]
        /\ buffer' # <<>> /\ Last(buffer') = Last(urb.bytes)
    BY <1>0, <2>1, ReadTyped DEF CallInv, NoUrb, Last
  <2>4. \A n \in DOMAIN buffer' : buffer'[n][2] <= message'.number
    <3>1. DOMAIN buffer = 1..Len(buffer) /\ DOMAIN urb.bytes = 1..Len(urb.bytes)
      BY <1>0, <2>1, ReadTyped
    <3>2. \A n \in 1..Len(buffer) : buffer'[n][2] <= message'.number
      BY <2>1, <2>2, <2>3, <3>1 DEF ReadBegun
    <3>3. \A n \in Len(buffer) + 1..Len(buffer') : buffer'[n][2] <= message'.number
      <4> SUFFICES ASSUME NEW n \in Len(buffer) + 1..Len(buffer') PROVE buffer'[n][2] <= message'.number
        OBVIOUS
      <4>1. n - Len(buffer) \in 1..Len(urb.bytes)
        BY <2>3
      <4> QED
        BY <2>1, <2>2, <2>3, <3>1, <4>1 DEF ReadBegun
    <3> QED
      BY <2>3, <3>2, <3>3
  <2>5. ReadBegun'
    BY <2>3, <2>4 DEF ReadBegun
  <2>6. CASE EndsCall(buffer')
    <3>1. pc' = "idle" /\ transferredSize' = Len(buffer') /\ ~Busy'
      BY <1>10, <2>6 DEF ChunkDone, Busy, InUrb
    <3>2. Piece(buffer)'
      <4> SUFFICES ASSUME NEW n \in 1..Len(buffer') - 1
                   PROVE  /\ Follows(buffer'[n + 1], buffer'[n])
                          /\ buffer'[n + 1][2] # buffer'[n][2] => n = call.lead
        BY <2>1 DEF Piece
      <4>1. /\ n \in Nat /\ n + 1 \in Nat /\ DOMAIN buffer = 1..Len(buffer)
            /\ DOMAIN urb.bytes = 1..Len(urb.bytes) /\ Run(buffer) /\ Run(urb.bytes)
            /\ \A k \in DOMAIN buffer : buffer[k] \in HostByte
            /\ \A k \in DOMAIN urb.bytes : urb.bytes[k] \in HostByte
        BY <1>0, <2>1, <2>2, <2>3, ReadTyped DEF ReadRuns
      <4>2. CASE n + 1 \in 1..Len(buffer)
        <5>1. n \in 1..Len(buffer) /\ buffer'[n] = buffer[n] /\ buffer'[n + 1] = buffer[n + 1]
          BY <2>3, <4>1, <4>2
        <5>2. n \in DOMAIN buffer /\ n + 1 \in DOMAIN buffer
          BY <4>1, <4>2, <5>1
        <5>3. Follows(buffer[n + 1], buffer[n]) /\ buffer[n + 1][2] = buffer[n][2]
          BY <4>1, <5>2, RunFollows
        <5> QED
          BY <5>1, <5>3
      <4>3. CASE n \in Len(buffer) + 1..Len(buffer')
        <5> DEFINE place == n - Len(buffer)
        <5>1. place \in 1..Len(urb.bytes) /\ place + 1 \in 1..Len(urb.bytes)
              /\ buffer'[n] = urb.bytes[place] /\ buffer'[n + 1] = urb.bytes[place + 1]
          <6>1. place \in 1..Len(urb.bytes) /\ place + 1 \in 1..Len(urb.bytes) /\ n = Len(buffer) + place
                /\ n + 1 = Len(buffer) + (place + 1)
            BY <2>3, <4>1, <4>3
          <6> HIDE DEF place
          <6> QED
            BY <2>3, <6>1
        <5> HIDE DEF place
        <5>2. place \in DOMAIN urb.bytes /\ place + 1 \in DOMAIN urb.bytes /\ place \in Nat
          BY <2>3, <4>1, <5>1
        <5>3. urb.bytes[place] \in HostByte /\ urb.bytes[place + 1] \in HostByte
          BY <4>1, <5>2
        <5>4. Follows(urb.bytes[place + 1], urb.bytes[place]) /\ urb.bytes[place + 1][2] = urb.bytes[place][2]
          BY <4>1, <5>2, <5>3, RunFollows
        <5> QED
          BY <5>1, <5>4
      <4>4. CASE n = Len(buffer)
        <5>1. buffer # <<>> /\ buffer'[n] = Last(buffer) /\ buffer'[n + 1] = urb.bytes[1]
          BY <1>0, <2>1, <2>3, <4>4, ReadTyped
        <5>2. Len(buffer) = call.lead
          BY <2>1, <5>1 DEF CallInv
        <5>3. Follows(urb.bytes[1], Last(buffer))
          BY <2>2, <2>3, <5>1 DEF ReadRuns
        <5> QED
          BY <4>4, <5>1, <5>2, <5>3
      <4>5. Len(buffer) \in Nat /\ Len(buffer') \in Nat
        BY <2>3
      <4>6. n + 1 \in 1..Len(buffer) \/ n \in Len(buffer) + 1..Len(buffer') \/ n = Len(buffer)
        BY <4>5
      <4> QED
        BY <4>2, <4>3, <4>4, <4>6
    <3>3. transferredSize' < call'.size => EndsMessage(Last(buffer))'
      <4> SUFFICES ASSUME Len(buffer') < call.size PROVE EndsMessage(Last(buffer))'
        BY <2>1, <3>1
      <4>1. Len(urb.bytes) < urb.size
        BY <1>0, <2>3, <2>6, CallTyped DEF EndsCall
      <4> QED
        BY <2>1, <2>2, <2>3, <4>1 DEF ReadEnded, EndsMessage, Unfinished
    <3>4. ReadRuns' /\ ReadLinked'
      BY <2>3, <3>1 DEF ReadRuns, ReadLinked, Taken, Posted, Busy, InUrb
    <3> QED
      BY <2>3, <2>5, <3>2, <3>3, <3>4 DEF ReadInv, ReadEnded
  <2>7. CASE ~EndsCall(buffer')
    <3>1. pc' = "post"
      BY <1>10, <2>7 DEF ChunkDone
    <3>2. buffer = <<>> /\ buffer' = urb.bytes
      <4>1. Len(buffer) + Len(urb.bytes) # call.size /\ Len(urb.bytes) = Chunk
        BY <1>0, <2>1, <2>3, <2>7, ReadTyped DEF EndsCall, CallInv, InUrb
      <4>2. buffer = <<>>
        BY <1>0, <2>1, <2>3, <4>1, ChunkTyped, CallTyped
      <4> QED
        BY <1>0, <2>1, <4>2, ReadTyped
    <3>3. ReadRuns'
      BY <2>1, <2>2, <2>3, <3>2 DEF ReadRuns, Run
    <3>4. ReadLinked'
      BY <2>1, <2>2, <2>3, <3>1, <3>2 DEF ReadLinked, Taken, Posted, LinkedTo, Unfinished
    <3>5. ReadEnded'
      BY <2>3, <3>1 DEF ReadEnded, Returned
    <3> QED
      BY <2>5, <3>3, <3>4, <3>5 DEF ReadInv
  <2> QED
    BY <2>6, <2>7
<1> QED
  BY <1>1, <1>2, <1>3, <1>4, <1>5, <1>6, <1>7, <1>8, <1>9, <1>10 DEF Next, TransferStep, PostChunk, Fail

-----------------------------------------------------------------------------
(* Writes. *)

(* A host that has heard nothing, has heard nothing of this call. *)
LEMMA SilenceHeard == heard = <<>> => HeardOfCall(0)
BY DEF HeardOfCall

LEMMA SilenceHeardNext == heard' = <<>> => HeardOfCall(0)'
BY DEF HeardOfCall

(* One more byte of this call. *)
LEMMA HeardOneMore ==
    ASSUME heard \in Seq(DeviceByte), calls \in Nat, NEW k \in Nat, HeardOfCall(k),
           heard' = Append(heard, <<calls, k + 1>>), calls' = calls
    PROVE  HeardOfCall(k + 1)'
<1>1. PICK start \in 0..Len(heard) :
         /\ Len(heard) = start + k
         /\ \A n \in DOMAIN heard : heard[n][1] = calls <=> n > start
         /\ \A n \in DOMAIN heard : n > start => heard[n][2] = n - start
  BY DEF HeardOfCall
<1>2. /\ Len(heard) \in Nat /\ Len(heard') = Len(heard) + 1
      /\ DOMAIN heard = 1..Len(heard) /\ DOMAIN heard' = 1..Len(heard) + 1
      /\ \A n \in 1..Len(heard) : heard'[n] = heard[n]
      /\ heard'[Len(heard) + 1] = <<calls, k + 1>>
  OBVIOUS
<1>3. start \in 0..Len(heard') /\ Len(heard') = start + (k + 1)
  BY <1>1, <1>2
<1>4. ASSUME NEW n \in DOMAIN heard'
      PROVE  (heard'[n][1] = calls <=> n > start) /\ (n > start => heard'[n][2] = n - start)
  <2>1. CASE n \in 1..Len(heard)
    BY <1>1, <1>2, <2>1
  <2>2. CASE n = Len(heard) + 1
    <3>1. n > start /\ n - start = k + 1
      BY <1>1, <1>2, <2>2
    <3> QED
      BY <1>2, <2>2, <3>1
  <2> QED
    BY <1>2, <1>4, <2>1, <2>2
<1> QED
  BY <1>3, <1>4 DEF HeardOfCall

(* A new call has not been heard yet. *)
LEMMA HeardNoneYet ==
    ASSUME heard \in Seq(DeviceByte), calls \in Nat,
           \A n \in DOMAIN heard : heard[n][1] <= calls,
           heard' = heard, calls' = calls + 1
    PROVE  HeardOfCall(0)'
<1>1. Len(heard) \in 0..Len(heard) /\ Len(heard) = Len(heard) + 0 /\ DOMAIN heard = 1..Len(heard)
  OBVIOUS
<1>2. \A n \in DOMAIN heard : heard[n][1] # calls + 1 /\ ~(n > Len(heard))
  <2> SUFFICES ASSUME NEW n \in DOMAIN heard PROVE heard[n][1] # calls + 1 /\ ~(n > Len(heard))
    OBVIOUS
  <2>1. heard[n] \in DeviceByte
    OBVIOUS
  <2>2. heard[n][1] \in Nat /\ heard[n][1] <= calls
    BY <2>1 DEF DeviceByte
  <2> QED
    BY <1>1, <2>2
<1> QED
  BY <1>1, <1>2 DEF HeardOfCall

LEMMA HeardPreserved == TypeInv /\ CallInv /\ HeardInv /\ [Next]_vars => HeardInv'
<1> SUFFICES ASSUME TypeInv, CallInv, HeardInv, [Next]_vars PROVE HeardInv'
  OBVIOUS
<1> USE DEF bus, host, device
<1>1. calls \in Nat /\ heard \in Seq(DeviceByte)
  BY Bounds DEF TypeInv, StateType, HostType
<1>2. CASE HostHears
  <2>1. /\ heard' = Append(heard, NextHeard) /\ NextHeard[1] = calls /\ NextHeard \in DeviceByte
        /\ calls' = calls /\ state' = "configured"
    BY <1>2, HearsFacts DEF HostHears, NextHeard
  <2>2. /\ DOMAIN heard' = 1..Len(heard) + 1 /\ DOMAIN heard = 1..Len(heard) /\ Len(heard) \in Nat
        /\ \A n \in 1..Len(heard) : heard'[n] = heard[n]
        /\ heard'[Len(heard) + 1] = NextHeard
    BY <1>1, <2>1
  <2>3. \A n \in DOMAIN heard' : heard'[n][1] <= calls
    BY <1>1, <2>1, <2>2 DEF HeardInv
  <2> QED
    BY <2>1, <2>3 DEF HeardInv
<1>3. CASE Detach
  BY <1>3 DEF Detach, HeardInv
<1>4. CASE Transfer
  <2>1. heard' = heard /\ calls' = calls + 1 /\ state' = state
    BY <1>4 DEF Transfer
  <2>2. \A n \in DOMAIN heard : heard[n] \in DeviceByte /\ heard[n][1] \in Nat
    BY <1>1 DEF DeviceByte
  <2> QED
    BY <1>1, <2>1, <2>2 DEF HeardInv
<1>5. CASE UNCHANGED <<heard, calls>> /\ (state' = "detached" => state = "detached")
  BY <1>5 DEF HeardInv
<1> QED
  BY <1>2, <1>3, <1>4, <1>5
  DEF Next, TransferStep, vars, HostStarts, HostSends, Attach, Suspend, Resume, BeReady, NotReady,
      PostChunk, ChunkDone, ChunkAborted, ChunkTimesOut, CancelChunk, LookAtState

LEMMA WritePreserved == TypeInv /\ CallInv /\ HeardInv /\ WriteInv /\ [Next]_vars => WriteInv'
<1> SUFFICES ASSUME TypeInv, CallInv, HeardInv, WriteInv, [Next]_vars, ~Reading' PROVE WriteInv'
  BY DEF WriteInv
<1> USE DEF bus, host, device
<1>0. StateType /\ HostType /\ BufferType /\ calls \in Nat /\ heard \in Seq(DeviceByte)
  BY Bounds DEF TypeInv, StateType, HostType
<1>1. UNCHANGED <<heard, calls>> => \A k : HeardOfCall(k) <=> HeardOfCall(k)'
  BY DEF HeardOfCall
<1>2. CASE HostStarts \/ Suspend \/ Resume \/ UNCHANGED vars
  <2>1. /\ UNCHANGED <<urb, heard, device>>
        /\ state' # "detached" => state # "detached"
    BY <1>2 DEF HostStarts, Suspend, Resume, vars
  <2> QED
    BY <1>1, <2>1 DEF WriteInv, Reading, Taken, Returned
<1>3. CASE HostHears
  <2>1. /\ UNCHANGED <<state, calls, pc, call, buffer, transferredSize>> /\ ~Reading
        /\ state # "detached" /\ pc = "wait" /\ Taken
    BY <1>3 DEF HostHears, CallInv, InUrb, Posted, Taken
  <2>2. HeardOfCall(Len(buffer) + Len(urb.bytes))
    BY <2>1 DEF WriteInv
  <2>3. Len(buffer) \in Nat /\ Len(urb.bytes) \in Nat /\ Len(urb'.bytes) = Len(urb.bytes) + 1
    BY <1>3, HearsFacts
  <2>4. PICK k \in Nat : k = Len(buffer) + Len(urb.bytes)
    BY <2>3
  <2>5. HeardOfCall(k) /\ heard' = Append(heard, <<calls, k + 1>>)
    BY <1>3, <2>2, <2>4, HearsFacts DEF NextHeard
  <2>6. HeardOfCall(k + 1)'
    BY <1>0, <2>1, <2>5, HeardOneMore
  <2>7. HeardOfCall(Len(buffer) + Len(urb.bytes))'
    <3>1. Len(buffer') + Len(urb'.bytes) = k + 1
      BY <2>1, <2>3, <2>4
    <3> QED
      BY <2>6, <3>1
  <2>8. urb'.status \in {"posted", "done"} /\ (urb'.status = "done" => Len(urb'.bytes) = urb'.size)
    BY <1>3, <2>3, HearsFacts
  <2> QED
    BY <2>1, <2>7, <2>8 DEF WriteInv, Returned
<1>4. CASE Detach
  <2>1. /\ UNCHANGED <<pc, call, buffer, transferredSize>> /\ state' = "detached" /\ HeardOfCall(0)'
    BY <1>4, SilenceHeardNext DEF Detach
  <2>2. urb'.status = "done" => urb'.bytes = urb.bytes /\ urb'.size = urb.size /\ urb.status = "done"
    BY <1>4, DetachFacts
  <2> QED
    BY <2>1, <2>2 DEF WriteInv, Reading, Returned
<1>5. CASE Attach
  <2>1. /\ UNCHANGED <<urb, pc, call, buffer, transferredSize, heard, calls>>
        /\ ~Taken /\ pc # "post"
    BY <1>5 DEF Attach, BetweenChunks, Taken, CallInv, Posted
  <2> QED
    BY <1>1, <2>1 DEF WriteInv, Reading, Taken, Returned
<1>6. CASE Transfer
  <2>1. /\ heard' = heard /\ calls' = calls + 1 /\ pc' = "ready" /\ urb' = NoUrb
    BY <1>6 DEF Transfer, CallInv, InUrb
  <2>2. HeardOfCall(0)'
    BY <1>0, <2>1, HeardNoneYet DEF HeardInv
  <2> QED
    BY <2>1, <2>2 DEF WriteInv, Taken, Returned, NoUrb
<1>7. CASE BeReady
  <2>1. /\ UNCHANGED <<state, heard, calls, call>> /\ pc = "ready" /\ pc' = "post" /\ buffer' = <<>>
        /\ urb' = NoUrb
    BY <1>7 DEF BeReady, Rewound, CallInv, InUrb
  <2>2. HeardOfCall(0)' /\ Len(buffer') + Len(urb'.bytes) = 0
    BY <1>1, <2>1 DEF WriteInv, Reading, NoUrb
  <2> QED
    BY <2>1, <2>2 DEF WriteInv, Taken, Returned, NoUrb
<1>8. CASE NotReady \/ CancelChunk \/ ChunkTimesOut
  BY <1>8 DEF NotReady, CancelChunk, ChunkTimesOut, HasTimeout, Reading, CallInv
<1>9. CASE PostChunk
  <2>1. /\ UNCHANGED <<state, heard, calls, call, buffer>> /\ pc = "post" /\ urb = NoUrb /\ ~Reading
        /\ state # "suspended"
    BY <1>9 DEF PostChunk, CallInv, InUrb, Reading
  <2>2. CASE state = "configured"
    <3>1. /\ urb'.bytes = <<>> /\ urb'.status = "posted" /\ pc' = "wait"
      BY <1>9, <2>2 DEF PostChunk
    <3>2. HeardOfCall(Len(buffer) + 0)'
      BY <1>1, <2>1, <2>2 DEF WriteInv, NoUrb
    <3> QED
      BY <2>1, <3>1, <3>2 DEF WriteInv, Returned
  <2>3. CASE state # "configured"
    <3>1. pc' = "failed" /\ urb' = NoUrb /\ heard' = <<>>
      BY <1>0, <1>9, <2>1, <2>3 DEF PostChunk, Fail, StateType, HeardInv
    <3> QED
      BY <3>1, SilenceHeardNext DEF WriteInv, NoUrb, Taken, Returned
  <2> QED
    BY <2>2, <2>3
<1>10. CASE ChunkDone
  <2>1. /\ UNCHANGED <<state, heard, calls, call>> /\ ~Reading /\ urb' = NoUrb /\ Taken
        /\ buffer' = buffer \o urb.bytes /\ Len(urb.bytes) = urb.size
    BY <1>10 DEF ChunkDone, Reading, WriteInv, Taken
  <2>2. Len(buffer') = Len(buffer) + Len(urb.bytes) /\ Len(buffer') \in Nat /\ Len(buffer') > 0
    <3>1. Len(urb.bytes) \in Nat /\ Len(buffer) \in Nat /\ Len(buffer') = Len(buffer) + Len(urb.bytes)
      <4>1. urb.bytes \in Seq(HostByte \cup DeviceByte) /\ buffer \in Seq(HostByte \cup DeviceByte)
        BY <1>0 DEF BufferType
      <4> QED
        BY <2>1, <4>1
    <3>2. Len(urb.bytes) # 0
      BY <1>0, <1>10 DEF ChunkDone, CallInv, BufferType
    <3> QED
      BY <3>1, <3>2
  <2>3. (state = "detached" /\ HeardOfCall(0)') \/ (state # "detached" /\ HeardOfCall(Len(buffer))')
    <3>1. CASE state = "detached"
      BY <2>1, <3>1, SilenceHeardNext DEF HeardInv
    <3>2. CASE state # "detached"
      <4>1. HeardOfCall(Len(buffer) + Len(urb.bytes))
        BY <2>1, <3>2 DEF WriteInv
      <4>2. HeardOfCall(Len(buffer'))
        BY <2>2, <4>1
      <4> QED
        BY <1>1, <2>1, <3>2, <4>2
    <3> QED
      BY <3>1, <3>2
  <2>4. CASE EndsCall(buffer')
    <3>1. Len(buffer') = call.size /\ pc' = "idle" /\ transferredSize' = call.size /\ Returned'
      BY <1>10, <2>1, <2>2, <2>4 DEF EndsCall, ChunkDone, Returned
    <3> QED
      BY <2>1, <2>2, <2>3, <3>1 DEF WriteInv, NoUrb, Taken
  <2>5. CASE ~EndsCall(buffer')
    <3>1. pc' = "post"
      BY <1>10, <2>5 DEF ChunkDone
    <3>2. Len(buffer') + Len(urb'.bytes) = Len(buffer')
      BY <2>1, <2>2 DEF NoUrb
    <3> QED
      BY <2>1, <2>2, <2>3, <3>1, <3>2 DEF WriteInv, NoUrb, Taken, Returned
  <2> QED
    BY <2>4, <2>5
<1>11. CASE ChunkAborted \/ LookAtState
  <2>1. UNCHANGED <<state, heard, calls, call, buffer>> /\ (urb.status = "aborted" \/ pc = "failed")
        /\ ~Reading /\ urb' = NoUrb /\ pc' \in {"failed", "ready", "idle"} /\ ~Returned'
    BY <1>11 DEF ChunkAborted, LookAtState, Fail, Reading, Returned, CallInv, InUrb
  <2>2. HeardOfCall(0)'
    BY <1>1, <2>1 DEF WriteInv
  <2> QED
    BY <2>1, <2>2 DEF WriteInv, NoUrb, Taken
<1>12. CASE HostSends
  BY <1>12 DEF HostSends, Reading
<1> QED
  BY <1>2, <1>3, <1>4, <1>5, <1>6, <1>7, <1>8, <1>9, <1>10, <1>11, <1>12 DEF Next, TransferStep

-----------------------------------------------------------------------------
(* What is lost. *)

(* No byte is twice in a run. *)
LEMMA RunCounted ==
    ASSUME NEW seq \in Seq(HostByte), Run(seq)
    PROVE  Cardinality(ToSet(seq)) = Len(seq)
<1>1. Len(seq) \in Nat /\ DOMAIN seq = 1..Len(seq) /\ seq \in [1..Len(seq) -> ToSet(seq)]
  BY DEF ToSet
<1>2. ASSUME NEW m \in 1..Len(seq), NEW n \in 1..Len(seq), seq[m] = seq[n]
      PROVE  m = n
  <2>1. seq[m] \in HostByte /\ seq[m][3] \in Nat
    BY <1>1, ByteTyped
  <2>2. seq[n][3] + m = seq[m][3] + n
    BY <1>1 DEF Run
  <2>3. seq[n][3] = seq[m][3]
    BY <1>2
  <2> QED
    BY <2>1, <2>2, <2>3
<1>3. seq \in Bijection(1..Len(seq), ToSet(seq))
  BY <1>1, <1>2 DEF Bijection, Injection, Surjection, IsInjective, ToSet
<1>4. ExistsBijection(1..Len(seq), ToSet(seq))
  BY <1>3 DEF ExistsBijection
<1> QED
  BY <1>1, <1>4, FS_CountingElements

LEMMA SetOfAppend ==
    ASSUME NEW S, NEW seq \in Seq(S), NEW next \in S
    PROVE  ToSet(Append(seq, next)) = ToSet(seq) \cup {next}
<1>1. /\ Len(seq) \in Nat /\ DOMAIN seq = 1..Len(seq)
      /\ DOMAIN Append(seq, next) = 1..Len(seq) + 1
      /\ \A n \in 1..Len(seq) : Append(seq, next)[n] = seq[n]
      /\ Append(seq, next)[Len(seq) + 1] = next
  OBVIOUS
<1> QED
  BY <1>1 DEF ToSet

LEMMA SetOfConcat ==
    ASSUME NEW S, NEW one \in Seq(S), NEW two \in Seq(S)
    PROVE  ToSet(one \o two) = ToSet(one) \cup ToSet(two)
<1> DEFINE both == one \o two
<1>1. /\ Len(one) \in Nat /\ DOMAIN one = 1..Len(one)
      /\ Len(two) \in Nat /\ DOMAIN two = 1..Len(two)
      /\ DOMAIN both = 1..Len(one) + Len(two)
      /\ \A n \in 1..Len(one) : both[n] = one[n]
      /\ \A n \in 1..Len(two) : both[Len(one) + n] = two[n]
  OBVIOUS
<1> HIDE DEF both
<1>2. ToSet(one) \subseteq ToSet(both)
  BY <1>1 DEF ToSet
<1>3. ToSet(two) \subseteq ToSet(both)
  <2> SUFFICES ASSUME NEW n \in DOMAIN two PROVE two[n] \in ToSet(both)
    BY DEF ToSet
  <2>1. Len(one) + n \in DOMAIN both /\ two[n] = both[Len(one) + n]
    BY <1>1
  <2> QED
    BY <2>1 DEF ToSet
<1>4. ToSet(both) \subseteq ToSet(one) \cup ToSet(two)
  <2> SUFFICES ASSUME NEW n \in DOMAIN both PROVE both[n] \in ToSet(one) \cup ToSet(two)
    BY DEF ToSet
  <2>1. CASE n \in 1..Len(one)
    BY <1>1, <2>1 DEF ToSet
  <2>2. CASE n \in Len(one) + 1..Len(one) + Len(two)
    <3>1. PICK m \in 1..Len(two) : n = Len(one) + m
      <4>1. n - Len(one) \in 1..Len(two) /\ n = Len(one) + (n - Len(one))
        BY <1>1, <2>2
      <4> QED
        BY <4>1
    <3> QED
      BY <1>1, <3>1 DEF ToSet
  <2> QED
    BY <1>1, <2>1, <2>2
<1> QED
  BY <1>2, <1>3, <1>4 DEF both

(* While the bus is suspended in a read, nothing or its first chunk has left  *)
(* the host.                                                                 *)
LEMMA SuspendedChunk ==
    ASSUME TypeInv, CallInv, ReadInv, Reading, InUrb, state = "suspended", moved = Got
    PROVE  OneChunk(Here)
<1>1. /\ Posted /\ urb.bytes = <<>> /\ Busy
      /\ buffer = <<>> \/ Len(buffer) = call.lead
  BY DEF CallInv, Busy
<1>2. moved = ToSet(buffer)
  BY <1>1 DEF Got, ToSet
<1>3. CASE buffer = <<>>
  BY <1>2, <1>3 DEF OneChunk, Here, ToSet
<1>4. CASE buffer # <<>>
  <2>1. /\ LinkedTo(Last(buffer)) /\ Run(buffer) /\ buffer \in Seq(HostByte)
        /\ Last(buffer) = buffer[Len(buffer)] /\ Len(buffer) \in DOMAIN buffer
    BY <1>1, <1>4, ReadTyped DEF ReadInv, ReadLinked, ReadRuns, Taken, Posted, TypeInv
  <2>2. \A n \in DOMAIN buffer : buffer[n][1] = connection
    BY <2>1 DEF LinkedTo, Run
  <2>3. Here = ToSet(buffer)
    BY <1>2, <2>2 DEF Here, ToSet
  <2> QED
    BY <1>1, <1>4, <2>1, <2>3, RunCounted DEF OneChunk
<1> QED
  BY <1>3, <1>4
LEMMA MovedPreserved == TypeInv /\ CallInv /\ MovedInv /\ [Next]_vars => MovedInv'
<1> SUFFICES ASSUME TypeInv, CallInv, MovedInv, [Next]_vars, Reading' PROVE MovedInv'
  BY DEF MovedInv
<1> USE DEF bus, host, device
<1>0. HostType /\ connection \in Nat /\ \A byte \in moved : byte \in HostByte
  BY DEF TypeInv, StateType, HostType
<1>1. CASE HostStarts
  <2>1. /\ UNCHANGED <<state, connection, moved>> /\ Reading /\ state # "detached"
        /\ message'.number = message.number + 1
    BY <1>1, StartsFacts DEF Reading
  <2>2. \A byte \in Here : byte[2] < message'.number
    <3> SUFFICES ASSUME NEW byte \in Here PROVE byte[2] < message'.number
      OBVIOUS
    <3>1. byte[2] \in Nat /\ message.number \in Nat
      BY <1>0, ByteTyped, MessageTyped DEF Here
    <3> QED
      BY <2>1, <3>1 DEF MovedInv
  <2> QED
    BY <2>1, <2>2 DEF MovedInv, Here
<1>2. CASE HostSends
  <2>1. /\ UNCHANGED <<state, connection>> /\ Reading /\ state # "detached"
        /\ message'.number = message.number /\ message'.sent = message.sent + 1
        /\ moved' = moved \cup {NextSent}
    BY <1>2, SendsFacts DEF HostSends
  <2>2. NextSent[1] = connection /\ NextSent[2] = message.number /\ NextSent[3] = message'.sent
    BY <2>1 DEF NextSent
  <2>3. \A byte \in moved' : byte[1] <= connection
    BY <1>0, <2>1, <2>2 DEF MovedInv
  <2>4. \A byte \in Here : byte[2] < message.number \/ (byte[2] = message.number /\ byte[3] <= message'.sent)
    <3> SUFFICES ASSUME NEW byte \in Here
                 PROVE  byte[2] < message.number \/ (byte[2] = message.number /\ byte[3] <= message'.sent)
      OBVIOUS
    <3>1. byte[3] \in Nat /\ message.sent \in Nat
      BY <1>0, ByteTyped, MessageTyped DEF Here
    <3> QED
      BY <2>1, <3>1 DEF MovedInv
  <2>5. message'.sent <= message'.sent
    BY <1>0, <2>1, MessageTyped
  <2> QED
    BY <2>1, <2>2, <2>3, <2>4, <2>5 DEF MovedInv, Here
<1>3. CASE Detach
  BY <1>3 DEF Detach, MovedInv, Reading
<1>4. CASE Attach
  <2>1. connection' = connection + 1 /\ UNCHANGED <<moved, call>>
    BY <1>4 DEF Attach
  <2>2. \A byte \in moved : byte[1] <= connection' /\ byte[1] # connection'
    <3> SUFFICES ASSUME NEW byte \in moved PROVE byte[1] <= connection' /\ byte[1] # connection'
      OBVIOUS
    <3>1. byte[1] \in Nat /\ byte[1] <= connection
      BY <1>0, <2>1, ByteTyped DEF MovedInv, Reading
    <3> QED
      BY <1>0, <2>1, <3>1
  <2> QED
    BY <2>1, <2>2 DEF MovedInv, Here
<1>5. CASE Transfer
  BY <1>5 DEF Transfer, MovedInv, Here
<1>6. CASE UNCHANGED <<connection, message, moved, call>> /\ (state' # "detached" => state # "detached")
  BY <1>6 DEF MovedInv, Here, Reading
<1> QED
  BY <1>1, <1>2, <1>3, <1>4, <1>5, <1>6
  DEF Next, TransferStep, vars, HostHears, Suspend, Resume, BeReady, NotReady, PostChunk, ChunkDone,
      ChunkAborted, ChunkTimesOut, CancelChunk, LookAtState

(* A step that moves nothing between the host and the buffer loses nothing. *)
LEMMA LossKept ==
    ASSUME LossInv, Reading, UNCHANGED <<retried, moved, connection, call>>, Got' = Got,
           Busy' \/ Returned' => Busy \/ Returned,
           pc' = "ready" => pc = "ready" /\ (state' # "detached" => state # "detached"),
           pc' = "failed" => pc = "failed" /\ (state' = "suspended" => state = "suspended")
    PROVE  FirstAttempt' /\ SecondAttempt'
<1>1. (retried' <=> retried) /\ Here' = Here /\ Here' \ Got' = Here \ Got
  BY DEF Here
<1>2. FirstAttempt /\ SecondAttempt
  BY DEF LossInv
<1>3. FirstAttempt'
  BY <1>1, <1>2 DEF FirstAttempt, OneChunk
<1>4. SecondAttempt'
  BY <1>1, <1>2 DEF SecondAttempt, OneChunk
<1> QED
  BY <1>3, <1>4

LEMMA LossPreserved ==
    TypeInv /\ CallInv /\ ReadInv /\ MovedInv /\ LossInv /\ [Next]_vars => LossInv'
<1> SUFFICES ASSUME TypeInv, CallInv, ReadInv, MovedInv, LossInv, [Next]_vars, Reading'
             PROVE  LossInv'
  BY DEF LossInv
<1> USE DEF bus, host, device
<1>1. CASE HostStarts \/ Resume \/ ChunkTimesOut \/ UNCHANGED vars
  <2>1. UNCHANGED <<connection, moved, urb, call, retried, buffer, transferredSize>>
        /\ (pc' = pc \/ (pc = "wait" /\ pc' = "cancel"))
        /\ (state' = state \/ (state = "suspended" /\ state' = "configured"))
    BY <1>1 DEF HostStarts, Resume, ChunkTimesOut, vars
  <2> QED
    BY <2>1, LossKept DEF LossInv, Reading, Busy, InUrb, Returned, Got
<1>2. CASE Suspend
  <2>1. UNCHANGED <<connection, moved, urb, pc, call, retried, buffer, transferredSize>>
        /\ state # "detached" /\ pc # "failed"
    BY <1>2 DEF Suspend
  <2> QED
    BY <2>1, LossKept DEF LossInv, Reading, Busy, InUrb, Returned, Got
<1>3. CASE HostSends
  <2>1. /\ UNCHANGED <<state, connection, pc, call, retried, buffer, transferredSize>>
        /\ Reading /\ Busy /\ InUrb /\ state = "configured"
        /\ moved' = moved \cup {NextSent} /\ urb'.bytes = Append(urb.bytes, NextSent)
        /\ NextSent \in HostByte /\ urb.bytes \in Seq(HostByte)
    BY <1>3, SendsFacts, ReadTyped DEF HostSends, CallInv, Posted, Busy, InUrb, TypeInv
  <2>2. Got' = Got \cup {NextSent}
    BY <2>1, SetOfAppend DEF Got
  <2>3. NextSent \notin Here
    <3>1. message.number \in Nat /\ message.sent \in Nat
      BY MessageTyped DEF TypeInv
    <3>2. NextSent[2] = message.number /\ NextSent[3] = message.sent + 1
      BY DEF NextSent
    <3> QED
      BY <2>1, <3>1, <3>2 DEF MovedInv
  <2>4. Here' \ Got' = Here \ Got
    BY <2>1, <2>2, <2>3 DEF Here
  <2>5. FirstAttempt'
    BY <2>1, <2>2 DEF LossInv, FirstAttempt, Busy, InUrb, Returned
  <2>6. SecondAttempt'
    BY <2>1, <2>4 DEF LossInv, SecondAttempt, Busy, InUrb, Returned, OneChunk
  <2> QED
    BY <2>5, <2>6 DEF LossInv
<1>4. CASE HostHears
  BY <1>4 DEF HostHears, Reading
<1>5. CASE Detach
  <2>1. /\ UNCHANGED <<connection, moved, pc, call, retried, buffer, transferredSize>>
        /\ urb'.bytes = urb.bytes /\ state' = "detached"
    BY <1>5, DetachFacts DEF Detach
  <2> QED
    BY <2>1 DEF LossInv, FirstAttempt, SecondAttempt, Reading, Busy, InUrb, Returned, Here, Got,
                OneChunk
<1>6. CASE Attach
  <2>1. /\ UNCHANGED <<moved, urb, pc, call, retried, buffer, transferredSize>>
        /\ connection' = connection + 1 /\ state' = "configured" /\ connection \in Nat
    BY <1>6 DEF Attach, TypeInv, StateType
  <2>2. Here' = {}
    <3> SUFFICES ASSUME NEW byte \in moved PROVE byte[1] # connection'
      BY <2>1 DEF Here
    <3>1. byte[1] \in Nat /\ byte[1] <= connection
      BY <2>1, ByteTyped DEF MovedInv, Reading, TypeInv, HostType
    <3> QED
      BY <2>1, <3>1
  <2> QED
    BY <2>1, <2>2 DEF LossInv, FirstAttempt, SecondAttempt, Reading, Busy, InUrb, Returned, Got,
                      OneChunk
<1>7. CASE Transfer
  BY <1>7 DEF Transfer, LossInv, FirstAttempt, SecondAttempt, Busy, InUrb, Returned, Here, OneChunk
<1>8. CASE BeReady
  <2>1. /\ UNCHANGED <<connection, moved, call, retried, transferredSize>> /\ state = "configured"
        /\ pc = "ready" /\ pc' = "post" /\ buffer' = <<>> /\ urb'.bytes = <<>>
    BY <1>8 DEF BeReady, Rewound, CallInv, InUrb, NoUrb
  <2>2. Got' = {}
    BY <2>1 DEF Got, ToSet
  <2>3. (retried' <=> retried) /\ Here' = Here /\ Here' \ Got' = Here /\ Reading
    BY <2>1, <2>2 DEF Here, Reading
  <2>4. FirstAttempt' /\ SecondAttempt'
    BY <2>1, <2>2, <2>3 DEF LossInv, FirstAttempt, SecondAttempt, Returned, Here, OneChunk
  <2> QED
    BY <2>4 DEF LossInv
<1>9. CASE NotReady \/ ChunkAborted \/ CancelChunk \/ (PostChunk /\ Fail)
  <2>1. /\ UNCHANGED <<state, connection, moved, call, retried>> /\ pc' = "failed"
        /\ pc \in {"ready", "post", "wait", "cancel"} /\ Reading
    BY <1>9 DEF NotReady, ChunkAborted, CancelChunk, PostChunk, Fail, Reading
  <2>2. ~retried /\ state = "suspended" => OneChunk(Here)
    <3> SUFFICES ASSUME ~retried, state = "suspended" PROVE OneChunk(Here)
      OBVIOUS
    <3>1. CASE pc = "ready"
      BY <2>1, <3>1 DEF LossInv, FirstAttempt, OneChunk, Here
    <3>2. CASE pc # "ready"
      <4>1. InUrb
        BY <2>1, <3>2 DEF CallInv, InUrb
      <4>2. moved = Got
        BY <2>1, <4>1 DEF LossInv, FirstAttempt, Busy
      <4> QED
        BY <2>1, <4>1, <4>2, SuspendedChunk
    <3> QED
      BY <3>1, <3>2
  <2> QED
    BY <2>1, <2>2 DEF LossInv, FirstAttempt, SecondAttempt, Busy, InUrb, Returned, Here, OneChunk
<1>10. CASE PostChunk /\ ~Fail
  <2>1. /\ UNCHANGED <<connection, moved, call, retried, buffer>> /\ Reading /\ Busy /\ pc' = "wait"
        /\ urb'.bytes = <<>> /\ urb.bytes = <<>>
    BY <1>10 DEF PostChunk, Reading, Busy, CallInv, InUrb, NoUrb
  <2> QED
    BY <2>1, LossKept DEF LossInv, Got
<1>11. CASE ChunkDone
  <2>1. /\ UNCHANGED <<connection, moved, call, retried>> /\ Reading /\ Busy /\ pc' \in {"idle", "post"}
        /\ buffer' = buffer \o urb.bytes /\ urb'.bytes = <<>>
    BY <1>11 DEF ChunkDone, Reading, Busy, InUrb, NoUrb
  <2>2. Got' = Got
    <3>1. buffer \in Seq(HostByte) /\ urb.bytes \in Seq(HostByte)
      BY <2>1, ReadTyped DEF TypeInv
    <3>2. ToSet(buffer') = ToSet(buffer) \cup ToSet(urb.bytes)
      BY <2>1, <3>1, SetOfConcat
    <3>3. ToSet(urb'.bytes) = {}
      BY <2>1 DEF ToSet
    <3> QED
      BY <3>2, <3>3 DEF Got
  <2> QED
    BY <2>1, <2>2, LossKept DEF LossInv
<1>12. CASE LookAtState
  <2>1. /\ UNCHANGED <<state, connection, moved, call, transferredSize>> /\ pc = "failed" /\ Reading
        /\ ~Returned' /\ ~Busy'
    BY <1>12 DEF LookAtState, Reading, Returned, Busy, InUrb, CallInv
  <2>2. CASE TryAgain
    <3>1. pc' = "ready" /\ retried' = TRUE /\ ~retried /\ state # "configured"
      BY <1>12, <2>2 DEF LookAtState, TryAgain
    <3>2. state # "detached" => OneChunk(Here)
      BY <2>1, <3>1 DEF LossInv, FirstAttempt, TypeInv, StateType
    <3> QED
      BY <2>1, <3>1, <3>2 DEF LossInv, FirstAttempt, SecondAttempt, Here, OneChunk
  <2>3. CASE ~TryAgain
    <3>1. pc' = "idle"
      BY <1>12, <2>3 DEF LookAtState
    <3> QED
      BY <2>1, <3>1 DEF LossInv, FirstAttempt, SecondAttempt
  <2> QED
    BY <2>2, <2>3
<1> QED
  BY <1>1, <1>2, <1>3, <1>4, <1>5, <1>6, <1>7, <1>8, <1>9, <1>10, <1>11, <1>12
  DEF Next, TransferStep, PostChunk, Fail

-----------------------------------------------------------------------------
(* Every behaviour of the transport keeps the invariant that the properties   *)
(* rest on, whatever the host and the cable do.                              *)
THEOREM TransferInductive == Spec => []IndInv
<1>1. IndInv /\ [Next]_vars => IndInv'
  BY TypePreserved, CallPreserved, ReadPreserved, MovedPreserved, LossPreserved, HeardPreserved,
     WritePreserved DEF IndInv
<1> QED
  BY InitInd, <1>1, PTL DEF Spec

(* What a read returns is one piece of what the host sent.                   *)
THEOREM ReadsPiece == Spec => []ReadsOnePiece
<1>1. IndInv => ReadsOnePiece
  <2> SUFFICES ASSUME IndInv, Returned, Reading
               PROVE  /\ \A n \in 1..transferredSize - 1 :
                            /\ Follows(buffer[n + 1], buffer[n])
                            /\ buffer[n + 1][2] # buffer[n][2] => n = call.lead
                      /\ transferredSize < call.size => EndsMessage(buffer[transferredSize])
    BY DEF ReadsOnePiece
  <2>1. transferredSize = Len(buffer) /\ buffer # <<>> /\ Last(buffer) = buffer[Len(buffer)]
    BY ReadTyped DEF IndInv, TypeInv, CallInv, Returned
  <2> QED
    BY <2>1 DEF IndInv, ReadInv, ReadEnded, Piece
<1> QED
  BY TransferInductive, <1>1, PTL

(* What a read drops it tells, but for the chunk before the page boundary.   *)
THEOREM LossTold == Spec => []LossIsTold
<1>1. IndInv => LossIsTold
  <2> SUFFICES ASSUME IndInv, Returned, Reading
               PROVE  LET lost == {byte \in moved \ ToSet(buffer) : byte[1] = connection} IN
                      lost # {} => retried /\ Cardinality(lost) = call.lead
    BY DEF LossIsTold
  <2>1. Got = ToSet(buffer)
    <3>1. urb.bytes = <<>>
      BY DEF IndInv, CallInv, Returned, InUrb, NoUrb
    <3> QED
      BY <3>1 DEF Got, ToSet
  <2>2. {byte \in moved \ ToSet(buffer) : byte[1] = connection} = Here \ Got
    BY <2>1 DEF Here
  <2>3. retried \/ moved = Got
    BY DEF IndInv, LossInv, FirstAttempt
  <2>4. retried => OneChunk(Here \ Got)
    BY DEF IndInv, LossInv, SecondAttempt
  <2> QED
    BY <2>2, <2>3, <2>4 DEF OneChunk, Here
<1> QED
  BY TransferInductive, <1>1, PTL

(* A write is heard as one, although it may be repeated.                     *)
THEOREM WritesWhole == Spec => []WritesAreWhole
<1>1. IndInv => WritesAreWhole
  <2> SUFFICES ASSUME IndInv, ~Reading
               PROVE  /\ \E k \in 0..call.size : HeardOfCall(k)
                      /\ Returned => /\ transferredSize = call.size
                                     /\ HeardOfCall(0) \/ HeardOfCall(call.size)
    BY DEF WritesAreWhole
  <2>1. /\ WriteInv /\ CallInv /\ HeardInv /\ StateType /\ BufferType
        /\ call.size \in Nat
    BY CallTyped, Bounds DEF IndInv, TypeInv
  <2>2. Returned => /\ transferredSize = call.size
                    /\ HeardOfCall(0) \/ HeardOfCall(call.size)
    BY <2>1 DEF WriteInv, Returned
  <2>3. HeardOfCall(0) \/ HeardOfCall(call.size) \/ (Busy /\ HeardOfCall(Len(buffer) + Len(urb.bytes)))
    <3>1. state = "detached" => HeardOfCall(0)
      BY <2>1, SilenceHeard DEF HeardInv
    <3>2. pc \in {"idle", "ready", "failed"} \/ Busy
      BY <2>1 DEF StateType, Busy, InUrb
    <3>3. InUrb => urb.status = "aborted" \/ Taken
      BY <2>1 DEF BufferType, CallInv, Taken
    <3> QED
      BY <2>1, <3>1, <3>2, <3>3 DEF WriteInv, Busy
  <2>4. Busy => Len(buffer) + Len(urb.bytes) \in 0..call.size
    <3> SUFFICES ASSUME Busy PROVE Len(buffer) + Len(urb.bytes) \in 0..call.size
      OBVIOUS
    <3>1. Chunk \in Nat /\ Len(buffer) \in Nat /\ Len(buffer) + Chunk <= call.size
      BY <2>1, ChunkTyped, Bounds
    <3>2. Len(urb.bytes) \in Nat /\ Len(urb.bytes) <= Chunk
      BY <2>1, <3>1 DEF CallInv, Busy, NoUrb, InUrb, BufferType
    <3> QED
      BY <2>1, <3>1, <3>2
  <2>5. 0 \in 0..call.size /\ call.size \in 0..call.size
    BY <2>1
  <2> QED
    BY <2>2, <2>3, <2>4, <2>5
<1> QED
  BY TransferInductive, <1>1, PTL

(* TypeOK is part of the invariant. *)
THEOREM TransferTyped == Spec => []TypeOK
<1>1. IndInv => TypeOK
  <2> SUFFICES ASSUME StateType, RetriedType, HostType, BufferType PROVE TypeOK
    BY DEF IndInv, TypeInv
  <2>1. connection \in 0..MaxChanges /\ changes \in 0..MaxChanges
    BY Bounds DEF StateType
  <2>2. urb.size \in 0..MaxSize /\ urb.status \in {"none", "posted", "done", "aborted"}
    BY DEF BufferType
  <2> QED
    BY <2>1, <2>2 DEF TypeOK, StateType, RetriedType, HostType, BufferType
<1> QED
  BY TransferInductive, <1>1, PTL
=============================================================================

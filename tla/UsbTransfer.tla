------------------------------ MODULE UsbTransfer ------------------------------
(***************************************************************************)
(* One call of the USB transport: usbTransfer and _usbCommsTransfer        *)
(* (switch_app/vendor/mtp/source/usb.c) as USBMtpInterface::read and write *)
(* call them, a read with a timeout of one second, a write with none.      *)
(*                                                                         *)
(* External, from how usb.c uses usb:ds: a posted urb takes the host's     *)
(* data, or gives it its own, byte by byte; it completes when it is full   *)
(* or a message of the host ends in it, and is aborted when the cable is   *)
(* pulled.  A host suspends the bus only between its messages, and nothing *)
(* reconnects or suspends in the microseconds between two chunks or        *)
(* between a cancelled urb and the look at the state.                      *)
(***************************************************************************)
EXTENDS Naturals, Sequences, SequencesExt, FiniteSets

CONSTANTS
    MaxSize,      \* the longest buffer and the longest message, in units of data
    Calls,        \* the calls the server makes: [dir, size, lead]
    MaxCalls, MaxMessages, MaxChanges    \* to bound the model

(* The lead of a buffer is what it has before its first page boundary, 0 for *)
(* one that is aligned (memalign) or has none.                               *)
ASSUME TransferAssumption ==
    /\ MaxSize \in Nat \ {0}
    /\ Calls \subseteq [dir: {"read", "write"}, size: 1..MaxSize, lead: 0..MaxSize]
    /\ MaxCalls \in Nat /\ MaxMessages \in Nat /\ MaxChanges \in Nat

VARIABLES
    (* The bus. *)
    state,       \* usbDsGetState: "configured" (5), "suspended" or "detached"
    connection,  \* how often the host configured the device
    urb,         \* the posted buffer: [size, bytes, status]
    (* The host. *)
    message,     \* what it is sending: [number, length, sent], or none of it
    heard,       \* what it has heard in this connection
    (* usbTransfer and _usbCommsTransfer. *)
    pc,
    call, calls,
    retried,     \* the second _usbCommsTransfer
    buffer,      \* the bytes transferred by this attempt (total_transferredSize)
    transferredSize,
    (* For the properties: the bytes that left the host during this call. *)
    moved,
    changes

bus == <<state, connection>>
host == <<message, heard>>
device == <<pc, call, calls, retried, buffer, transferredSize>>
vars == <<bus, urb, host, device, moved, changes>>

NoMessage(n) == [number |-> n, length |-> 0, sent |-> 0]
NoUrb == [size |-> 0, bytes |-> <<>>, status |-> "none"]
NoCall == [dir |-> "read", size |-> 1, lead |-> 0]

Init ==
    /\ state = "detached" /\ connection = 0
    /\ urb = NoUrb
    /\ message = NoMessage(0) /\ heard = <<>>
    /\ pc = "idle"
    /\ call = NoCall /\ calls = 0
    /\ retried = FALSE
    /\ buffer = <<>> /\ transferredSize = 0
    /\ moved = {}
    /\ changes = 0

-----------------------------------------------------------------------------
(* The host and the bus. *)

Reading == call.dir = "read"
Posted == urb.status = "posted"
Unfinished == message.sent < message.length

(* The host has something to say; it says it byte by byte.                   *)
HostStarts ==
    /\ state = "configured" /\ ~Unfinished
    /\ message.number < MaxMessages
    /\ \E n \in 1..MaxSize :
          message' = [number |-> message.number + 1, length |-> n, sent |-> 0]
    /\ UNCHANGED <<bus, urb, heard, device, moved, changes>>

(* A byte of the host: its connection, its message and its place there.      *)
HostSends ==
    /\ Posted /\ Reading /\ state = "configured" /\ Unfinished
    /\ message' = [message EXCEPT !.sent = @ + 1]
    /\ LET byte == <<connection, message.number, message.sent + 1>> IN
          /\ urb' = [urb EXCEPT
                        !.bytes = Append(@, byte),
                        !.status = IF message'.sent = message.length
                                      \/ Len(urb.bytes) + 1 = urb.size
                                   THEN "done" ELSE "posted"]
          /\ moved' = moved \cup {byte}
    /\ UNCHANGED <<bus, heard, device, changes>>

(* The host hears a byte: the call it belongs to and its place there.        *)
HostHears ==
    /\ Posted /\ ~Reading /\ state = "configured"
    /\ heard' = Append(heard, <<calls, Len(buffer) + Len(urb.bytes) + 1>>)
    /\ urb' = [urb EXCEPT
                  !.bytes = Append(@, heard'[Len(heard')]),
                  !.status = IF Len(urb.bytes) + 1 = urb.size THEN "done" ELSE "posted"]
    /\ UNCHANGED <<bus, message, device, moved, changes>>

Changes == changes < MaxChanges /\ changes' = changes + 1

(* The moments in which the device is busy and nothing reconnects.           *)
BetweenChunks == pc = "post" \/ urb.status = "done"

(* The cable is pulled, or the host resets the device.                       *)
Detach ==
    /\ state # "detached"
    /\ Changes
    /\ state' = "detached"
    /\ message' = NoMessage(message.number)
    /\ heard' = <<>>
    /\ urb' = IF Posted THEN [urb EXCEPT !.status = "aborted"] ELSE urb
    /\ UNCHANGED <<connection, device, moved>>

Attach ==
    /\ state = "detached" /\ ~BetweenChunks
    /\ Changes
    /\ state' = "configured"
    /\ connection' = connection + 1
    /\ UNCHANGED <<urb, host, device, moved>>

Suspend ==
    /\ state = "configured" /\ ~Unfinished
    /\ \/ pc \in {"idle", "ready"}
       \/ pc = "wait" /\ Posted /\ urb.bytes = <<>>
    /\ Changes
    /\ state' = "suspended"
    /\ UNCHANGED <<connection, urb, host, device, moved>>

Resume ==
    /\ state = "suspended"
    /\ Changes
    /\ state' = "configured"
    /\ UNCHANGED <<connection, urb, host, device, moved>>

-----------------------------------------------------------------------------
(* The device. *)

(* usbTransfer is called on an interface that is initialized.                *)
Transfer ==
    /\ pc = "idle"
    /\ calls < MaxCalls
    /\ call' \in Calls
    /\ calls' = calls + 1
    /\ pc' = "ready"
    /\ retried' = FALSE
    /\ transferredSize' = 0
    /\ buffer' = <<>>
    /\ moved' = {}
    /\ UNCHANGED <<bus, urb, host, changes>>

(* Mutant of Rewound: the second attempt goes on where the first ended. *)
Resumed == buffer

(* Each attempt begins with the first byte of the caller's buffer. *)
Rewound == <<>>

(* usbDsWaitReady returns. *)
BeReady ==
    /\ pc = "ready" /\ state = "configured"
    /\ pc' = "post"
    /\ buffer' = Rewound
    /\ UNCHANGED <<bus, urb, host, call, calls, retried, transferredSize, moved, changes>>

(* _usbCommsTransfer fails, and leaves *transferredSize alone. *)
Fail == pc' = "failed" /\ urb' = NoUrb

(* Mutant of HasTimeout: usbDsWaitReady is called with UINT64_MAX. *)
HasTimeoutLater == Reading /\ pc # "ready"

(* Only a read has a timeout, in usbDsWaitReady as well.                     *)
HasTimeout == Reading

NotReady ==
    /\ pc = "ready" /\ state # "configured" /\ HasTimeout
    /\ Fail
    /\ UNCHANGED <<bus, host, call, calls, retried, buffer, transferredSize, moved, changes>>

(* A chunk goes up to the first page boundary, and the next to the end.      *)
Chunk ==
    IF Len(buffer) < call.lead /\ call.lead < call.size THEN call.lead - Len(buffer)
    ELSE call.size - Len(buffer)

(* usbDsEndpoint_PostBufferAsync. *)
PostChunk ==
    /\ pc = "post"
    /\ IF state = "configured"
       THEN /\ urb' = [size |-> Chunk, bytes |-> <<>>, status |-> "posted"]
            /\ pc' = "wait"
       ELSE Fail
    /\ UNCHANGED <<bus, host, call, calls, retried, buffer, transferredSize, moved, changes>>

(* Mutant of EndsCall: a chunk that is not full does not end the call. *)
EndsWhenFull(got) == Len(got) = call.size

(* The buffer is full, or its last chunk was not.                            *)
EndsCall(got) == Len(got) = call.size \/ Len(urb.bytes) < urb.size

(* The completion event, with a report that the urb is done.                 *)
ChunkDone ==
    /\ pc = "wait" /\ urb.status = "done"
    /\ buffer' = buffer \o urb.bytes
    /\ urb' = NoUrb
    /\ IF EndsCall(buffer')
       THEN pc' = "idle" /\ transferredSize' = Len(buffer')
       ELSE pc' = "post" /\ UNCHANGED transferredSize
    /\ UNCHANGED <<bus, host, call, calls, retried, moved, changes>>

(* The completion event, with a report that it was not.                      *)
ChunkAborted ==
    /\ pc = "wait" /\ urb.status = "aborted"
    /\ Fail
    /\ UNCHANGED <<bus, host, call, calls, retried, buffer, transferredSize, moved, changes>>

(* A second has passed without it. *)
ChunkTimesOut ==
    /\ pc = "wait" /\ Posted /\ HasTimeout
    /\ pc' = "cancel"
    /\ UNCHANGED <<bus, urb, host, call, calls, retried, buffer, transferredSize, moved, changes>>

(* usbDsEndpoint_Cancel and the wait for the completion, whatever the urb has *)
(* taken by then.                                                            *)
CancelChunk ==
    /\ pc = "cancel"
    /\ Fail
    /\ UNCHANGED <<bus, host, call, calls, retried, buffer, transferredSize, moved, changes>>

(* Mutant of TryAgain: the state is not looked at. *)
TryAgainAlways == ~retried

(* The state is no longer "configured": one more attempt. *)
TryAgain == state # "configured" /\ ~retried

LookAtState ==
    /\ pc = "failed"
    /\ IF TryAgain
       THEN pc' = "ready" /\ retried' = TRUE
       ELSE pc' = "idle" /\ UNCHANGED retried
    /\ UNCHANGED <<bus, urb, host, call, calls, buffer, transferredSize, moved, changes>>

-----------------------------------------------------------------------------
TransferStep ==
    \/ BeReady \/ NotReady \/ PostChunk
    \/ ChunkDone \/ ChunkAborted \/ ChunkTimesOut \/ CancelChunk \/ LookAtState

Next ==
    \/ HostStarts \/ HostSends \/ HostHears
    \/ Detach \/ Attach \/ Suspend \/ Resume
    \/ Transfer \/ TransferStep

Spec == Init /\ [][Next]_vars

(* The server thread is never starved, and the timeouts of its reads pass.   *)
FairSpec == Spec /\ WF_vars(TransferStep)

-----------------------------------------------------------------------------
(* Every variable has its type. *)
TypeOK ==
    /\ state \in {"configured", "suspended", "detached"}
    /\ connection \in 0..MaxChanges /\ changes \in 0..MaxChanges
    /\ urb.size \in 0..MaxSize
    /\ urb.status \in {"none", "posted", "done", "aborted"}
    /\ message \in [number: 0..MaxMessages, length: 0..MaxSize, sent: 0..MaxSize]
    /\ pc \in {"idle", "ready", "post", "wait", "cancel", "failed"}
    /\ call \in Calls \cup {NoCall} /\ calls \in 0..MaxCalls
    /\ retried \in BOOLEAN
    /\ Len(buffer) <= MaxSize /\ transferredSize \in 0..MaxSize

Returned == pc = "idle" /\ transferredSize > 0

(* The message of the last byte a read has taken was sent to its end.        *)
EndsMessage(byte) == byte[2] < message.number \/ ~Unfinished

(* A byte follows another in what the host sends.                            *)
Follows(next, byte) ==
    \/ next = <<byte[1], byte[2], byte[3] + 1>>
    \/ next = <<byte[1], byte[2] + 1, 1>>

(* What a read returns is one piece of what the host sent over one           *)
(* connection, no byte twice or out of order; a short one ends a message,    *)
(* and it crosses from one message to the next only where a message ended    *)
(* exactly with the chunk before the page boundary.  A request, a data set   *)
(* and a block are each one message: this is what lets MtpReceive take a     *)
(* read for the next packet.                                                 *)
ReadsOnePiece ==
    Returned /\ Reading =>
        /\ \A n \in 1..transferredSize - 1 :
               /\ Follows(buffer[n + 1], buffer[n])
               /\ buffer[n + 1][2] # buffer[n][2] => n = call.lead
        /\ transferredSize < call.size => EndsMessage(buffer[transferredSize])

(* A read that returns data has lost nothing the host of this connection     *)
(* sent meanwhile, although it may be a second attempt and its urb may have  *)
(* been cancelled while data arrived: data is dropped only by a read that    *)
(* returns 0, or with the connection.  A message that ends exactly with the  *)
(* first chunk is the exception: the call waits for more, and if the bus is  *)
(* suspended then, starts again without it.                                  *)
LossIsTold ==
    Returned /\ Reading =>
        LET lost == {byte \in moved \ ToSet(buffer) : byte[1] = connection} IN
        lost # {} => retried /\ Cardinality(lost) = call.lead

(* The last k bytes the host has heard are the first k of this call.         *)
HeardOfCall(k) ==
    \E start \in 0..Len(heard) :
        /\ Len(heard) = start + k
        /\ \A n \in DOMAIN heard : heard[n][1] = calls <=> n > start
        /\ \A n \in DOMAIN heard : n > start => heard[n][2] = n - start

(* What the host hears of one call within a connection are its bytes from    *)
(* the first on, each once and nothing in between, although the call may be  *)
(* repeated; and a write that returns has been heard to the end unless the   *)
(* host is gone.                                                             *)
WritesAreWhole ==
    calls > 0 /\ ~Reading =>
        /\ \E k \in 0..call.size : HeardOfCall(k)
        /\ Returned =>
              /\ transferredSize = call.size
              /\ HeardOfCall(0) \/ HeardOfCall(call.size)

(* A read ends, whether a host is there or not: each of its waits is timed,  *)
(* usbDsWaitReady included, and there is one retry.                          *)
ReadEnds == pc = "ready" /\ Reading ~> pc = "idle"
=============================================================================

------------------------------- MODULE SendFile -------------------------------
(***************************************************************************)
(* How the MTP server sends a file, or part of one, to the PC: doGetObject,*)
(* doGetPartialObject and send_file (switch_app/vendor/mtp/source/         *)
(* MtpServer.cpp).  Sizes are counted in units, and the widths of the C    *)
(* types are parameters, so that small files reach their limits.           *)
(***************************************************************************)
EXTENDS Integers

CONSTANTS
    UIntSpan,    \* 2^32: a uint32_t is a value modulo UIntSpan
    BufferSize,  \* the 16384 bytes of send_file's buffer
    HeaderSize   \* MTP_CONTAINER_HEADER_SIZE

ASSUME WidthAssumption ==
    /\ UIntSpan \in Nat \ {0} /\ UIntSpan % 2 = 0
    /\ HeaderSize \in Nat /\ BufferSize \in Nat /\ HeaderSize < BufferSize
    /\ HeaderSize <= UIntSpan \div 2

UInt32(n) == n % UIntSpan
Int32(n) == LET u == UInt32(n) IN IF u < UIntSpan \div 2 THEN u ELSE u - UIntSpan

-----------------------------------------------------------------------------
(* What send_file makes of fileSize bytes on the disk, an offset and a length. *)

(* int actualsize: what there is to send. *)
ActualSize(fileSize, offset, length) ==
    IF offset >= fileSize THEN 0
    ELSE IF offset + length > fileSize THEN Int32(fileSize - offset)
    ELSE Int32(length)

(* The loop: the bytes of the file it has sent when it ends.  A negative     *)
(* actualsize makes blocksize negative, and what read() then does undefined. *)
Sent(actualSize) ==
    LET sentFrom[j \in 0..actualSize] ==
            LET room == IF j = 0 THEN BufferSize - HeaderSize ELSE BufferSize
                blocksize == IF j + room < actualSize THEN room ELSE actualSize - j
            IN  IF j + blocksize < actualSize
                THEN blocksize + sentFrom[j + blocksize]
                ELSE blocksize
    IN  IF actualSize < 0 THEN actualSize ELSE sentFrom[0]

(* The container: the length its header announces, and the data behind it. *)
Container(fileSize, offset, length) ==
    [announced |-> UInt32(length + HeaderSize),
     data |-> Sent(ActualSize(fileSize, offset, length))]

-----------------------------------------------------------------------------
(* The answers.  known is the size the database has, fileSize the disk's. *)

(* doGetObject *)
ObjectContainer(known, fileSize) == Container(fileSize, 0, known)

(* Mutant of PartialLength: the end of the object does not limit it. *)
LengthAsAsked(known, offset, length) == length

(* doGetPartialObject: the difference is taken in 64 bits and kept in 32. *)
PartialLength(known, offset, length) ==
    IF offset + length > known THEN UInt32(known - offset) ELSE length

PartialContainer(known, fileSize, offset, length) ==
    Container(fileSize, offset, PartialLength(known, offset, length))

(* The PC reads to the end of the announced length, or waits for it. *)
IsWhole(container) == container.announced = container.data + HeaderSize
=============================================================================

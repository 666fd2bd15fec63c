---------------------------- MODULE DbiLinkProofs ----------------------------
(***************************************************************************)
(* Proofs about DbiLink, for every set of files, every range, chunk size   *)
(* and bound: the console and the PC's server stay in step through stops,  *)
(* restarts and pulled cables, a request that succeeds returns the bytes   *)
(* that were asked for, and the summary of a session tells no more of its  *)
(* files than the console has read.                                        *)
(***************************************************************************)
EXTENDS DbiLink, FiniteSetTheorems, SequenceTheorems, WellFoundedInduction, TLAPS

(***************************************************************************)
(* The inductive invariant.  InStep alone is not inductive: the console    *)
(* takes a range for complete by the bytes that arrived, the server by the *)
(* bytes it wrote, and only the agreement of the two counts keeps both on  *)
(* the same side of the end of a range.                                    *)
(***************************************************************************)

RangeTransfers == {"askRange", "rangeAck", "rangeRequest", "rangeHeader", "rangeGo", "data"}
ConsolePlaces == Idle \cup RangeTransfers
                 \cup {"askList", "listHeader", "listAck", "listPayload", "askExit", "exitHeader"}
BackendPlaces == {"off", "connect", "header", "listHeader", "listAck", "listPayload",
                  "rangeAck", "rangeRequest", "rangeHeader", "rangeGo", "chunk",
                  "chunkData", "exitHeader"}

ControlInv ==
    /\ console \in ConsolePlaces
    /\ backend \in BackendPlaces
    /\ attached \in BOOLEAN /\ stopping \in BOOLEAN

(* Sizes of files and of what is asked for are numbers. *)
DataInv ==
    /\ queue \subseteq Files
    /\ size \in [Files -> Nat]
    /\ asked.offset \in Nat /\ asked.size \in Nat
    /\ console \in RangeTransfers => asked.size > 0
    /\ console \in RangeTransfers \ {"data"} => got = <<>>

(* The first n bytes of the range the console asked for. *)
Bytes(n) == [i \in 1 .. n |-> <<asked.name, asked.offset + i - 1>>]

(* The server serves the range the console asked for, and both count the   *)
(* same bytes of it.                                                       *)
ServedInv ==
    attached =>
        /\ backend \in {"rangeHeader", "rangeGo", "chunk", "chunkData"} =>
              request = asked /\ asked.name \in queue
        /\ backend \in {"chunk", "chunkData"} =>
              sent \in Nat /\ sent < asked.size /\ got = Bytes(sent)
        /\ backend = "chunkData" =>
              chunk \in Nat \ {0} /\ sent + chunk =< asked.size

IInv == ControlInv /\ DataInv /\ InStep /\ ServedInv

-----------------------------------------------------------------------------
(* A piece that follows the first n bytes of the range makes them more. *)
LEMMA BytesJoin ==
    ASSUME NEW n \in Nat, NEW k \in Nat, NEW piece, asked.offset \in Nat,
           piece = [i \in 1 .. k |-> <<asked.name, asked.offset + n + i - 1>>]
    PROVE  Bytes(n) \o piece = Bytes(n + k)
  <1>1. Bytes(n) \in Seq({asked.name} \X Nat) /\ Len(Bytes(n)) = n
    <2>1. \A i \in 1 .. n : <<asked.name, asked.offset + i - 1>> \in {asked.name} \X Nat
      OBVIOUS
    <2>. QED
      BY <2>1 DEF Bytes
  <1>2. piece \in Seq({asked.name} \X Nat) /\ Len(piece) = k
    <2>1. \A i \in 1 .. k : <<asked.name, asked.offset + n + i - 1>> \in {asked.name} \X Nat
      OBVIOUS
    <2>. QED
      BY <2>1
  <1>3. Bytes(n) \o piece
          = [i \in 1 .. n + k |-> IF i =< n THEN Bytes(n)[i] ELSE piece[i - n]]
    BY <1>1, <1>2 DEF Bytes
  <1>4. \A i \in 1 .. n + k :
            (IF i =< n THEN Bytes(n)[i] ELSE piece[i - n])
              = <<asked.name, asked.offset + i - 1>>
    BY DEF Bytes
  <1>. QED
    BY <1>3, <1>4 DEF Bytes

LEMMA BytesLength ==
    ASSUME NEW n \in Nat
    PROVE  Len(Bytes(n)) = n
  BY DEF Bytes

LEMMA NoBytes == Bytes(0) = <<>>
  BY DEF Bytes

(* The two programs as tables. *)
LEMMA ConsoleTables ==
    /\ DOMAIN ConsoleWrites = {"askList", "listAck", "askRange", "rangeGo", "askExit"}
    /\ DOMAIN ConsoleExpects = {"listHeader", "rangeAck", "rangeHeader", "exitHeader"}
    /\ DOMAIN ServerWrites = {"listHeader", "rangeAck", "rangeHeader", "exitHeader"}
  BY DEF ConsoleWrites, ConsoleExpects, ServerWrites

(* What the console and the server have posted while the server holds the  *)
(* device. *)
LEMMA Posted ==
    ASSUME InStep, attached
    PROVE  /\ backend \in DOMAIN Meets
           /\ backend = "header" => console \in Idle \cup Asking
           /\ backend \in {"chunk", "chunkData"} => console = "data"
           /\ backend \notin {"header", "chunk", "chunkData"} => console = backend
  BY DEF InStep, Meets, Asking

LEMMA PostedInStep ==
    ASSUME attached => \/ backend = "header" /\ console \in Idle \cup Asking
                       \/ backend \in {"chunk", "chunkData"} /\ console = "data"
                       \/ /\ backend \in BackendPlaces \ {"off", "connect", "header", "chunk", "chunkData"}
                          /\ console = backend
    PROVE  InStep
  BY DEF InStep, Meets, BackendPlaces, Asking

-----------------------------------------------------------------------------
(* The steps. *)

LEMMA InitInv == Init => IInv
  <1> SUFFICES ASSUME Init PROVE IInv
    OBVIOUS
  <1>1. ControlInv
    BY DEF Init, ControlInv, ConsolePlaces, Idle, BackendPlaces
  <1>2. DataInv
    BY BoundsAssumption DEF Init, DataInv, NoRange, RangeTransfers
  <1>3. InStep /\ ServedInv
    BY DEF Init, InStep, ServedInv
  <1>. QED
    BY <1>1, <1>2, <1>3 DEF IInv

(* A failure of the console lets go of the device. *)
LEMMA FailureSteps ==
    ASSUME IInv, ConsoleFails, backend' \in BackendPlaces, UNCHANGED <<queue, size, stopping>>
    PROVE  IInv'
  <1>1. ControlInv'
    BY DEF IInv, ControlInv, ConsoleFails, ConsolePlaces, Idle
  <1>2. DataInv'
    BY DEF IInv, DataInv, ConsoleFails, RangeTransfers
  <1>3. InStep' /\ ServedInv'
    BY DEF ConsoleFails, InStep, ServedInv
  <1>. QED
    BY <1>1, <1>2, <1>3 DEF IInv

(* A server that ends, or that has lost the device. *)
LEMMA ServerEnds ==
    ASSUME IInv, backend' \in BackendPlaces, attached' = FALSE,
           UNCHANGED <<console, asked, got, stopping, queue, size>>
    PROVE  IInv'
  <1>1. ControlInv' /\ DataInv'
    BY DEF IInv, ControlInv, DataInv
  <1>2. InStep' /\ ServedInv'
    BY DEF InStep, ServedInv
  <1>. QED
    BY <1>1, <1>2 DEF IInv

LEMMA MenuSteps ==
    ASSUME IInv, ListFiles \/ ReadRange \/ Leave
    PROVE  IInv'
  <1>1. console = "menu"
    BY DEF ListFiles, ReadRange, Leave, Asks
  <1>2. /\ console' \in {"askList", "askRange", "askExit", "closed"}
        /\ UNCHANGED <<backend, attached, stopping, queue, size, request, sent, chunk>>
        /\ got' = <<>> \/ (got' = got /\ console' \notin RangeTransfers)
    <2>1. CASE ListFiles
      <3>1. UNCHANGED serverVars
        BY <2>1 DEF ListFiles, Asks
      <3>. QED
        BY <2>1, <3>1 DEF ListFiles, Asks, serverVars
    <2>2. CASE ReadRange
      <3>1. UNCHANGED serverVars
        BY <2>2 DEF ReadRange, Asks
      <3>2. console' = "askRange" /\ got' = <<>>
        BY <2>2 DEF ReadRange, Asks
      <3>3. UNCHANGED <<backend, attached, stopping, size>>
        BY <2>2 DEF ReadRange, Asks
      <3>. QED
        BY <3>1, <3>2, <3>3 DEF serverVars
    <2>3. CASE Leave
      BY <2>3 DEF Leave, serverVars, RangeTransfers
    <2>. QED
      BY <2>1, <2>2, <2>3
  <1>3. /\ asked'.offset \in Nat /\ asked'.size \in Nat
        /\ console' \in RangeTransfers => asked'.size > 0
    <2>1. CASE ListFiles \/ Leave
      BY <2>1 DEF ListFiles, Leave, Asks, IInv, DataInv, RangeTransfers
    <2>2. CASE ReadRange
      <3>1. PICK name \in IF catalog = Torn THEN Files \cup {Torn} ELSE catalog, r \in Ranges :
                asked' = [name |-> name, offset |-> r.offset, size |-> r.size]
        BY <2>2 DEF ReadRange
      <3>2. r.offset \in Nat /\ r.size \in Nat /\ r.size > 0
        BY RangesAssumption
      <3>. QED
        BY <3>1, <3>2
    <2>. QED
      BY <2>1, <2>2
  <1>4. ControlInv'
    BY <1>2 DEF IInv, ControlInv, ConsolePlaces, Idle, RangeTransfers
  <1>5. DataInv'
    BY <1>2, <1>3 DEF IInv, DataInv, RangeTransfers
  <1>6. attached => backend = "header"
    BY <1>1, Posted DEF IInv, InStep, Meets, BackendPlaces, ControlInv
  <1>7. InStep'
    BY <1>2, <1>6, PostedInStep DEF InStep, Meets, Idle, Asking
  <1>8. ServedInv'
    BY <1>2, <1>6 DEF ServedInv
  <1>. QED
    BY <1>4, <1>5, <1>7, <1>8 DEF IInv

LEMMA HeaderSteps ==
    ASSUME IInv, ServerReadsHeader
    PROVE  IInv'
  <1>1. backend = "header" /\ attached
    BY DEF ServerReadsHeader
  <1>2. console \in Asking
    BY <1>1, Posted, ConsoleTables DEF IInv, ServerReadsHeader, Asking, Idle
  <1>3. /\ UNCHANGED <<attached, stopping, queue, size, request, sent, chunk, asked, got>>
        /\ console' = ConsoleThen[console]
        /\ backend' = [exit |-> "exitHeader", list |-> "listHeader",
                       range |-> "rangeAck"][ConsoleWrites[console].command]
    BY DEF ServerReadsHeader, ConsoleWritten, serverVars
  <1>4. /\ console' = backend'
        /\ backend' \in {"exitHeader", "listHeader", "rangeAck"}
        /\ backend' = "rangeAck" => console = "askRange"
    <2>1. CASE console = "askList"
      BY <2>1, <1>3 DEF ConsoleThen, ConsoleWrites, Header
    <2>2. CASE console = "askRange"
      BY <2>2, <1>3 DEF ConsoleThen, ConsoleWrites, Header
    <2>3. CASE console = "askExit"
      BY <2>3, <1>3 DEF ConsoleThen, ConsoleWrites, Header
    <2>. QED
      BY <1>2, <2>1, <2>2, <2>3 DEF Asking
  <1>5. ControlInv'
    BY <1>3, <1>4 DEF IInv, ControlInv, ConsolePlaces, BackendPlaces, RangeTransfers
  <1>6. DataInv'
    BY <1>3, <1>4 DEF IInv, DataInv, RangeTransfers
  <1>7. InStep'
    BY <1>4 DEF InStep, Meets
  <1>8. ServedInv'
    BY <1>4 DEF ServedInv
  <1>. QED
    BY <1>5, <1>6, <1>7, <1>8 DEF IInv

LEMMA AckSteps ==
    ASSUME IInv, ServerReadsAck
    PROVE  IInv'
  <1>1. backend \in {"listAck", "rangeGo"} /\ attached /\ console = backend
    BY Posted DEF ServerReadsAck, IInv
  <1>2. /\ UNCHANGED <<stopping, queue, size, request, chunk, asked, got>>
        /\ sent' = 0
        /\ console' = ConsoleThen[console]
        /\ BackendGoes(IF ConsoleWrites[console].type # "ack" THEN "off"
                       ELSE IF backend = "listAck" THEN "listPayload" ELSE "chunk")
    BY DEF ServerReadsAck, ConsoleWritten
  <1>3. attached' = TRUE
        /\ \/ backend' = "listPayload" /\ console' = "listPayload"
           \/ backend' = "chunk" /\ console' = "data" /\ console = "rangeGo" /\ backend = "rangeGo"
    <2>1. CASE backend = "listAck"
      BY <2>1, <1>1, <1>2 DEF BackendGoes, ConsoleThen, ConsoleWrites, Header
    <2>2. CASE backend = "rangeGo"
      BY <2>2, <1>1, <1>2 DEF BackendGoes, ConsoleThen, ConsoleWrites, Header
    <2>. QED
      BY <1>1, <2>1, <2>2
  <1>4. ControlInv'
    BY <1>2, <1>3 DEF IInv, ControlInv, ConsolePlaces, BackendPlaces, RangeTransfers
  <1>5. DataInv'
    BY <1>2, <1>3 DEF IInv, DataInv, RangeTransfers
  <1>6. InStep'
    BY <1>3 DEF InStep, Meets
  <1>7. ServedInv'
    <2>1. CASE backend' = "chunk"
      <3>1. request = asked /\ asked.name \in queue /\ got = <<>> /\ asked.size > 0
        BY <2>1, <1>1, <1>3 DEF IInv, ServedInv, DataInv, RangeTransfers
      <3>2. got' = [i \in 1 .. 0 |-> <<asked'.name, asked'.offset + i - 1>>]
        BY <3>1, <1>2
      <3>3. got' = Bytes(0)'
        BY <3>2 DEF Bytes
      <3>. QED
        BY <2>1, <3>1, <3>3, <1>2 DEF ServedInv, IInv, DataInv
    <2>2. CASE backend' = "listPayload"
      BY <2>2 DEF ServedInv
    <2>. QED
      BY <2>1, <2>2, <1>3
  <1>. QED
    BY <1>4, <1>5, <1>6, <1>7 DEF IInv

LEMMA RequestSteps ==
    ASSUME IInv, ServerReadsRequest
    PROVE  IInv'
  <1>1. /\ backend = "rangeRequest" /\ attached /\ console = "rangeRequest"
        /\ UNCHANGED <<stopping, queue, size, sent, chunk, asked, got>>
        /\ request' = asked
        /\ console' = "rangeHeader"
    BY DEF ServerReadsRequest, ConsoleWritten, ConsoleThen
  <1>2. \/ backend' = "rangeHeader" /\ attached' = TRUE /\ asked.name \in queue
        \/ backend' = "off" /\ attached' = FALSE
    BY <1>1 DEF ServerReadsRequest, BackendGoes, InFile
  <1>3. ControlInv'
    BY <1>1, <1>2 DEF IInv, ControlInv, ConsolePlaces, BackendPlaces, RangeTransfers
  <1>4. DataInv'
    BY <1>1 DEF IInv, DataInv, RangeTransfers
  <1>5. InStep'
    BY <1>1, <1>2 DEF InStep, Meets
  <1>6. ServedInv'
    BY <1>1, <1>2 DEF ServedInv
  <1>. QED
    BY <1>3, <1>4, <1>5, <1>6 DEF IInv

LEMMA AnswerSteps ==
    ASSUME IInv, ConsoleReadsHeader
    PROVE  IInv'
  <1>1. /\ attached /\ console = backend
        /\ backend \in {"listHeader", "rangeAck", "rangeHeader", "exitHeader"}
        /\ UNCHANGED <<stopping, queue, size, request, sent, chunk>>
        /\ backend' = [listHeader |-> "listAck", rangeAck |-> "rangeRequest",
                       rangeHeader |-> "rangeGo", exitHeader |-> "off"][backend]
    BY Posted, ConsoleTables DEF ConsoleReadsHeader, IInv
  <1>2. backend' \in BackendPlaces
    BY <1>1 DEF BackendPlaces
  <1>3. CASE ConsoleFails
    BY <1>1, <1>2, <1>3, FailureSteps
  <1>4. CASE ~ConsoleFails
    <2>1. /\ console' = [listHeader |-> "listAck", rangeAck |-> "rangeRequest",
                         rangeHeader |-> "rangeGo", exitHeader |-> "closed"][console]
          /\ attached' = (backend # "exitHeader")
          /\ UNCHANGED <<asked, got>>
      BY <1>4 DEF ConsoleReadsHeader
    <2>2. \/ console = "exitHeader" /\ console' = "closed" /\ backend' = "off" /\ attached' = FALSE
          \/ console = "listHeader" /\ console' = "listAck" /\ backend' = "listAck" /\ attached' = TRUE
          \/ console = "rangeAck" /\ console' = "rangeRequest" /\ backend' = "rangeRequest" /\ attached' = TRUE
          \/ console = "rangeHeader" /\ console' = "rangeGo" /\ backend' = "rangeGo" /\ attached' = TRUE
      <3>1. attached' = IF backend = "exitHeader" THEN FALSE ELSE TRUE
        BY <2>1
      <3>2. CASE console = "exitHeader"
        BY <3>1, <3>2, <1>1, <2>1
      <3>3. CASE console = "listHeader"
        BY <3>1, <3>3, <1>1, <2>1
      <3>4. CASE console = "rangeAck"
        BY <3>1, <3>4, <1>1, <2>1
      <3>5. CASE console = "rangeHeader"
        BY <3>1, <3>5, <1>1, <2>1
      <3>. QED
        BY <1>1, <3>2, <3>3, <3>4, <3>5
    <2>3. ControlInv'
      BY <1>1, <2>2 DEF IInv, ControlInv, ConsolePlaces, Idle, BackendPlaces, RangeTransfers
    <2>4. DataInv'
      BY <1>1, <2>1, <2>2 DEF IInv, DataInv, RangeTransfers
    <2>5. InStep'
      BY <2>2 DEF InStep, Meets
    <2>6. ServedInv'
      BY <1>1, <2>1, <2>2 DEF IInv, ServedInv
    <2>. QED
      BY <2>3, <2>4, <2>5, <2>6 DEF IInv
  <1>. QED
    BY <1>3, <1>4

LEMMA ListSteps ==
    ASSUME IInv, ConsoleReadsList
    PROVE  IInv'
  <1>1. /\ attached /\ console' = "menu" /\ stopping \in BOOLEAN
        /\ UNCHANGED <<stopping, queue, size, asked, got>>
        /\ \/ backend' = "header" /\ attached' = TRUE
           \/ backend' = "off" /\ attached' = FALSE
    BY DEF ConsoleReadsList, BackendGoes, LoopTop, serverVars, IInv, ControlInv
  <1>2. ControlInv' /\ DataInv'
    BY <1>1 DEF IInv, ControlInv, DataInv, ConsolePlaces, Idle, BackendPlaces, RangeTransfers
  <1>3. InStep' /\ ServedInv'
    BY <1>1 DEF InStep, Meets, Idle, ServedInv
  <1>. QED
    BY <1>2, <1>3 DEF IInv

LEMMA NextChunkSteps ==
    ASSUME IInv, NextChunk
    PROVE  IInv'
  <1>1. /\ backend = "chunk"
        /\ UNCHANGED <<console, asked, got, stopping, queue, size, request, sent>>
    BY DEF NextChunk, consoleVars
  <1>2. \/ /\ backend' = "chunkData" /\ attached' = attached
           /\ chunk' = Available /\ Available > 0
        \/ backend' = "off" /\ attached' = FALSE
    BY DEF NextChunk, BackendGoes, IInv, ControlInv
  <1>3. CASE backend' = "off" /\ attached' = FALSE
    BY <1>1, <1>3, ServerEnds DEF BackendPlaces
  <1>4. CASE backend' = "chunkData" /\ attached' = attached
    <2>1. attached => /\ console = "data" /\ request = asked /\ asked.name \in queue
                      /\ sent \in Nat /\ sent < asked.size /\ got = Bytes(sent)
      BY <1>1, Posted DEF IInv, ServedInv
    <2>2. attached => chunk' \in Nat \ {0} /\ sent + chunk' =< asked.size
      <3> SUFFICES ASSUME attached
                   PROVE  chunk' \in Nat \ {0} /\ sent + chunk' =< asked.size
        OBVIOUS
      <3>1. size[asked.name] \in Nat /\ asked.offset \in Nat /\ asked.size \in Nat
        BY <2>1 DEF IInv, DataInv
      <3>2. chunk' = Available /\ Available > 0
        BY <1>2, <1>4
      <3>. QED
        BY <2>1, <3>1, <3>2, BoundsAssumption DEF Available, Smaller
    <2>3. ControlInv' /\ DataInv'
      BY <1>1, <1>4 DEF IInv, ControlInv, DataInv, BackendPlaces
    <2>4. InStep'
      BY <1>1, <1>4, <2>1 DEF InStep, Meets
    <2>5. Bytes(sent)' = Bytes(sent)
      BY <1>1 DEF Bytes
    <2>6. ServedInv'
      BY <1>1, <1>4, <2>1, <2>2, <2>5 DEF ServedInv
    <2>. QED
      BY <2>3, <2>4, <2>6 DEF IInv
  <1>. QED
    BY <1>2, <1>3, <1>4

(* What the console has after a chunk: the range up to its end. *)
LEMMA ChunkArrives ==
    ASSUME IInv, SendChunk
    PROVE  /\ attached /\ backend = "chunkData" /\ console = "data"
           /\ request = asked /\ asked.name \in queue
           /\ sent' = sent + chunk /\ sent' \in Nat /\ sent' =< asked.size
           /\ got' = Bytes(sent') /\ Len(got') = sent'
  <1>1. /\ attached /\ backend = "chunkData" /\ console = "data"
        /\ got' = got \o [i \in 1 .. chunk |-> <<request.name, ChunkFirst + i - 1>>]
        /\ sent' = sent + chunk
    BY DEF SendChunk
  <1>2. /\ request = asked /\ asked.name \in queue
        /\ sent \in Nat /\ chunk \in Nat /\ sent + chunk =< asked.size
        /\ got = Bytes(sent) /\ asked.offset \in Nat /\ asked.size \in Nat
    BY <1>1 DEF IInv, ServedInv, DataInv
  <1>3. got' = Bytes(sent + chunk)
    <2> DEFINE piece == [i \in 1 .. chunk |-> <<request.name, ChunkFirst + i - 1>>]
    <2>1. got' = Bytes(sent) \o piece
      BY <1>1, <1>2
    <2>2. piece = [i \in 1 .. chunk |-> <<asked.name, asked.offset + sent + i - 1>>]
      BY <1>2 DEF ChunkFirst
    <2>. HIDE DEF piece
    <2>. QED
      BY <1>2, <2>1, <2>2, BytesJoin
  <1>4. sent + chunk \in Nat
    BY <1>2
  <1>5. Len(Bytes(sent + chunk)) = sent + chunk
    BY <1>4, BytesLength
  <1>. QED
    BY <1>1, <1>2, <1>3, <1>4, <1>5

(* The range is complete for the console exactly when it is for the server. *)
LEMMA SendSteps ==
    ASSUME IInv, SendChunk
    PROVE  IInv'
  <1>1. /\ attached /\ request = asked /\ asked.name \in queue
        /\ sent' \in Nat /\ sent' =< asked.size
        /\ got' = Bytes(sent') /\ Len(got') = sent'
    BY ChunkArrives
  <1>2. /\ UNCHANGED <<asked, stopping, queue, size, request>>
        /\ BackendGoes(IF sent' = request.size THEN LoopTop ELSE "chunk")
        /\ console' = IF Len(got') >= asked.size THEN "menu" ELSE "data"
    BY ChunkArrives DEF SendChunk
  <1>3. stopping \in BOOLEAN /\ asked.offset \in Nat /\ asked.size \in Nat
    BY DEF IInv, ControlInv, DataInv
  <1>4. \/ /\ console' = "menu"
           /\ \/ backend' = "header" /\ attached' = TRUE
              \/ backend' = "off" /\ attached' = FALSE
        \/ /\ console' = "data" /\ backend' = "chunk" /\ attached' = TRUE
           /\ sent' < asked.size
    <2>1. CASE sent' = asked.size
      <3>1. console' = "menu" /\ BackendGoes(LoopTop)
        BY <2>1, <1>1, <1>2, <1>3
      <3>. QED
        BY <3>1, <1>1, <1>3 DEF BackendGoes, LoopTop
    <2>2. CASE sent' # asked.size
      <3>1. console' = "data" /\ sent' < asked.size /\ BackendGoes("chunk")
        BY <2>2, <1>1, <1>2, <1>3
      <3>. QED
        BY <3>1, <1>1 DEF BackendGoes
    <2>. QED
      BY <2>1, <2>2
  <1>5. ControlInv'
    BY <1>2, <1>3, <1>4 DEF ControlInv, ConsolePlaces, Idle, BackendPlaces, RangeTransfers
  <1>6. DataInv'
    BY <1>1, <1>2, <1>3, <1>4 DEF IInv, DataInv, RangeTransfers
  <1>7. InStep'
    BY <1>4 DEF InStep, Meets, Idle
  <1>8. got' = Bytes(sent)'
    BY <1>1, <1>2 DEF Bytes
  <1>9. ServedInv'
    BY <1>1, <1>2, <1>4, <1>8 DEF ServedInv
  <1>. QED
    BY <1>5, <1>6, <1>7, <1>9 DEF IInv

(* A new server finds no old handle, and the reset leaves the console where *)
(* it begins a request.                                                     *)
LEMMA ProgramSteps ==
    ASSUME IInv, Start \/ Connect \/ ConnectEnds \/ LosesDevice \/ CloseProgram
    PROVE  IInv'
  <1>1. CASE Start
    <2>1. backend = "off" /\ backend' = "connect"
          /\ UNCHANGED <<console, asked, got, attached, size>>
          /\ stopping' = FALSE /\ queue' \subseteq Files
      BY <1>1 DEF Start, Running, consoleVars
    <2>2. attached' = FALSE
      BY <2>1, Posted DEF IInv, ControlInv, Meets
    <2>3. ControlInv' /\ DataInv'
      BY <2>1, <2>2 DEF IInv, ControlInv, DataInv, BackendPlaces
    <2>4. InStep' /\ ServedInv'
      BY <2>2 DEF InStep, ServedInv
    <2>. QED
      BY <2>3, <2>4 DEF IInv
  <1>2. CASE Connect
    <2>1. /\ UNCHANGED <<stopping, queue, size>> /\ stopping \in BOOLEAN
          /\ backend' = IF stopping THEN "off" ELSE "header"
      BY <1>2 DEF Connect, LoopTop, serverVars, IInv, ControlInv
    <2>2. backend' \in BackendPlaces
      BY <2>1 DEF BackendPlaces
    <2>3. CASE ConsoleFails
      BY <2>1, <2>2, <2>3, FailureSteps
    <2>4. CASE ~ConsoleFails
      <3>1. /\ console \in Idle \cup Asking
            /\ attached' = ~stopping
            /\ UNCHANGED <<console, asked, got>>
        BY <1>2, <2>4 DEF Connect, Busy, consoleVars
      <3>2. \/ attached' = FALSE
            \/ attached' = TRUE /\ backend' = "header"
        BY <2>1, <3>1
      <3>3. ControlInv' /\ DataInv'
        BY <2>1, <2>2, <3>1, <3>2 DEF IInv, ControlInv, DataInv
      <3>4. InStep' /\ ServedInv'
        BY <3>1, <3>2 DEF InStep, Meets, ServedInv, Asking
      <3>. QED
        BY <3>3, <3>4 DEF IInv
    <2>. QED
      BY <2>3, <2>4
  <1>3. CASE ConnectEnds
    <2>1. /\ UNCHANGED <<stopping, queue, size>>
          /\ backend' = "off" /\ attached' = FALSE
      BY <1>3 DEF ConnectEnds, BackendGoes, serverVars, IInv, ControlInv
    <2>2. backend' \in BackendPlaces
      BY <2>1 DEF BackendPlaces
    <2>3. CASE ConsoleFails
      BY <2>1, <2>2, <2>3, FailureSteps
    <2>4. CASE UNCHANGED consoleVars
      BY <2>1, <2>2, <2>4, ServerEnds DEF consoleVars
    <2>. QED
      BY <1>3, <2>3, <2>4 DEF ConnectEnds
  <1>4. CASE LosesDevice
    BY <1>4, ServerEnds DEF LosesDevice, consoleVars, serverVars, BackendPlaces, IInv, ControlInv
  <1>5. CASE CloseProgram
    BY <1>5, ServerEnds DEF CloseProgram, BackendGoes, consoleVars, serverVars, BackendPlaces, IInv, ControlInv
  <1>. QED
    BY <1>1, <1>2, <1>3, <1>4, <1>5

LEMMA OutsideSteps ==
    ASSUME IInv, LinkFails \/ Stop \/ FileChanges \/ UNCHANGED vars
    PROVE  IInv'
  <1>1. CASE LinkFails
    <2>1. UNCHANGED <<backend, stopping, queue, size>> /\ backend' \in BackendPlaces
      BY <1>1 DEF LinkFails, serverVars, IInv, ControlInv
    <2>2. CASE Busy
      BY <1>1, <2>1, <2>2, FailureSteps DEF LinkFails
    <2>3. CASE ~Busy
      BY <1>1, <2>1, <2>3, ServerEnds DEF LinkFails, consoleVars
    <2>. QED
      BY <2>2, <2>3
  <1>2. CASE Stop \/ FileChanges \/ UNCHANGED vars
    <2>1. /\ UNCHANGED <<console, asked, got, backend, attached, queue, request, sent, chunk>>
          /\ stopping' \in BOOLEAN
          /\ size' \in [Files -> Nat]
      <3>1. CASE Stop
        BY <3>1 DEF Stop, consoleVars, serverVars, IInv, DataInv
      <3>2. CASE FileChanges
        BY <3>2, BoundsAssumption DEF FileChanges, consoleVars, serverVars, IInv, ControlInv, DataInv
      <3>3. CASE UNCHANGED vars
        BY <3>3 DEF vars, consoleVars, serverVars, IInv, ControlInv, DataInv
      <3>. QED
        BY <1>2, <3>1, <3>2, <3>3
    <2>2. ControlInv' /\ DataInv'
      BY <2>1 DEF IInv, ControlInv, DataInv
    <2>3. InStep'
      BY <2>1 DEF IInv, InStep, Meets
    <2>4. Bytes(sent)' = Bytes(sent)
      BY <2>1 DEF Bytes
    <2>5. ServedInv'
      BY <2>1, <2>4 DEF IInv, ServedInv
    <2>. QED
      BY <2>2, <2>3, <2>5 DEF IInv
  <1>. QED
    BY <1>1, <1>2

-----------------------------------------------------------------------------
(* The results. *)

(* The strengthened invariant holds in every reachable state, for all      *)
(* files, ranges and bounds.                                               *)
THEOREM Inductive == Spec => []IInv
  <1>1. ASSUME IInv, [Next]_vars
        PROVE  IInv'
    <2>1. CASE ListFiles \/ ReadRange \/ Leave
      BY <1>1, <2>1, MenuSteps
    <2>2. CASE Transfer
      BY <1>1, <2>2, HeaderSteps, AckSteps, RequestSteps, AnswerSteps, ListSteps,
         SendSteps DEF Transfer
    <2>3. CASE ServerAlone
      BY <1>1, <2>3, NextChunkSteps, ProgramSteps DEF ServerAlone
    <2>4. CASE Start \/ CloseProgram
      BY <1>1, <2>4, ProgramSteps
    <2>5. CASE LinkFails \/ Stop \/ FileChanges \/ UNCHANGED vars
      BY <1>1, <2>5, OutsideSteps
    <2>. QED
      BY <1>1, <2>1, <2>2, <2>3, <2>4, <2>5 DEF Next
  <1>. QED
    BY <1>1, InitInv, PTL DEF Spec

(* Whatever is interrupted, neither side of the DBI link takes what was    *)
(* written for one command as the answer to another: dbi_catalog.c closes  *)
(* the device at each fail label, and server.py ends at each exception.    *)
THEOREM StaysInStep == Spec => []InStep
  <1>1. IInv => InStep
    BY DEF IInv
  <1>. QED
    BY <1>1, Inductive, PTL

(* What one step may return: a list that is the server's, or a range whole *)
(* and in order.                                                           *)
LEMMA StepAnswersRight ==
    ASSUME IInv, [Next]_vars
    PROVE  /\ answer'.what = "list" /\ answer.what # "list" => answer'.names = queue
           /\ answer'.what = "range" /\ answer.what # "range" =>
                 answer'.bytes = [i \in 1 .. asked.size |-> <<asked.name, asked.offset + i - 1>>]
  <1>1. CASE answer' = answer
    BY <1>1
  <1>2. CASE answer' = NoAnswer
    BY <1>2 DEF NoAnswer
  <1>3. CASE ConsoleFails
    BY <1>3 DEF ConsoleFails
  <1>4. CASE ConsoleReadsList
    BY <1>4 DEF ConsoleReadsList
  <1>5. CASE SendChunk /\ answer' # answer
    <2>1. answer' = [what |-> "range", range |-> asked, bytes |-> got'] /\ Len(got') >= asked.size
      BY <1>5 DEF SendChunk
    <2>2. sent' = asked.size
      BY <1>5, <2>1, ChunkArrives DEF IInv, DataInv
    <2>3. got' = Bytes(asked.size)
      BY <1>5, <2>2, ChunkArrives
    <2>. QED
      BY <2>1, <2>3 DEF Bytes
  <1>6. \/ answer' = answer \/ answer' = NoAnswer \/ ConsoleFails
        \/ ConsoleReadsList \/ (SendChunk /\ answer' # answer)
    <2>1. CASE ListFiles \/ ReadRange \/ Leave
      BY <2>1 DEF ListFiles, ReadRange, Leave, Asks
    <2>2. CASE Transfer
      BY <2>2 DEF Transfer, ServerReadsHeader, ServerReadsAck, ServerReadsRequest,
                  ConsoleReadsHeader, ConsoleWritten
    <2>3. CASE ServerAlone
      BY <2>3 DEF ServerAlone, NextChunk, Connect, ConnectEnds, LosesDevice, consoleVars
    <2>4. CASE Start \/ Stop \/ CloseProgram \/ LinkFails \/ FileChanges \/ UNCHANGED vars
      BY <2>4 DEF Start, Stop, CloseProgram, LinkFails, FileChanges, consoleVars, vars
    <2>. QED
      BY <2>1, <2>2, <2>3, <2>4 DEF Next
  <1>. QED
    BY <1>1, <1>2, <1>3, <1>4, <1>5, <1>6

(* A request of the console that succeeds returned what was asked: the     *)
(* names of the server, or every byte of the range, in order, for every    *)
(* size of a range and of a chunk.                                         *)
THEOREM AnswersRight == Spec => AnswersAreRight
  <1>. QED
    BY StepAnswersRight, Inductive, PTL DEF Spec, AnswersAreRight

-----------------------------------------------------------------------------
(* RangeCoverage: what the sort, the merge and the sum return. *)

(* A set of natural numbers that is not empty has a least element. *)
LEMMA Least ==
    ASSUME NEW T \in SUBSET Nat, T # {}
    PROVE  \E x \in T : \A y \in T : x =< y
  <1>. DEFINE R == {ss \in Nat \X Nat : ss[1] < ss[2]}
  <1>1. IsWellFoundedOn(R, Nat)
    BY NatLessThanWellFounded DEF OpToRel
  <1>2. \E x \in T : \A y \in T : ~(<<y, x>> \in R)
    <2>. HIDE DEF R
    <2>. QED
      BY <1>1, WFMin
  <1>3. PICK x \in T : \A y \in T : ~(<<y, x>> \in R)
    BY <1>2
  <1>4. ASSUME NEW y \in T PROVE x =< y
    <2>1. <<y, x>> \in Nat \X Nat /\ <<y, x>>[1] = y /\ <<y, x>>[2] = x
      BY <1>3
    <2>2. ~(y < x)
      BY <1>3, <2>1
    <2>. QED
      BY <2>2
  <1>. QED
    BY <1>4

(* What is so at 0, and at n whenever it is so at n - 1, is so up to N. *)
LEMMA NoFirst ==
    ASSUME NEW N \in Nat, NEW Holds \in SUBSET (0 .. N), 0 \in Holds,
           \A n \in 1 .. N : n - 1 \in Holds => n \in Holds
    PROVE  Holds = 0 .. N
  <1>. DEFINE Others == (0 .. N) \ Holds
  <1>1. SUFFICES ASSUME Others # {} PROVE FALSE
    OBVIOUS
  <1>2. PICK n \in Others : \A m \in Others : n =< m
    <2>1. Others \in SUBSET Nat
      OBVIOUS
    <2>. HIDE DEF Others
    <2>. QED
      BY <1>1, <2>1, Least
  <1>3. n \in 1 .. N /\ n \notin Holds
    BY <1>2
  <1>4. n - 1 \in Holds
    <2>1. n - 1 \in 0 .. N /\ ~(n =< n - 1)
      BY <1>3
    <2>. QED
      BY <1>2, <2>1
  <1>. QED
    BY <1>3, <1>4

(* The values of a set X that a loop of N rounds goes through. *)
RunOf(run, N, X, first, Round) ==
    /\ run \in [0 .. N -> X] /\ run[0] = first
    /\ \A n \in 1 .. N : run[n] = Round[n][run[n - 1]]

(* Every loop has a run. *)
LEMMA LoopRuns ==
    ASSUME NEW N \in Nat, NEW X, NEW first \in X, NEW Round \in [1 .. N -> [X -> X]]
    PROVE  \E run : RunOf(run, N, X, first, Round)
  <1>. DEFINE IsRun(run, n) ==
                /\ run \in [0 .. n -> X] /\ run[0] = first
                /\ \A m \in 1 .. n : run[m] = Round[m][run[m - 1]]
              Runs == {n \in 0 .. N : \E run : IsRun(run, n)}
  <1>1. 0 \in Runs
    <2>. DEFINE run == [m \in 0 .. 0 |-> first]
    <2>1. IsRun(run, 0)
      OBVIOUS
    <2>. HIDE DEF IsRun, run
    <2>. QED
      BY <2>1
  <1>2. ASSUME NEW n \in 1 .. N, n - 1 \in Runs PROVE n \in Runs
    <2>1. PICK old : IsRun(old, n - 1)
      BY <1>2
    <2>. DEFINE last == Round[n][old[n - 1]]
                run == [m \in 0 .. n |-> IF m = n THEN last ELSE old[m]]
    <2>2. old[n - 1] \in X /\ last \in X
      BY <2>1
    <2>. HIDE DEF last
    <2>3. run \in [0 .. n -> X] /\ run[0] = first /\ run[n] = last
      BY <2>1, <2>2
    <2>4. ASSUME NEW m \in 1 .. n PROVE run[m] = Round[m][run[m - 1]]
      <3>1. m - 1 \in 0 .. n - 1 /\ run[m - 1] = old[m - 1]
        OBVIOUS
      <3>2. CASE m = n
        BY <3>1, <3>2 DEF last
      <3>3. CASE m # n
        <4>1. m \in 1 .. n - 1 /\ run[m] = old[m]
          BY <3>3
        <4>. QED
          BY <2>1, <3>1, <4>1
      <3>. QED
        BY <3>2, <3>3
    <2>. HIDE DEF run
    <2>5. IsRun(run, n)
      BY <2>3, <2>4
    <2>. HIDE DEF IsRun
    <2>. QED
      BY <2>5
  <1>3. N \in Runs
    <2>1. Runs \in SUBSET (0 .. N)
      OBVIOUS
    <2>. HIDE DEF Runs
    <2>. QED
      BY <1>1, <1>2, <2>1, NoFirst
  <1>. QED
    BY <1>3 DEF RunOf

Pairs == Nat \X Nat

Ordered(seq) == \A i, j \in DOMAIN seq : i < j => Before(seq[i], seq[j])

(* A finite set of intervals has a first one. *)
LEMMA FirstPair ==
    ASSUME NEW S \in SUBSET Pairs, S # {}
    PROVE  \E p \in S : \A q \in S : Before(p, q)
  <1>. DEFINE Starts == {q[1] : q \in S}
  <1>1. PICK a \in Starts : \A b \in Starts : a =< b
    <2>1. Starts \in SUBSET Nat /\ Starts # {}
      BY DEF Pairs
    <2>. HIDE DEF Starts
    <2>. QED
      BY <2>1, Least
  <1>. DEFINE Ends == {q[2] : q \in {r \in S : r[1] = a}}
  <1>2. PICK c \in Ends : \A d \in Ends : c =< d
    <2>1. Ends \in SUBSET Nat /\ Ends # {}
      BY <1>1 DEF Pairs
    <2>. HIDE DEF Ends
    <2>. QED
      BY <2>1, Least
  <1>3. PICK p \in S : p[1] = a /\ p[2] = c
    BY <1>2
  <1>4. ASSUME NEW q \in S PROVE Before(p, q)
    <2>1. q[1] \in Nat /\ q[2] \in Nat /\ a \in Nat /\ a =< q[1] /\ c \in Nat
      BY <1>1, <1>3 DEF Pairs
    <2>2. q[1] = a => c =< q[2]
      BY <1>2
    <2>. QED
      BY <1>3, <2>1, <2>2 DEF Before
  <1>. QED
    BY <1>4

Sortable(S) ==
    \E seq \in [1 .. Cardinality(S) -> S] : ToSet(seq) = S /\ Ordered(seq)

LEMMA AllSortable ==
    ASSUME NEW S \in SUBSET Pairs, IsFiniteSet(S)
    PROVE  Sortable(S)
  <1>. DEFINE Unsorted ==
         {n \in Nat : \E U \in SUBSET Pairs :
             IsFiniteSet(U) /\ Cardinality(U) = n /\ ~Sortable(U)}
  <1>1. SUFFICES ASSUME Unsorted # {} PROVE FALSE
    <2>1. Cardinality(S) \in Nat
      BY FS_CardinalityType
    <2>. QED
      BY <2>1
  <1>2. PICK n \in Unsorted : \A m \in Unsorted : n =< m
    <2>1. Unsorted \in SUBSET Nat
      OBVIOUS
    <2>. HIDE DEF Unsorted
    <2>. QED
      BY <1>1, <2>1, Least
  <1>3. n \in Nat
    BY <1>2
  <1>4. PICK U \in SUBSET Pairs : IsFiniteSet(U) /\ Cardinality(U) = n /\ ~Sortable(U)
    BY <1>2
  <1>5. U # {}
    <2>1. SUFFICES ASSUME U = {} PROVE FALSE
      OBVIOUS
    <2>2. n = 0
      BY <1>4, <2>1, FS_EmptySet
    <2>. DEFINE seq == [i \in 1 .. 0 |-> i]
    <2>3. seq \in [1 .. 0 -> U] /\ ToSet(seq) = U /\ Ordered(seq)
      BY <2>1 DEF ToSet, Ordered
    <2>. HIDE DEF seq
    <2>. QED
      BY <1>4, <2>2, <2>3 DEF Sortable
  <1>6. PICK p \in U : \A q \in U : Before(p, q)
    BY <1>4, <1>5, FirstPair
  <1>. DEFINE V == U \ {p}
  <1>7. IsFiniteSet(V) /\ Cardinality(V) = n - 1 /\ n - 1 \in Nat
    <2>1. IsFiniteSet(V) /\ Cardinality(V) = n - 1
      BY <1>4, <1>6, FS_RemoveElement
    <2>2. Cardinality(V) \in Nat
      BY <2>1, FS_CardinalityType
    <2>. QED
      BY <2>1, <2>2
  <1>8. Sortable(V)
    <2>1. n - 1 \notin Unsorted
      BY <1>2, <1>3
    <2>2. V \in SUBSET Pairs
      BY <1>4
    <2>. HIDE DEF V
    <2>. QED
      BY <1>7, <2>1, <2>2
  <1>9. PICK old \in [1 .. n - 1 -> V] : ToSet(old) = V /\ Ordered(old)
    BY <1>7, <1>8 DEF Sortable
  <1>. DEFINE seq == [i \in 1 .. n |-> IF i = 1 THEN p ELSE old[i - 1]]
  <1>10. seq \in [1 .. n -> U]
    BY <1>3, <1>6, <1>9
  <1>11. ToSet(seq) = U
    <2>1. 1 \in 1 .. n /\ seq[1] = p
      BY <1>3, <1>7
    <2>2. ASSUME NEW q \in V PROVE \E i \in 1 .. n : seq[i] = q
      <3>1. PICK i \in 1 .. n - 1 : old[i] = q
        BY <1>9 DEF ToSet
      <3>2. i + 1 \in 1 .. n /\ seq[i + 1] = q
        BY <1>3, <3>1
      <3>. QED
        BY <3>2
    <2>3. \A q \in U : \E i \in 1 .. n : seq[i] = q
      BY <2>1, <2>2
    <2>. HIDE DEF seq
    <2>. QED
      BY <1>10, <2>3 DEF ToSet
  <1>12. Ordered(seq)
    <2>1. ASSUME NEW i \in 1 .. n, NEW j \in 1 .. n, i < j PROVE Before(seq[i], seq[j])
      <3>1. j - 1 \in 1 .. n - 1 /\ seq[j] = old[j - 1] /\ old[j - 1] \in U
        BY <1>3, <1>9, <2>1
      <3>2. CASE i = 1
        BY <1>6, <3>1, <3>2
      <3>3. CASE i # 1
        <4>1. i - 1 \in 1 .. n - 1 /\ seq[i] = old[i - 1] /\ i - 1 < j - 1
          BY <1>3, <2>1, <3>3
        <4>. QED
          BY <1>9, <3>1, <4>1 DEF Ordered
      <3>. QED
        BY <3>2, <3>3
    <2>. QED
      BY <2>1 DEF Ordered
  <1>. HIDE DEF seq
  <1>. QED
    BY <1>4, <1>10, <1>11, <1>12 DEF Sortable

(* sorted() returns the intervals it was given, in order. *)
LEMMA SortedIs ==
    ASSUME NEW S \in SUBSET Pairs, IsFiniteSet(S)
    PROVE  Sorted(S) \in Seq(Pairs) /\ ToSet(Sorted(S)) = S /\ Ordered(Sorted(S))
  <1>1. Sorted(S) \in [1 .. Cardinality(S) -> S] /\ ToSet(Sorted(S)) = S /\ Ordered(Sorted(S))
    BY AllSortable DEF Sortable, Sorted, Ordered
  <1>2. Cardinality(S) \in Nat
    BY FS_CardinalityType
  <1>. QED
    BY <1>1, <1>2

(* The positions in the first n intervals. *)
CoverTo(intervals, n) ==
    {x \in Nat : \E i \in 1 .. n : intervals[i][1] =< x /\ x < intervals[i][2]}
Cover(intervals) == CoverTo(intervals, Len(intervals))

(* Intervals that are not empty, in order, with a gap between each two. *)
Apart(intervals) ==
    /\ intervals \in Seq(Pairs)
    /\ \A i \in 1 .. Len(intervals) : intervals[i][1] < intervals[i][2]
    /\ \A i, j \in 1 .. Len(intervals) : i < j => intervals[i][2] < intervals[j][1]

(* One round of the loop of add(), for an interval that begins no earlier   *)
(* than those before it.                                                    *)
LEMMA JoinIs ==
    ASSUME NEW m, Apart(m), NEW p \in Pairs, p[1] < p[2],
           \A i \in 1 .. Len(m) : m[i][1] =< p[1]
    PROVE  /\ Apart(Join(m, p))
           /\ Cover(Join(m, p)) = Cover(m) \cup {x \in Nat : p[1] =< x /\ x < p[2]}
           /\ \A i \in 1 .. Len(Join(m, p)) : Join(m, p)[i][1] =< p[1]
  <1>. DEFINE n == Len(m)
  <1>1. m \in Seq(Pairs) /\ n \in Nat /\ (m = <<>> <=> n = 0)
    BY DEF Apart
  <1>2. p[1] \in Nat /\ p[2] \in Nat
        /\ \A i \in 1 .. n : m[i] \in Pairs /\ m[i][1] \in Nat /\ m[i][2] \in Nat
    BY <1>1 DEF Pairs
  <1>3. CASE m = <<>> \/ p[1] > Last(m)[2]
    <2>. DEFINE next == Append(m, p)
    <2>1. Join(m, p) = next
      BY <1>3 DEF Join
    <2>2. /\ next \in Seq(Pairs) /\ Len(next) = n + 1 /\ next[n + 1] = p
          /\ \A i \in 1 .. n : next[i] = m[i]
      BY <1>1
    <2>. HIDE DEF next
    <2>3. ASSUME NEW i \in 1 .. n PROVE m[i][2] < p[1]
      <3>1. n # 0 /\ Last(m) = m[n] /\ n \in 1 .. n
        BY <1>1 DEF Last
      <3>2. m[n][2] < p[1]
        BY <1>1, <1>2, <1>3, <3>1
      <3>3. CASE i = n
        BY <3>2, <3>3
      <3>4. CASE i # n
        <4>1. m[i][2] < m[n][1] /\ m[n][1] < m[n][2]
          BY <3>1, <3>4 DEF Apart
        <4>. QED
          BY <1>2, <3>1, <3>2, <4>1
      <3>. QED
        BY <3>3, <3>4
    <2>4. \A i \in 1 .. n + 1 : i \in 1 .. n \/ i = n + 1
      BY <1>1
    <2>5. \A i \in 1 .. n + 1 : next[i][1] < next[i][2] /\ next[i][1] =< p[1]
      BY <1>2, <2>2, <2>4 DEF Apart
    <2>6. \A i, j \in 1 .. n + 1 : i < j => next[i][2] < next[j][1]
      <3>1. \A i, j \in 1 .. n + 1 : i < j => i \in 1 .. n
        BY <1>1
      <3>2. ASSUME NEW i \in 1 .. n, NEW j \in 1 .. n + 1, i < j
            PROVE  next[i][2] < next[j][1]
        <4>1. CASE j \in 1 .. n
          BY <2>2, <3>2, <4>1 DEF Apart
        <4>2. CASE j = n + 1
          BY <2>2, <2>3, <4>2
        <4>. QED
          BY <2>4, <4>1, <4>2
      <3>. QED
        BY <3>1, <3>2
    <2>7. Apart(next)
      BY <2>2, <2>5, <2>6 DEF Apart
    <2>8. CoverTo(next, n + 1) = CoverTo(m, n) \cup {x \in Nat : p[1] =< x /\ x < p[2]}
      <3>1. \A i \in 1 .. n : i \in 1 .. n + 1
        BY <1>1
      <3>2. n + 1 \in 1 .. n + 1
        BY <1>1
      <3>. QED
        BY <2>2, <2>4, <3>1, <3>2 DEF CoverTo
    <2>. QED
      BY <2>1, <2>2, <2>5, <2>7, <2>8 DEF Cover
  <1>4. CASE ~(m = <<>> \/ p[1] > Last(m)[2])
    <2>1. n \in 1 .. n /\ n - 1 \in Nat /\ Last(m) = m[n]
      BY <1>1, <1>4 DEF Last
    <2>. DEFINE q == <<m[n][1], Larger(m[n][2], p[2])>>
                next == Append(Front(m), q)
    <2>2. Join(m, p) = next
      BY <1>4, <2>1 DEF Join
    <2>3. /\ q \in Pairs /\ q[1] = m[n][1]
          /\ q[2] = IF m[n][2] < p[2] THEN p[2] ELSE m[n][2]
          /\ q[1] =< p[1] /\ p[1] =< m[n][2] /\ q[1] < m[n][2] /\ q[1] < q[2]
      <3>1. m[n][1] < m[n][2] /\ m[n][1] =< p[1] /\ p[1] =< m[n][2]
        BY <1>2, <1>4, <2>1 DEF Apart
      <3>. QED
        BY <1>2, <2>1, <3>1 DEF Larger, Pairs
    <2>. HIDE DEF q
    <2>4. Front(m) \in Seq(Pairs) /\ Len(Front(m)) = n - 1
          /\ \A i \in 1 .. n - 1 : Front(m)[i] = m[i]
      <3>1. \A i \in 1 .. n - 1 : m[i] \in Pairs
        BY <1>2, <2>1
      <3>. HIDE DEF n
      <3>2. /\ SubSeq(m, 1, n - 1) \in Seq(Pairs)
            /\ Len(SubSeq(m, 1, n - 1)) = IF 1 <= n - 1 THEN n - 1 - 1 + 1 ELSE 0
            /\ \A i \in 1 .. n - 1 - 1 + 1 : SubSeq(m, 1, n - 1)[i] = m[1 + i - 1]
        BY <2>1, <3>1, SubSeqProperties
      <3>3. Front(m) = SubSeq(m, 1, n - 1)
        BY DEF Front, n
      <3>4. Len(Front(m)) = n - 1 /\ n - 1 - 1 + 1 = n - 1
        BY <2>1, <3>2, <3>3
      <3>5. \A i \in 1 .. n - 1 : 1 + i - 1 = i
        OBVIOUS
      <3>. QED
        BY <3>2, <3>3, <3>4, <3>5
    <2>5. /\ next \in Seq(Pairs) /\ Len(next) = n /\ next[n] = q
          /\ \A i \in 1 .. n - 1 : next[i] = m[i]
      BY <2>1, <2>3, <2>4
    <2>. HIDE DEF next
    <2>6. \A i \in 1 .. n : i = n \/ i \in 1 .. n - 1
      BY <2>1
    <2>7. \A i \in 1 .. n - 1 : i \in 1 .. n /\ i < n
      BY <2>1
    <2>8. ASSUME NEW i \in 1 .. n
          PROVE  next[i][1] = m[i][1] /\ next[i][1] < next[i][2] /\ next[i][1] =< p[1]
      BY <2>3, <2>5, <2>6 DEF Apart
    <2>9. \A i, j \in 1 .. n : i < j => next[i][2] < next[j][1]
      <3>1. ASSUME NEW i \in 1 .. n, NEW j \in 1 .. n, i < j PROVE next[i][2] < next[j][1]
        <4>1. i \in 1 .. n - 1 /\ m[i][2] < m[j][1]
          BY <3>1, <2>1 DEF Apart
        <4>. QED
          BY <2>5, <2>8, <4>1
      <3>. QED
        BY <3>1
    <2>10. Apart(next)
      BY <2>5, <2>8, <2>9 DEF Apart
    <2>11. CoverTo(next, n) = CoverTo(m, n) \cup {x \in Nat : p[1] =< x /\ x < p[2]}
      <3>1. ASSUME NEW x \in Nat
            PROVE  q[1] =< x /\ x < q[2] <=>
                      (m[n][1] =< x /\ x < m[n][2]) \/ (p[1] =< x /\ x < p[2])
        BY <1>2, <2>1, <2>3
      <3>2. ASSUME NEW x \in Nat
            PROVE  (\E i \in 1 .. n : next[i][1] =< x /\ x < next[i][2]) <=>
                      \/ \E i \in 1 .. n : m[i][1] =< x /\ x < m[i][2]
                      \/ p[1] =< x /\ x < p[2]
        BY <2>1, <2>5, <2>6, <2>7, <3>1
      <3>. QED
        BY <3>2 DEF CoverTo
    <2>. QED
      BY <2>2, <2>5, <2>8, <2>10, <2>11 DEF Cover
  <1>. QED
    BY <1>3, <1>4

-----------------------------------------------------------------------------
(* What the loop of add() makes of sorted intervals: intervals apart that   *)
(* cover the same positions. *)
LEMMA MergedIs ==
    ASSUME NEW s \in Seq(Pairs), Ordered(s),
           \A i \in 1 .. Len(s) : s[i][1] < s[i][2]
    PROVE  Apart(Merged(s)) /\ Cover(Merged(s)) = Cover(s)
  <1>. DEFINE N == Len(s)
              Round == [n \in 1 .. N |-> [m \in Seq(Pairs) |-> Join(m, s[n])]]
              IsRun(run) == run = [n \in 0 .. N |->
                                IF n = 0 THEN <<>> ELSE Join(run[n - 1], s[n])]
  <1>1. N \in Nat /\ \A n \in 1 .. N : s[n] \in Pairs /\ s[n][1] \in Nat /\ s[n][2] \in Nat
    BY DEF Pairs
  <1>2. \A m \in Seq(Pairs), p \in Pairs : Join(m, p) \in Seq(Pairs)
    <2>1. ASSUME NEW m \in Seq(Pairs), NEW p \in Pairs PROVE Join(m, p) \in Seq(Pairs)
      <3>1. CASE m = <<>> \/ p[1] > Last(m)[2]
        BY <3>1 DEF Join
      <3>2. CASE ~(m = <<>> \/ p[1] > Last(m)[2])
        <4>1. Len(m) \in 1 .. Len(m) /\ Last(m) \in Pairs
          BY <3>2 DEF Last
        <4>2. \A i \in 1 .. Len(m) - 1 : m[i] \in Pairs
          OBVIOUS
        <4>3. Front(m) \in Seq(Pairs)
          BY <4>2, SubSeqProperties DEF Front
        <4>4. <<Last(m)[1], Larger(Last(m)[2], p[2])>> \in Pairs
          BY <4>1 DEF Larger, Pairs
        <4>. QED
          BY <3>2, <4>3, <4>4 DEF Join
      <3>. QED
        BY <3>1, <3>2
    <2>. QED
      BY <2>1
  <1>3. \E run : run \in [0 .. N -> Seq(Pairs)] /\ IsRun(run)
    <2>1. /\ Round \in [1 .. N -> [Seq(Pairs) -> Seq(Pairs)]]
          /\ <<>> \in Seq(Pairs) /\ N \in Nat
      <3>1. ASSUME NEW n \in 1 .. N
            PROVE  [m \in Seq(Pairs) |-> Join(m, s[n])] \in [Seq(Pairs) -> Seq(Pairs)]
        BY <1>1, <1>2
      <3>2. Round \in [1 .. N -> [Seq(Pairs) -> Seq(Pairs)]]
        BY <3>1, Zenon
      <3>. QED
        BY <1>1, <3>2
    <2>2. \A n \in 1 .. N : \A m \in Seq(Pairs) : Round[n][m] = Join(m, s[n])
      OBVIOUS
    <2>3. \A n \in 0 .. N : n # 0 => n \in 1 .. N /\ n - 1 \in 0 .. N
      BY <1>1
    <2>. HIDE DEF Round, N
    <2>4. PICK run \in [0 .. N -> Seq(Pairs)] :
             run[0] = <<>> /\ \A n \in 1 .. N : run[n] = Round[n][run[n - 1]]
      <3>1. \E run : RunOf(run, N, Seq(Pairs), <<>>, Round)
        BY <2>1, LoopRuns
      <3>. QED
        BY <3>1 DEF RunOf
    <2>5. ASSUME NEW n \in 0 .. N
          PROVE  run[n] = IF n = 0 THEN <<>> ELSE Join(run[n - 1], s[n])
      BY <2>2, <2>3, <2>4
    <2>. QED
      BY <2>4, <2>5
  <1>4. PICK any : any \in [0 .. N -> Seq(Pairs)] /\ IsRun(any)
    BY <1>3
  <1>. DEFINE merged == CHOOSE run : IsRun(run)
  <1>5. IsRun(merged)
    <2>. HIDE DEF IsRun
    <2>. QED
      BY <1>4
  <1>6. Merged(s) = merged[N]
    BY DEF Merged
  <1>7. /\ merged[0] = <<>>
        /\ \A n \in 1 .. N : merged[n] = Join(merged[n - 1], s[n])
    <2>. HIDE DEF merged
    <2>. QED
      BY <1>1, <1>5
  <1>. HIDE DEF merged, IsRun, Round
  <1>. DEFINE Good(n) ==
                /\ Apart(merged[n])
                /\ Cover(merged[n]) = CoverTo(s, n)
                /\ n > 0 => \A i \in 1 .. Len(merged[n]) : merged[n][i][1] =< s[n][1]
              Holds == {n \in 0 .. N : Good(n)}
  <1>8. 0 \in Holds
    <2>1. Apart(<<>>) /\ Cover(<<>>) = {}
      BY DEF Apart, Cover, CoverTo
    <2>2. CoverTo(s, 0) = {}
      BY DEF CoverTo
    <2>3. Apart(merged[0]) /\ Cover(merged[0]) = CoverTo(s, 0)
      BY <1>7, <2>1, <2>2
    <2>4. 0 \in 0 .. N /\ Good(0)
      BY <1>1, <2>3
    <2>. HIDE DEF Good
    <2>. QED
      BY <2>4
  <1>9. ASSUME NEW n \in 1 .. N, n - 1 \in Holds PROVE n \in Holds
    <2>. DEFINE m == merged[n - 1]
    <2>1. Apart(m) /\ Cover(m) = CoverTo(s, n - 1)
      BY <1>9
    <2>2. \A i \in 1 .. Len(m) : m[i][1] =< s[n][1]
      <3>1. CASE n - 1 = 0
        <4>1. m = <<>>
          BY <1>7, <3>1
        <4>. QED
          BY <4>1
      <3>2. CASE n - 1 > 0
        <4>1. n - 1 \in DOMAIN s /\ n \in DOMAIN s /\ n - 1 < n
          BY <1>1, <3>2
        <4>2. Before(s[n - 1], s[n])
          BY <4>1 DEF Ordered
        <4>3. s[n - 1][1] =< s[n][1]
          BY <1>1, <4>1, <4>2 DEF Before
        <4>4. \A i \in 1 .. Len(m) : m[i][1] =< s[n - 1][1]
          BY <1>9, <3>2
        <4>5. \A i \in 1 .. Len(m) : m[i][1] \in Nat
          <5>. HIDE DEF m
          <5>1. \A i \in 1 .. Len(m) : m[i] \in Pairs
            BY <2>1 DEF Apart
          <5>. QED
            BY <5>1 DEF Pairs
        <4>. QED
          <5>1. s[n - 1][1] \in Nat /\ s[n][1] \in Nat
            BY <1>1, <4>1
          <5>. HIDE DEF m
          <5>. QED
            BY <4>3, <4>4, <4>5, <5>1
      <3>. QED
        BY <1>1, <3>1, <3>2
    <2>3. s[n] \in Pairs /\ s[n][1] < s[n][2]
      BY <1>1
    <2>. HIDE DEF m
    <2>4. /\ Apart(Join(m, s[n]))
          /\ Cover(Join(m, s[n])) = Cover(m) \cup {x \in Nat : s[n][1] =< x /\ x < s[n][2]}
          /\ \A i \in 1 .. Len(Join(m, s[n])) : Join(m, s[n])[i][1] =< s[n][1]
      BY <2>1, <2>2, <2>3, JoinIs
    <2>5. merged[n] = Join(m, s[n])
      BY <1>7 DEF m
    <2>6. CoverTo(s, n) = CoverTo(s, n - 1) \cup {x \in Nat : s[n][1] =< x /\ x < s[n][2]}
      <3>1. \A i \in 1 .. n : i = n \/ i \in 1 .. n - 1
        BY <1>1
      <3>2. n \in 1 .. n /\ \A i \in 1 .. n - 1 : i \in 1 .. n
        BY <1>1
      <3>. QED
        BY <3>1, <3>2 DEF CoverTo
    <2>7. Good(n)
      BY <2>1, <2>4, <2>5, <2>6
    <2>8. n \in 0 .. N
      BY <1>1
    <2>. HIDE DEF Good
    <2>. QED
      BY <2>7, <2>8
  <1>10. N \in Holds
    <2>1. Holds \in SUBSET (0 .. N) /\ N \in 0 .. N
      BY <1>1
    <2>. HIDE DEF Holds, N
    <2>. QED
      BY <1>1, <1>8, <1>9, <2>1, NoFirst
  <1>. QED
    BY <1>6, <1>10 DEF Cover

(* The positions a server counts are those its intervals cover. *)
LEMMA TransferredIs ==
    ASSUME NEW m, Apart(m)
    PROVE  /\ IsFiniteSet(Cover(m))
           /\ Transferred(m) = Cardinality(Cover(m))
  <1>. DEFINE N == Len(m)
              Round == [n \in 1 .. N |-> [k \in Int |-> k + (m[n][2] - m[n][1])]]
              IsRun(run) == run = [n \in 0 .. N |->
                                IF n = 0 THEN 0 ELSE run[n - 1] + (m[n][2] - m[n][1])]
  <1>1. /\ N \in Nat
        /\ \A n \in 1 .. N : m[n][1] \in Nat /\ m[n][2] \in Nat /\ m[n][1] < m[n][2]
    BY DEF Apart, Pairs
  <1>2. \E run : run \in [0 .. N -> Int] /\ IsRun(run)
    <2>1. Round \in [1 .. N -> [Int -> Int]] /\ 0 \in Int /\ N \in Nat
      BY <1>1
    <2>2. \A n \in 1 .. N : \A k \in Int : Round[n][k] = k + (m[n][2] - m[n][1])
      OBVIOUS
    <2>3. \A n \in 0 .. N : n # 0 => n \in 1 .. N /\ n - 1 \in 0 .. N
      BY <1>1
    <2>. HIDE DEF Round, N
    <2>4. PICK run \in [0 .. N -> Int] :
             run[0] = 0 /\ \A n \in 1 .. N : run[n] = Round[n][run[n - 1]]
      <3>1. \E run : RunOf(run, N, Int, 0, Round)
        BY <2>1, LoopRuns
      <3>. QED
        BY <3>1 DEF RunOf
    <2>5. ASSUME NEW n \in 0 .. N
          PROVE  run[n] = IF n = 0 THEN 0 ELSE run[n - 1] + (m[n][2] - m[n][1])
      BY <2>2, <2>3, <2>4
    <2>6. IsRun(run)
      BY <2>4, <2>5
    <2>. HIDE DEF IsRun
    <2>. QED
      BY <2>4, <2>6
  <1>. DEFINE bytes == CHOOSE run : IsRun(run)
  <1>3. IsRun(bytes)
    <2>. HIDE DEF IsRun
    <2>. QED
      BY <1>2
  <1>4. Transferred(m) = bytes[N]
    BY DEF Transferred
  <1>5. /\ bytes[0] = 0
        /\ \A n \in 1 .. N : bytes[n] = bytes[n - 1] + (m[n][2] - m[n][1])
    <2>. HIDE DEF bytes
    <2>. QED
      BY <1>1, <1>3
  <1>. HIDE DEF bytes, IsRun, Round
  <1>. DEFINE Good(n) == /\ IsFiniteSet(CoverTo(m, n))
                         /\ bytes[n] = Cardinality(CoverTo(m, n))
              Holds == {n \in 0 .. N : Good(n)}
  <1>6. 0 \in Holds
    <2>1. CoverTo(m, 0) = {}
      BY DEF CoverTo
    <2>2. IsFiniteSet({}) /\ Cardinality({}) = 0
      BY FS_EmptySet
    <2>3. IsFiniteSet(CoverTo(m, 0)) /\ bytes[0] = Cardinality(CoverTo(m, 0))
      BY <1>5, <2>1, <2>2
    <2>4. 0 \in 0 .. N /\ Good(0)
      BY <1>1, <2>3
    <2>. HIDE DEF Good
    <2>. QED
      BY <2>4
  <1>7. ASSUME NEW n \in 1 .. N, n - 1 \in Holds PROVE n \in Holds
    <2>. DEFINE old == CoverTo(m, n - 1)
                new == m[n][1] .. m[n][2] - 1
    <2>1. IsFiniteSet(old) /\ bytes[n - 1] = Cardinality(old)
      BY <1>7
    <2>2. IsFiniteSet(new) /\ Cardinality(new) = m[n][2] - m[n][1]
      <3>1. m[n][1] \in Int /\ m[n][2] - 1 \in Int /\ ~(m[n][1] > m[n][2] - 1)
            /\ m[n][2] - 1 - m[n][1] + 1 = m[n][2] - m[n][1]
        <4>. DEFINE start == m[n][1]
                    end == m[n][2]
        <4>1. start \in Nat /\ end \in Nat /\ start < end
          BY <1>1
        <4>. HIDE DEF start, end
        <4>2. /\ start \in Int /\ end - 1 \in Int /\ ~(start > end - 1)
              /\ end - 1 - start + 1 = end - start
          BY <4>1
        <4>. QED
          BY <4>2 DEF start, end
      <3>2. /\ IsFiniteSet(new)
            /\ Cardinality(new) = IF m[n][1] > m[n][2] - 1 THEN 0 ELSE m[n][2] - 1 - m[n][1] + 1
        BY <3>1, FS_Interval
      <3>. QED
        BY <3>1, <3>2
    <2>3. old \cap new = {}
      <3>1. SUFFICES ASSUME NEW x \in old, x \in new PROVE FALSE
        OBVIOUS
      <3>2. PICK i \in 1 .. n - 1 : m[i][1] =< x /\ x < m[i][2]
        BY <3>1 DEF CoverTo
      <3>3. i \in 1 .. N /\ i < n
        BY <1>1, <3>2
      <3>4. m[i][2] < m[n][1]
        BY <3>3 DEF Apart
      <3>. QED
        BY <1>1, <3>1, <3>2, <3>3, <3>4
    <2>4. CoverTo(m, n) = old \cup new
      <3>1. \A i \in 1 .. n : i = n \/ i \in 1 .. n - 1
        BY <1>1
      <3>2. n \in 1 .. n /\ \A i \in 1 .. n - 1 : i \in 1 .. n
        BY <1>1
      <3>3. new = {x \in Nat : m[n][1] =< x /\ x < m[n][2]}
        BY <1>1
      <3>. QED
        BY <3>1, <3>2, <3>3 DEF CoverTo
    <2>. HIDE DEF old, new
    <2>5. /\ IsFiniteSet(old \cup new)
          /\ Cardinality(old \cup new) = Cardinality(old) + Cardinality(new) - Cardinality(old \cap new)
      BY <2>1, <2>2, FS_Union
    <2>6. Cardinality({}) = 0 /\ Cardinality(old) \in Nat
      BY <2>1, FS_EmptySet, FS_CardinalityType
    <2>7. Cardinality(old \cup new) = bytes[n - 1] + (m[n][2] - m[n][1])
      <3>1. Cardinality(old \cap new) = 0
        BY <2>3, <2>6
      <3>2. m[n][1] \in Nat /\ m[n][2] \in Nat
        BY <1>1
      <3>3. Cardinality(old \cup new) = bytes[n - 1] + (m[n][2] - m[n][1]) - 0
        BY <2>1, <2>2, <2>5, <3>1
      <3>. QED
        BY <2>1, <2>6, <3>2, <3>3
    <2>8. Good(n) /\ n \in 0 .. N
      BY <1>1, <1>5, <2>4, <2>5, <2>7
    <2>. HIDE DEF Good
    <2>. QED
      BY <2>8
  <1>8. N \in Holds
    <2>1. Holds \in SUBSET (0 .. N) /\ N \in 0 .. N
      BY <1>1
    <2>. HIDE DEF Holds, N
    <2>. QED
      BY <1>1, <1>6, <1>7, <2>1, NoFirst
  <1>. QED
    BY <1>4, <1>8 DEF Cover

(* add(): the positions of the part of a range that lies in the file join   *)
(* those covered. *)
LEMMA CoveredIs ==
    ASSUME NEW ranges, Apart(ranges), NEW length \in Nat,
           NEW start \in Nat, NEW end \in Nat, start =< end
    PROVE  /\ Apart(Covered(ranges, length, start, end))
           /\ Cover(Covered(ranges, length, start, end))
                = Cover(ranges) \cup ((start .. end - 1) \cap (0 .. length - 1))
  <1>. DEFINE first == Smaller(start, length)
              last == Larger(first, Smaller(end, length))
              all == ToSet(ranges) \cup {<<first, last>>}
  <1>1. /\ first \in Nat /\ last \in Nat /\ first =< last
        /\ \A x \in Nat : (first =< x /\ x < last) <=>
                             x \in (start .. end - 1) \cap (0 .. length - 1)
    BY DEF Smaller, Larger
  <1>2. Covered(ranges, length, start, end)
          = IF first = last THEN ranges ELSE Merged(Sorted(all))
    BY DEF Covered
  <1>3. \A x \in (start .. end - 1) \cap (0 .. length - 1) : x \in Nat
    OBVIOUS
  <1>. DEFINE part == {x \in Nat : first =< x /\ x < last}
  <1>4. part = (start .. end - 1) \cap (0 .. length - 1)
    <2>. HIDE DEF first, last
    <2>. QED
      BY <1>1, <1>3
  <1>. HIDE DEF first, last
  <1>5. CASE first = last
    <2>1. part = {}
      BY <1>1, <1>5
    <2>. QED
      BY <1>2, <1>4, <1>5, <2>1
  <1>6. CASE first # last
    <2>1. ranges \in Seq(Pairs) /\ Len(ranges) \in Nat
          /\ DOMAIN ranges = 1 .. Len(ranges)
          /\ \A i \in 1 .. Len(ranges) : ranges[i] \in Pairs /\ ranges[i][1] < ranges[i][2]
      BY DEF Apart
    <2>2. all \in SUBSET Pairs /\ \A p \in all : p[1] < p[2]
      BY <1>1, <1>6, <2>1 DEF ToSet, Pairs
    <2>3. IsFiniteSet(all)
      <3>1. ranges \in Surjection(1 .. Len(ranges), ToSet(ranges))
        BY <2>1 DEF ToSet, Surjection
      <3>2. IsFiniteSet(1 .. Len(ranges))
        BY <2>1, FS_Interval
      <3>3. IsFiniteSet(ToSet(ranges))
        BY <3>1, <3>2, FS_Surjection
      <3>. QED
        BY <3>3, FS_AddElement
    <2>. HIDE DEF all
    <2>. DEFINE s == Sorted(all)
    <2>4. s \in Seq(Pairs) /\ ToSet(s) = all /\ Ordered(s)
      BY <2>2, <2>3, SortedIs
    <2>. HIDE DEF s
    <2>5. \A i \in 1 .. Len(s) : s[i] \in all /\ s[i][1] < s[i][2]
      BY <2>2, <2>4 DEF ToSet
    <2>6. Apart(Merged(s)) /\ Cover(Merged(s)) = Cover(s)
      BY <2>4, <2>5, MergedIs
    <2>7. Cover(s) = Cover(ranges) \cup part
      <3>1. \A x \in Nat : x \in Cover(s) <=> \E p \in all : p[1] =< x /\ x < p[2]
        <4>1. \A p \in all : \E i \in 1 .. Len(s) : s[i] = p
          BY <2>4 DEF ToSet
        <4>. QED
          BY <2>5, <4>1 DEF Cover, CoverTo
      <3>2. \A x \in Nat : x \in Cover(ranges) <=> \E p \in ToSet(ranges) : p[1] =< x /\ x < p[2]
        <4>1. \A p \in ToSet(ranges) : \E i \in 1 .. Len(ranges) : ranges[i] = p
          BY <2>1 DEF ToSet
        <4>2. \A i \in 1 .. Len(ranges) : ranges[i] \in ToSet(ranges)
          BY <2>1 DEF ToSet
        <4>. QED
          BY <4>1, <4>2 DEF Cover, CoverTo
      <3>3. \A x \in Nat : (\E p \in all : p[1] =< x /\ x < p[2]) <=>
                              (\E p \in ToSet(ranges) : p[1] =< x /\ x < p[2]) \/ x \in part
        <4>1. <<first, last>>[1] = first /\ <<first, last>>[2] = last
          OBVIOUS
        <4>2. \A p : p \in all <=> p \in ToSet(ranges) \/ p = <<first, last>>
          BY DEF all
        <4>3. ASSUME NEW x \in Nat
              PROVE  (\E p \in all : p[1] =< x /\ x < p[2]) <=>
                        (\E p \in ToSet(ranges) : p[1] =< x /\ x < p[2]) \/ x \in part
          <5>1. x \in part <=> first =< x /\ x < last
            OBVIOUS
          <5>. HIDE DEF part
          <5>. QED
            BY <4>1, <4>2, <5>1
        <4>. QED
          BY <4>3
      <3>4. Cover(s) \subseteq Nat /\ Cover(ranges) \subseteq Nat /\ part \subseteq Nat
        BY DEF Cover, CoverTo
      <3>. QED
        BY <3>1, <3>2, <3>3, <3>4
    <2>. QED
      BY <1>2, <1>4, <1>6, <2>6, <2>7 DEF s
  <1>. QED
    BY <1>5, <1>6

-----------------------------------------------------------------------------
(* What a session says of its files. *)

(* The intervals of each file cover the positions of it that were written. *)
CountInv ==
    /\ total \in [Files -> Nat]
    /\ coverage \in [Files -> Seq(Pairs)]
    /\ delivered \in [Files -> SUBSET Nat] /\ read \in [Files -> SUBSET Nat]
    /\ \A f \in Files : /\ Apart(coverage[f])
                        /\ Cover(coverage[f]) = delivered[f] \cap (0 .. total[f] - 1)

(* While the server holds the device, what it has written the console has  *)
(* read, up to the range under way.                                        *)
ReadInv ==
    /\ backend = "connect" => \A f \in Files : delivered[f] = {}
    /\ attached => \A f \in Files : \A x \in delivered[f] :
          \/ x \in read[f]
          \/ /\ backend \in {"chunk", "chunkData"} /\ f = asked.name
             /\ asked.offset =< x /\ x < asked.offset + sent

SummaryInv ==
    summary # None =>
        \A f \in queue : summary[f] = "enviado" => 0 .. total[f] - 1 \subseteq read[f]

SessionInv == CountInv /\ ReadInv /\ SummaryInv

LEMMA SessionInit == Init => SessionInv
  <1>. SUFFICES ASSUME Init PROVE SessionInv
    OBVIOUS
  <1>1. Apart(<<>>) /\ Cover(<<>>) = {} /\ <<>> \in Seq(Pairs)
    BY DEF Apart, Cover, CoverTo
  <1>2. CountInv
    BY <1>1 DEF Init, CountInv
  <1>3. ReadInv /\ SummaryInv
    BY DEF Init, ReadInv, SummaryInv
  <1>. QED
    BY <1>2, <1>3 DEF SessionInv

(* Only a new server, and a chunk that is written, touch what is counted. *)
LEMMA Counted ==
    ASSUME [Next]_vars, ~Start, ~SendChunk
    PROVE  UNCHANGED <<queue, total, coverage, delivered, read>>
  <1>1. CASE ListFiles \/ ReadRange \/ Leave
    BY <1>1 DEF ListFiles, ReadRange, Leave, Asks, serverVars
  <1>2. CASE Transfer
    BY <1>2 DEF Transfer, ServerReadsHeader, ServerReadsAck, ServerReadsRequest,
                ConsoleReadsHeader, ConsoleReadsList, serverVars
  <1>3. CASE ServerAlone
    BY <1>3 DEF ServerAlone, NextChunk, Connect, ConnectEnds, LosesDevice, serverVars
  <1>4. CASE Stop \/ CloseProgram \/ LinkFails \/ FileChanges \/ UNCHANGED vars
    BY <1>4 DEF Stop, CloseProgram, LinkFails, FileChanges, serverVars, vars
  <1>. QED
    BY <1>1, <1>2, <1>3, <1>4 DEF Next

(* The positions that a chunk adds. *)
LEMMA ChunkCounts ==
    ASSUME IInv, CountInv, SendChunk
    PROVE  /\ asked.name \in Files /\ asked.offset \in Nat
           /\ sent \in Nat /\ chunk \in Nat /\ sent' = sent + chunk
           /\ delivered' = [delivered EXCEPT ![asked.name] =
                               @ \cup (asked.offset + sent .. asked.offset + sent + chunk - 1)]
           /\ coverage' = [coverage EXCEPT ![asked.name] =
                              Covered(@, total[asked.name], asked.offset + sent,
                                      asked.offset + sent + chunk)]
           /\ \/ read' = read /\ console' = console
              \/ read' = [read EXCEPT ![asked.name] =
                             @ \cup (asked.offset .. asked.offset + sent' - 1)]
           /\ console' # "menu" => read' = read
           /\ console' = "menu" => read' = [read EXCEPT ![asked.name] =
                             @ \cup (asked.offset .. asked.offset + sent' - 1)]
           /\ UNCHANGED <<queue, total, summary, asked>>
  <1>1. /\ attached /\ backend = "chunkData" /\ console = "data" /\ request = asked
        /\ asked.name \in queue /\ queue \subseteq Files /\ asked.offset \in Nat
        /\ sent' = sent + chunk /\ sent' \in Nat /\ got' = Bytes(sent')
    BY ChunkArrives DEF IInv, DataInv
  <1>2. sent \in Nat /\ chunk \in Nat
    BY <1>1 DEF IInv, ServedInv
  <1>3. {got'[i][2] : i \in 1 .. Len(got')} = asked.offset .. asked.offset + sent' - 1
    <2>1. Len(got') = sent' /\ \A i \in 1 .. sent' : got'[i][2] = asked.offset + i - 1
      BY <1>1, ChunkArrives DEF Bytes
    <2>2. ASSUME NEW x \in asked.offset .. asked.offset + sent' - 1
          PROVE  \E i \in 1 .. sent' : got'[i][2] = x
      <3>1. x - asked.offset + 1 \in 1 .. sent' /\ asked.offset + (x - asked.offset + 1) - 1 = x
        BY <1>1
      <3>. QED
        BY <2>1, <3>1
    <2>3. \A i \in 1 .. sent' : got'[i][2] \in asked.offset .. asked.offset + sent' - 1
      BY <1>1, <2>1
    <2>. QED
      BY <2>1, <2>2, <2>3
  <1>4. /\ read' = IF console' = "menu"
                   THEN [read EXCEPT ![asked.name] = @ \cup {got'[i][2] : i \in 1 .. Len(got')}]
                   ELSE read
        /\ console' = "menu" \/ console' = console
    BY <1>1 DEF SendChunk
  <1>5. delivered' = [delivered EXCEPT ![asked.name] =
                         @ \cup (asked.offset + sent .. asked.offset + sent + chunk - 1)]
    BY <1>1 DEF SendChunk, ChunkPositions, ChunkFirst
  <1>6. coverage' = [coverage EXCEPT ![asked.name] =
                        Covered(@, total[asked.name], asked.offset + sent,
                                asked.offset + sent + chunk)]
    BY <1>1 DEF SendChunk, ChunkFirst
  <1>7. UNCHANGED <<queue, total, summary, asked>>
    BY DEF SendChunk
  <1>. QED
    BY <1>1, <1>2, <1>3, <1>4, <1>5, <1>6, <1>7

LEMMA CountSteps ==
    ASSUME IInv, CountInv, [Next]_vars
    PROVE  CountInv'
  <1>1. CASE Start
    <2>1. Apart(<<>>) /\ Cover(<<>>) = {} /\ <<>> \in Seq(Pairs)
      BY DEF Apart, Cover, CoverTo
    <2>2. total' \in [Files -> Nat]
      BY <1>1 DEF Start, IInv, DataInv
    <2>3. /\ coverage' = [f \in Files |-> <<>>]
          /\ delivered' = [f \in Files |-> {}] /\ read' = [f \in Files |-> {}]
      BY <1>1 DEF Start
    <2>. QED
      BY <2>1, <2>2, <2>3 DEF CountInv
  <1>2. CASE SendChunk
    <2>. DEFINE name == asked.name
                start == asked.offset + sent
                end == asked.offset + sent + chunk
                new == Covered(coverage[name], total[name], start, end)
                part == start .. end - 1
    <2>1. /\ name \in Files /\ start \in Nat /\ end \in Nat /\ start =< end
          /\ delivered' = [delivered EXCEPT ![name] = @ \cup part]
          /\ coverage' = [coverage EXCEPT ![name] = new]
          /\ total' = total
          /\ asked.offset \in Nat
      BY <1>2, ChunkCounts
    <2>2. Apart(coverage[name]) /\ total[name] \in Nat
          /\ Cover(coverage[name]) = delivered[name] \cap (0 .. total[name] - 1)
      BY <2>1 DEF CountInv
    <2>3. part \subseteq Nat
      BY <2>1
    <2>4. read' \in [Files -> SUBSET Nat]
      <3>1. read \in [Files -> SUBSET Nat]
        BY DEF CountInv
      <3>2. asked.offset .. asked.offset + sent' - 1 \subseteq Nat
        BY <2>1
      <3>3. \/ read' = read
            \/ read' = [read EXCEPT ![name] =
                           @ \cup (asked.offset .. asked.offset + sent' - 1)]
        BY <1>2, ChunkCounts
      <3>. HIDE DEF name
      <3>. QED
        BY <2>1, <3>1, <3>2, <3>3
    <2>. HIDE DEF name, start, end
    <2>5. Apart(new) /\ Cover(new) = Cover(coverage[name]) \cup (part \cap (0 .. total[name] - 1))
      <3>. DEFINE ranges == coverage[name]
                  length == total[name]
      <3>1. Apart(ranges) /\ length \in Nat /\ start \in Nat /\ end \in Nat /\ start =< end
        BY <2>1, <2>2
      <3>. HIDE DEF ranges, length
      <3>2. /\ Apart(Covered(ranges, length, start, end))
            /\ Cover(Covered(ranges, length, start, end))
                 = Cover(ranges) \cup ((start .. end - 1) \cap (0 .. length - 1))
        BY <3>1, CoveredIs
      <3>. QED
        BY <3>2 DEF ranges, length
    <2>6. new \in Seq(Pairs)
      BY <2>5 DEF Apart
    <2>. HIDE DEF new, part
    <2>7. /\ total' \in [Files -> Nat] /\ coverage' \in [Files -> Seq(Pairs)]
          /\ delivered' \in [Files -> SUBSET Nat]
      BY <2>1, <2>3, <2>6 DEF CountInv
    <2>8. ASSUME NEW f \in Files
          PROVE  /\ Apart(coverage'[f])
                 /\ Cover(coverage'[f]) = delivered'[f] \cap (0 .. total'[f] - 1)
      <3>1. CASE f = name
        <4>1. coverage'[f] = new /\ delivered'[f] = delivered[f] \cup part /\ total'[f] = total[f]
          BY <2>1, <3>1 DEF CountInv
        <4>2. Cover(new) = (delivered[f] \cup part) \cap (0 .. total[f] - 1)
          BY <2>2, <2>5, <3>1
        <4>. QED
          BY <2>5, <4>1, <4>2
      <3>2. CASE f # name
        <4>1. coverage'[f] = coverage[f] /\ delivered'[f] = delivered[f] /\ total'[f] = total[f]
          BY <2>1, <3>2 DEF CountInv
        <4>. QED
          BY <4>1 DEF CountInv
      <3>. QED
        BY <3>1, <3>2
    <2>. QED
      BY <2>4, <2>7, <2>8 DEF CountInv
  <1>3. CASE ~Start /\ ~SendChunk
    BY <1>3, Counted DEF CountInv
  <1>. QED
    BY <1>1, <1>2, <1>3

(* A step that leaves what is counted, and not in the middle of a range. *)
LEMMA ReadStays ==
    ASSUME ReadInv, UNCHANGED <<delivered, read>>,
           backend' # "connect" \/ backend = "connect",
           attached' => \/ attached /\ backend \notin {"chunk", "chunkData"}
                        \/ backend = "connect"
                        \/ attached /\ backend' \in {"chunk", "chunkData"}
                                    /\ UNCHANGED <<asked, sent>>
    PROVE  ReadInv'
  <1>1. ASSUME backend' = "connect" PROVE \A f \in Files : delivered'[f] = {}
    BY <1>1 DEF ReadInv
  <1>2. ASSUME attached', NEW f \in Files, NEW x \in delivered'[f]
        PROVE  \/ x \in read'[f]
               \/ /\ backend' \in {"chunk", "chunkData"} /\ f = asked'.name
                  /\ asked'.offset =< x /\ x < asked'.offset + sent'
    <2>1. CASE backend = "connect"
      BY <1>2, <2>1 DEF ReadInv
    <2>2. CASE attached /\ backend \notin {"chunk", "chunkData"}
      BY <1>2, <2>2 DEF ReadInv
    <2>3. CASE attached /\ backend' \in {"chunk", "chunkData"} /\ UNCHANGED <<asked, sent>>
      BY <1>2, <2>3 DEF ReadInv
    <2>. QED
      BY <1>2, <2>1, <2>2, <2>3
  <1>. QED
    BY <1>1, <1>2 DEF ReadInv

LEMMA ReadSteps ==
    ASSUME IInv, CountInv, ReadInv, [Next]_vars
    PROVE  ReadInv'
  <1>1. CASE Start
    <2>1. backend = "off" /\ attached' = attached /\ delivered' = [f \in Files |-> {}]
      BY <1>1 DEF Start, Running
    <2>. QED
      BY <2>1 DEF ReadInv
  <1>2. CASE SendChunk
    <2>1. backend' # "connect"
      BY <1>2 DEF SendChunk, BackendGoes, LoopTop
    <2>2. ASSUME attached', NEW f \in Files, NEW x \in delivered'[f]
          PROVE  \/ x \in read'[f]
                 \/ /\ backend' \in {"chunk", "chunkData"} /\ f = asked'.name
                    /\ asked'.offset =< x /\ x < asked'.offset + sent'
      <3>. DEFINE old == x \in delivered[f]
                  now == /\ f = asked.name
                         /\ asked.offset =< x /\ x < asked.offset + sent'
      <3>1. /\ asked' = asked /\ asked.name \in Files /\ asked.offset \in Nat
            /\ sent \in Nat /\ chunk \in Nat /\ sent' = sent + chunk
            /\ delivered' = [delivered EXCEPT ![asked.name] =
                               @ \cup (asked.offset + sent .. asked.offset + sent + chunk - 1)]
            /\ delivered \in [Files -> SUBSET Nat] /\ read \in [Files -> SUBSET Nat]
        BY <1>2, ChunkCounts DEF CountInv
      <3>2. x \in Nat /\ (old \/ now)
        <4>1. CASE f = asked.name
          <5>1. delivered'[f] = delivered[f] \cup
                   (asked.offset + sent .. asked.offset + sent + chunk - 1)
            BY <3>1, <4>1
          <5>2. delivered[f] \subseteq Nat
            BY <3>1
          <5>. QED
            BY <2>2, <3>1, <4>1, <5>1, <5>2
        <4>2. CASE f # asked.name
          <5>1. delivered'[f] = delivered[f] /\ delivered[f] \subseteq Nat
            BY <3>1, <4>2
          <5>. QED
            BY <2>2, <5>1
        <4>. QED
          BY <4>1, <4>2
      <3>3. x \in read[f] \/ now
        <4>1. ASSUME old
              PROVE  x \in read[f] \/ (f = asked.name /\ asked.offset =< x /\ x < asked.offset + sent)
          BY <1>2, <4>1 DEF ReadInv, SendChunk
        <4>2. x < asked.offset + sent => x < asked.offset + sent'
          BY <3>1, <3>2
        <4>. QED
          BY <3>2, <4>1, <4>2
      <3>4. x \in read[f] => x \in read'[f]
        <4>1. \/ read' = read
              \/ read' = [read EXCEPT ![asked.name] =
                             @ \cup (asked.offset .. asked.offset + sent' - 1)]
          BY <1>2, ChunkCounts
        <4>. QED
          BY <3>1, <4>1
      <3>5. CASE console' = "menu"
        <4>1. read' = [read EXCEPT ![asked.name] =
                             @ \cup (asked.offset .. asked.offset + sent' - 1)]
          BY <1>2, <3>5, ChunkCounts
        <4>2. now => x \in read'[f]
          BY <3>1, <3>2, <4>1
        <4>. QED
          BY <3>3, <3>4, <4>2
      <3>6. CASE console' # "menu"
        <4>1. sent' < request.size \/ sent' > request.size
          <5>1. ~(Len(got') >= asked.size)
            BY <1>2, <3>6 DEF SendChunk
          <5>2. Len(got') = sent' /\ request = asked /\ sent' \in Nat /\ asked.size \in Nat
            BY <1>2, ChunkArrives DEF IInv, DataInv
          <5>. QED
            BY <5>1, <5>2
        <4>2. sent' # request.size
          <5>1. request.size \in Nat /\ sent' \in Nat
            BY <1>2, ChunkArrives DEF IInv, DataInv
          <5>. QED
            BY <4>1, <5>1
        <4>3. backend' = "chunk"
          BY <1>2, <4>2 DEF SendChunk, BackendGoes
        <4>. QED
          BY <3>1, <3>3, <3>4, <4>3
      <3>. QED
        BY <3>5, <3>6
    <2>. QED
      BY <2>1, <2>2 DEF ReadInv
  <1>3. CASE ~Start /\ ~SendChunk
    <2>1. UNCHANGED <<delivered, read>>
      BY <1>3, Counted
    <2>2. CASE ListFiles \/ ReadRange \/ Leave
      <3>1. console = "menu" /\ UNCHANGED <<backend, attached>>
        BY <2>2 DEF ListFiles, ReadRange, Leave, Asks
      <3>2. attached => backend \notin {"chunk", "chunkData"}
        BY <3>1, Posted DEF IInv
      <3>. QED
        BY <2>1, <3>1, <3>2, ReadStays
    <2>3. CASE ServerReadsHeader
      <3>1. backend = "header" /\ attached
            /\ backend' \in {"exitHeader", "listHeader", "rangeAck"}
        <4>1. console \in {"askList", "listAck", "askRange", "rangeGo", "askExit"}
          BY <2>3, ConsoleTables DEF ServerReadsHeader
        <4>2. ConsoleWrites[console].command \in {"list", "range", "exit"}
          BY <4>1 DEF ConsoleWrites, Header
        <4>. QED
          BY <2>3, <4>2 DEF ServerReadsHeader
      <3>. QED
        BY <2>1, <3>1, ReadStays
    <2>4. CASE ServerReadsAck \/ ServerReadsRequest \/ ConsoleReadsList
      <3>1. attached /\ backend \in {"listAck", "rangeGo", "rangeRequest", "listPayload"}
            /\ backend' # "connect"
        BY <2>4 DEF ServerReadsAck, ServerReadsRequest, ConsoleReadsList, BackendGoes, LoopTop
      <3>. QED
        BY <2>1, <3>1, ReadStays
    <2>5. CASE ConsoleReadsHeader
      <3>1. attached /\ backend \in {"listHeader", "rangeAck", "rangeHeader", "exitHeader"}
            /\ backend' \in {"listAck", "rangeRequest", "rangeGo", "off"}
        BY <2>5, ConsoleTables DEF ConsoleReadsHeader
      <3>. QED
        BY <2>1, <3>1, ReadStays
    <2>6. CASE NextChunk
      <3>1. backend = "chunk" /\ UNCHANGED <<asked, sent>>
            /\ (attached' => attached /\ backend' = "chunkData")
            /\ backend' # "connect"
        BY <2>6 DEF NextChunk, BackendGoes, consoleVars
      <3>. QED
        BY <2>1, <3>1, ReadStays
    <2>7. CASE Connect \/ ConnectEnds
      <3>1. backend = "connect"
        BY <2>7 DEF Connect, ConnectEnds
      <3>. QED
        BY <2>1, <3>1, ReadStays
    <2>8. CASE LosesDevice \/ CloseProgram
      <3>1. backend' = "off" /\ attached' = FALSE
        BY <2>8 DEF LosesDevice, CloseProgram, BackendGoes, IInv, ControlInv
      <3>. QED
        BY <2>1, <3>1, ReadStays
    <2>9. CASE LinkFails
      <3>1. backend' = backend /\ attached' = FALSE
        BY <2>9 DEF LinkFails, ConsoleFails
      <3>. QED
        BY <2>1, <3>1, ReadStays
    <2>10. CASE Stop \/ FileChanges \/ UNCHANGED vars
      <3>1. UNCHANGED <<backend, attached, asked, sent>>
        BY <2>10 DEF Stop, FileChanges, vars, consoleVars, serverVars
      <3>. QED
        BY <2>1, <3>1, ReadStays
    <2>. QED
      BY <1>3, <2>2, <2>3, <2>4, <2>5, <2>6, <2>7, <2>8, <2>9, <2>10
         DEF Next, Transfer, ServerAlone
  <1>. QED
    BY <1>1, <1>2, <1>3

(* A file counted whole was written whole. *)
LEMMA WholeIsAll ==
    ASSUME CountInv, NEW f \in Files, Status(coverage[f], total[f]) = "enviado"
    PROVE  0 .. total[f] - 1 \subseteq delivered[f]
  <1>. DEFINE whole == 0 .. total[f] - 1
              part == delivered[f] \cap whole
  <1>1. total[f] \in Nat /\ Apart(coverage[f]) /\ Cover(coverage[f]) = part
    BY DEF CountInv
  <1>2. Transferred(coverage[f]) >= total[f]
    BY DEF Status
  <1>3. IsFiniteSet(whole) /\ Cardinality(whole) = total[f]
    <2>1. 0 \in Int /\ total[f] - 1 \in Int /\ (0 > total[f] - 1 => total[f] = 0)
          /\ total[f] - 1 - 0 + 1 = total[f]
      BY <1>1
    <2>2. /\ IsFiniteSet(whole)
          /\ Cardinality(whole) = IF 0 > total[f] - 1 THEN 0 ELSE total[f] - 1 - 0 + 1
      BY <2>1, FS_Interval
    <2>. QED
      BY <2>1, <2>2
  <1>4. Transferred(coverage[f]) = Cardinality(part)
    BY <1>1, TransferredIs
  <1>. HIDE DEF whole
  <1>5. part \in SUBSET whole
    OBVIOUS
  <1>. HIDE DEF part
  <1>6. /\ IsFiniteSet(part) /\ Cardinality(part) <= Cardinality(whole)
        /\ Cardinality(whole) = Cardinality(part) => whole = part
    BY <1>3, <1>5, FS_Subset
  <1>7. Cardinality(part) \in Nat
    BY <1>6, FS_CardinalityType
  <1>8. Cardinality(whole) = Cardinality(part)
    BY <1>1, <1>2, <1>3, <1>4, <1>6, <1>7
  <1>. QED
    BY <1>6, <1>8 DEF part, whole

LEMMA SummarySteps ==
    ASSUME IInv, SessionInv, [Next]_vars
    PROVE  SummaryInv'
  <1>1. CASE Start
    BY <1>1 DEF Start, SummaryInv
  <1>2. CASE SendChunk
    <2>1. /\ UNCHANGED <<queue, total, summary>> /\ queue \subseteq Files
          /\ read \in [Files -> SUBSET Nat]
          /\ \/ read' = read
             \/ read' = [read EXCEPT ![asked.name] =
                            @ \cup (asked.offset .. asked.offset + sent' - 1)]
      BY <1>2, ChunkCounts DEF IInv, DataInv, SessionInv, CountInv
    <2>2. \A f \in queue : read[f] \subseteq read'[f]
      BY <2>1
    <2>. QED
      BY <2>1, <2>2 DEF SessionInv, SummaryInv
  <1>3. CASE ~Start /\ ~SendChunk /\ summary' = summary
    BY <1>3, Counted DEF SessionInv, SummaryInv
  <1>4. CASE ConsoleReadsHeader /\ backend = "exitHeader"
    <2>1. /\ attached /\ summary' = [f \in queue |-> Status(coverage[f], total[f])]
          /\ UNCHANGED <<queue, total, read>> /\ queue \subseteq Files
      BY <1>4 DEF ConsoleReadsHeader, IInv, DataInv
    <2>2. ASSUME NEW f \in queue, summary'[f] = "enviado"
          PROVE  0 .. total[f] - 1 \subseteq read[f]
      <3>1. f \in Files /\ Status(coverage[f], total[f]) = "enviado"
        BY <2>1, <2>2
      <3>2. 0 .. total[f] - 1 \subseteq delivered[f]
        BY <3>1, WholeIsAll DEF SessionInv
      <3>3. delivered[f] \subseteq read[f]
        BY <1>4, <2>1, <3>1 DEF SessionInv, ReadInv
      <3>. QED
        BY <3>2, <3>3
    <2>. QED
      BY <2>1, <2>2 DEF SummaryInv
  <1>5. \/ Start \/ SendChunk \/ summary' = summary
        \/ ConsoleReadsHeader /\ backend = "exitHeader"
    <2>1. CASE ListFiles \/ ReadRange \/ Leave
      BY <2>1 DEF ListFiles, ReadRange, Leave, Asks, serverVars
    <2>2. CASE Transfer
      BY <2>2 DEF Transfer, ServerReadsHeader, ServerReadsAck, ServerReadsRequest,
                  ConsoleReadsHeader, ConsoleReadsList, serverVars
    <2>3. CASE ServerAlone
      BY <2>3 DEF ServerAlone, NextChunk, Connect, ConnectEnds, LosesDevice, serverVars
    <2>4. CASE Start \/ Stop \/ CloseProgram \/ LinkFails \/ FileChanges \/ UNCHANGED vars
      BY <2>4 DEF Stop, CloseProgram, LinkFails, FileChanges, serverVars, vars
    <2>. QED
      BY <2>1, <2>2, <2>3, <2>4 DEF Next
  <1>. QED
    BY <1>1, <1>2, <1>3, <1>4, <1>5

(* What is counted of a session and what its console has read. *)
THEOREM SessionCounts == Spec => []SessionInv
  <1>1. ASSUME IInv, SessionInv, [Next]_vars
        PROVE  SessionInv'
    BY <1>1, CountSteps, ReadSteps, SummarySteps DEF SessionInv
  <1>. QED
    BY <1>1, SessionInit, Inductive, PTL DEF Spec

(* The bytes a session reports of a file are the different bytes of it     *)
(* that were written, for every way its ranges overlap; and a file called  *)
(* "enviado" was read whole by the console.                                *)
THEOREM SummaryRight == Spec => []SummaryIsRight
  <1>1. IInv /\ SessionInv => SummaryIsRight
    <2>. SUFFICES ASSUME IInv, SessionInv PROVE SummaryIsRight
      OBVIOUS
    <2>1. ASSUME NEW f \in queue
          PROVE  Transferred(coverage[f]) = Cardinality(delivered[f] \cap (0 .. total[f] - 1))
      <3>1. Apart(coverage[f]) /\ Cover(coverage[f]) = delivered[f] \cap (0 .. total[f] - 1)
        BY DEF IInv, DataInv, SessionInv, CountInv
      <3>. QED
        BY <3>1, TransferredIs
    <2>. QED
      BY <2>1 DEF SummaryIsRight, SessionInv, SummaryInv
  <1>. QED
    BY <1>1, Inductive, SessionCounts, PTL
=============================================================================

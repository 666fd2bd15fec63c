--------------------------- MODULE SdInstallProofs ---------------------------
(***************************************************************************)
(* Proofs about SdInstall, for every set of packages, NCAs, keys and       *)
(* failing service calls, and with crashes: type correctness, and that     *)
(* neither the content a transfer finds nor the content of a settled title *)
(* is ever lost.                                                           *)
(***************************************************************************)
EXTENDS SdInstall, TLAPS

(***************************************************************************)
(* The inductive invariant.  ExistingContentKept is preserved by           *)
(* RollbackContent only because newly_registered_ never names an NCA that  *)
(* was there before, and EndNewNca keeps that true only because the entry  *)
(* being written was found absent when it was begun.                       *)
(***************************************************************************)

(* Where the flags and lists of the sink may be set. *)
ControlInv ==
    /\ pc = "idle" =>
          /\ ~entry_started_ /\ ~entry_placeholder_open_
          /\ newly_registered_ = {} /\ metadata_keys_ = {} /\ cnmt_ids_ = <<>>
          /\ ~failed_ /\ ~finished_ /\ ~aborted_
    /\ finished_ => pc = "stream"
    /\ aborted_ => pc = "rollback"
    /\ pc = "rollback" => failed_ \/ aborted_
    /\ pc \in {"idle", "stream", "tickets"} /\ ~finished_ => metadata_keys_ = {}

(* The NCA under way is either skipped, and then registered with its size, *)
(* or written, and then absent with its placeholder open.                  *)
EntryInv ==
    Receiving /\ current_entry_ <= Len(Entries) /\ entry_started_ =>
        (IsNca(Active) =>
            content[Active.id] = IF skip_active_nca_ THEN Active.size ELSE Absent)

(* What newly_registered_ names is new. *)
NewlyRegisteredAreNew ==
    \A i \in newly_registered_ : before.content[i] = Absent

(* While a transfer runs, settled titles stand on content older than it. *)
SettledBefore ==
    pc # "idle" /\ ~finished_ =>
        \A k \in Keys : settled[k] # NoMeta =>
            /\ before.content[settled[k]] # Absent
            /\ \A r \in Cnmt[settled[k]].required : before.content[r.id] = r.size

(* The CNMTs noted so far are registered, and the keys set so far are complete. *)
FinishInv ==
    /\ Receiving \/ pc \in {"tickets", "cnmt", "commit", "record"} =>
          \A n \in 1..Len(cnmt_ids_) : content[cnmt_ids_[n]] # Absent
    /\ pc \in {"cnmt", "commit", "record"} =>
          \A k \in metadata_keys_ : metaMem[k] # NoMeta /\ Complete(metaMem[k])
    /\ pc \in {"commit", "record"} =>
          metaMem[CurrentKey] # NoMeta /\ Complete(metaMem[CurrentKey])

TransferInv ==
    /\ ExistingContentKept
    /\ NewlyRegisteredAreNew
    /\ SettledBefore
    /\ SettledTitlesKeepContent
    /\ FinishInv

IndInv == TypeOK /\ ControlInv /\ EntryInv /\ TransferInv

-----------------------------------------------------------------------------
(* Type correctness. *)

(* The entry the cursor points at is a well-typed entry of the package. *)
LEMMA ActiveTyped ==
    ASSUME pkg \in Packages, current_entry_ \in Nat \ {0}, current_entry_ <= Len(Entries)
    PROVE  Active \in Entry /\ WellTyped(Active)
<1>1. Package[pkg].entries \in Seq(Entry)
  BY PackageAssumption
<1>2. current_entry_ \in 1..Len(Entries)
  BY <1>1 DEF Entries
<1> QED
  BY <1>1, <1>2, PackageAssumption DEF Entries, Active

(* Inside begin-, consume- and endEntry of an NCA it names a content id. *)
LEMMA ActiveNca ==
    ASSUME SinkTypeOK, AtEntryStart \/ AtEntryData \/ AtEntryEnd, IsNca(Active)
    PROVE  /\ Active \in Entry
           /\ Active.id \in ContentId
           /\ Active.kind = "cnmt" => Active.id \in CnmtId
<1>1. pkg \in Packages /\ current_entry_ \in Nat \ {0} /\ current_entry_ <= Len(Entries)
  BY DEF SinkTypeOK, AtEntryStart, AtEntryData, AtEntryEnd, Receiving
<1> QED
  BY <1>1, ActiveTyped DEF IsNca, WellTyped

(* The CNMT finish() is working on, and its key. *)
LEMMA CurrentTyped ==
    ASSUME SinkTypeOK, CnmtPending \/ pc \in {"commit", "record"}
    PROVE  CurrentCnmt \in CnmtId /\ CurrentKey \in Keys /\ cnmt_index \in 1..Len(cnmt_ids_)
<1>1. cnmt_index \in 1..Len(cnmt_ids_)
  BY DEF SinkTypeOK, CnmtPending
<1>2. CurrentCnmt \in CnmtId
  BY <1>1 DEF SinkTypeOK, CurrentCnmt
<1> QED
  BY <1>1, <1>2, CnmtAssumption DEF CurrentKey

LEMMA InitTypeOK == Init => TypeOK
<1> SUFFICES ASSUME Init PROVE TypeOK
  OBVIOUS
<1>1. StoreTypeOK
  BY DEF Init, StoreTypeOK, NoContent, NoKeys, Meta, Absent
<1>2. SinkTypeOK
  <2>1. cnmt_ids_ \in Seq(CnmtId)
    BY DEF Init
  <2>2. pc \in {"commit", "record"} => cnmt_index <= Len(cnmt_ids_)
    BY DEF Init
  <2>3. current_entry_ \in Nat \ {0} /\ offset \in Nat /\ cnmt_index \in Nat \ {0}
    BY DEF Init
  <2> QED
    BY <2>1, <2>2, <2>3 DEF Init, SinkTypeOK
<1>3. HistoryTypeOK
  BY DEF Init, HistoryTypeOK, NoContent, NoKeys, Meta, Absent
<1> QED
  BY <1>1, <1>2, <1>3 DEF TypeOK

LEMMA StoreTypePreserved == TypeOK /\ [Next]_vars => StoreTypeOK'
<1> SUFFICES ASSUME StoreTypeOK, SinkTypeOK, [Next]_vars PROVE StoreTypeOK'
  BY DEF TypeOK
<1>1. CASE UNCHANGED store
  BY <1>1 DEF StoreTypeOK, store
<1>2. CASE BeginNewNca
  <2>1. Active.id \in ContentId
    BY <1>2, ActiveNca DEF BeginNewNca, AtNcaStart
  <2> QED
    BY <1>2, <2>1 DEF StoreTypeOK, BeginNewNca
<1>3. CASE EndNewNca
  <2>1. Active.id \in ContentId /\ Active.size \in Nat
    BY <1>3, ActiveNca DEF EndNewNca, Entry
  <2> QED
    BY <1>3, <2>1 DEF StoreTypeOK, EndNewNca
<1>4. ASSUME NEW stem \in Stems, ImportTicket(stem) PROVE StoreTypeOK'
  BY <1>4 DEF StoreTypeOK, ImportTicket
<1>5. CASE SetMeta
  <2>1. CurrentKey \in Keys /\ CurrentCnmt \in Meta
    BY <1>5, CurrentTyped DEF SetMeta, Meta
  <2> QED
    BY <1>5, <2>1 DEF StoreTypeOK, SetMeta
<1>6. CASE CommitMeta
  BY <1>6 DEF StoreTypeOK, CommitMeta
<1>7. CASE PushRecord
  <2>1. CurrentKey \in Keys
    BY <1>7, CurrentTyped DEF PushRecord
  <2> QED
    BY <1>7, <2>1 DEF StoreTypeOK, PushRecord
<1>8. CASE Abort
  BY <1>8 DEF StoreTypeOK, Abort, DropPlaceholder
<1>9. ASSUME NEW k \in Keys, RollbackMeta(k) PROVE StoreTypeOK'
  BY <1>9 DEF StoreTypeOK, RollbackMeta, Meta
<1>10. ASSUME NEW i \in ContentId, RollbackContent(i) PROVE StoreTypeOK'
  BY <1>10 DEF StoreTypeOK, RollbackContent
<1>11. CASE Crash
  BY <1>11 DEF StoreTypeOK, Crash
<1>12. ASSUME NEW p \in Packages, Open(p) PROVE UNCHANGED store
  BY <1>12 DEF Open
<1>13. CASE ParseHeader \/ BeginPlainEntry \/ BeginShortNca \/ BeginExistingNca
            \/ BeginUnknownNca \/ ConsumeEntry \/ EndOtherEntry
  BY <1>1, <1>13 DEF ParseHeader, BeginPlainEntry, BeginShortNca, BeginExistingNca,
                     BeginUnknownNca, ConsumeEntry, EndOtherEntry
<1>14. CASE FinishRefused \/ FinishStarts \/ TicketsRefused \/ TicketsDone \/ MetaRefused
            \/ CommitFails \/ RecordFails \/ FinishSucceeds \/ RollbackDone \/ Close
  BY <1>1, <1>14 DEF FinishRefused, FinishStarts, TicketsRefused, TicketsDone, MetaRefused,
                     CommitFails, RecordFails, FinishSucceeds, RollbackDone, Close
<1> QED
  BY <1>1, <1>2, <1>3, <1>4, <1>5, <1>6, <1>7, <1>8, <1>9, <1>10, <1>11, <1>12, <1>13, <1>14
  DEF Next, SinkStep, vars

(* Destroyed leaves the sink's fields as Init has them. *)
LEMMA DestroyedTyped ==
    ASSUME SinkTypeOK, Destroyed, pc' = "idle", UNCHANGED pkg
    PROVE  SinkTypeOK'
<1>1. cnmt_ids_' \in Seq(CnmtId) /\ (pc' \in {"commit", "record"} => cnmt_index' <= Len(cnmt_ids_'))
  BY DEF Destroyed
<1>2. current_entry_' \in Nat \ {0} /\ offset' \in Nat /\ cnmt_index' \in Nat \ {0}
  BY DEF Destroyed
<1> QED
  BY <1>1, <1>2 DEF SinkTypeOK, Destroyed

LEMMA SinkTypePreserved == TypeOK /\ [Next]_vars => SinkTypeOK'
<1> SUFFICES ASSUME SinkTypeOK, [Next]_vars PROVE SinkTypeOK'
  BY DEF TypeOK
<1> USE DEF entryVars, sidecarVars, finishVars, flags, Fail
<1>1. CASE UNCHANGED vars
  BY <1>1 DEF SinkTypeOK, vars
<1>2. ASSUME NEW p \in Packages, Open(p) PROVE SinkTypeOK'
  BY <1>2 DEF SinkTypeOK, Open
<1>3. CASE ParseHeader
  BY <1>3 DEF SinkTypeOK, ParseHeader
<1>4. CASE BeginPlainEntry
  <2>1. cnmt_ids_' = cnmt_ids_ /\ cnmt_index' = cnmt_index /\ pc' = pc
    BY <1>4 DEF BeginPlainEntry
  <2>. QED
    BY <1>4, <2>1 DEF SinkTypeOK, BeginPlainEntry
<1>5. CASE BeginShortNca
  BY <1>5 DEF SinkTypeOK, BeginShortNca
<1>6. CASE BeginExistingNca \/ BeginUnknownNca \/ BeginNewNca
  <2>1. Active.id \in ContentId
    BY <1>6, ActiveNca DEF BeginExistingNca, BeginUnknownNca, BeginNewNca, AtNcaStart
  <2>2. CASE BeginExistingNca
    BY <2>2, <2>1 DEF SinkTypeOK, BeginExistingNca
  <2>3. CASE BeginUnknownNca
    BY <2>3, <2>1 DEF SinkTypeOK, BeginUnknownNca
  <2>4. CASE BeginNewNca
    BY <2>4, <2>1 DEF SinkTypeOK, BeginNewNca
  <2> QED
    BY <1>6, <2>2, <2>3, <2>4
<1>7. CASE ConsumeEntry
  <2>1. offset' = offset + 1 \/ offset' = offset
    BY <1>7 DEF ConsumeEntry
  <2>2. offset' \in Nat
    BY <2>1 DEF SinkTypeOK
  <2>3. failed_' \in BOOLEAN
    BY <1>7 DEF SinkTypeOK, ConsumeEntry
  <2> QED
    BY <1>7, <2>2, <2>3 DEF SinkTypeOK, ConsumeEntry
<1>8. CASE EndNewNca
  <2>1. Active.id \in ContentId /\ (Active.kind = "cnmt" => Active.id \in CnmtId)
    BY <1>8, ActiveNca DEF EndNewNca
  <2>2. cnmt_ids_' \in Seq(CnmtId)
    BY <1>8, <2>1 DEF SinkTypeOK, EndNewNca, Remember, NoteCnmt
  <2>3. current_entry_' \in Nat \ {0} /\ offset' \in Nat
    BY <1>8 DEF SinkTypeOK, EndNewNca, NextEntry
  <2>4. pc' = "stream" /\ entry_started_' \in BOOLEAN
    BY <1>8 DEF SinkTypeOK, EndNewNca, NextEntry, AtEntryEnd, Receiving
  <2>5. entry_placeholder_open_' \in BOOLEAN /\ newly_registered_' \subseteq ContentId
    BY <1>8, <2>1 DEF SinkTypeOK, EndNewNca, Remember
  <2>6. entry_placeholder_open_' => active_content_id_' \in ContentId
    BY <1>8 DEF SinkTypeOK, EndNewNca
  <2>7. failed_' \in BOOLEAN /\ UNCHANGED <<pkg, header_parsed_, active_content_id_,
           skip_active_nca_, sidecarVars, finishVars, finished_, aborted_>>
    BY <1>8 DEF SinkTypeOK, EndNewNca
  <2>8. pc' \in {"commit", "record"} => cnmt_index' <= Len(cnmt_ids_')
    BY <2>4
  <2>9. cnmt_index' \in Nat \ {0} /\ pkg' \in Packages
    BY <1>8, <2>7 DEF SinkTypeOK, EndNewNca, AtEntryEnd, Receiving
  <2> QED
    BY <2>2, <2>3, <2>4, <2>5, <2>6, <2>7, <2>8, <2>9 DEF SinkTypeOK
<1>9. CASE EndOtherEntry
  <2>1. Active.kind = "cnmt" => Active.id \in CnmtId
    BY <1>9, ActiveNca DEF EndOtherEntry, IsNca
  <2>2. Active.kind \in {"ticket", "certificate"} => Active.id \in Stems
    BY <1>9, ActiveTyped DEF EndOtherEntry, SinkTypeOK, AtEntryEnd, Receiving, WellTyped
  <2>3. cnmt_ids_' \in Seq(CnmtId)
    BY <1>9, <2>1 DEF SinkTypeOK, EndOtherEntry, NoteCnmt
  <2>4. current_entry_' \in Nat \ {0} /\ offset' \in Nat
    BY <1>9 DEF SinkTypeOK, EndOtherEntry, NextEntry
  <2>5. pc' = "stream" /\ entry_started_' \in BOOLEAN
    BY <1>9 DEF SinkTypeOK, EndOtherEntry, NextEntry, AtEntryEnd, Receiving
  <2> QED
    BY <1>9, <2>1, <2>2, <2>3, <2>4, <2>5 DEF SinkTypeOK, EndOtherEntry
<1>10. CASE FinishRefused
  BY <1>10 DEF SinkTypeOK, FinishRefused
<1>11. CASE FinishStarts
  BY <1>11 DEF SinkTypeOK, FinishStarts, Receiving
<1>12. ASSUME NEW stem \in Stems, ImportTicket(stem) PROVE SinkTypeOK'
  BY <1>12 DEF SinkTypeOK, ImportTicket
<1>13. ASSUME FinishFails, pc # "idle" PROVE SinkTypeOK'
  BY <1>13 DEF SinkTypeOK, FinishFails
<1>14. CASE TicketsRefused \/ MetaRefused \/ CommitFails \/ RecordFails
  BY <1>13, <1>14 DEF TicketsRefused, MetaRefused, CommitFails, RecordFails, CnmtPending
<1>15. CASE TicketsDone
  BY <1>15 DEF SinkTypeOK, TicketsDone
<1>16. CASE SetMeta
  BY <1>16 DEF SinkTypeOK, SetMeta, CnmtPending
<1>17. CASE CommitMeta
  <2>1. CurrentKey \in Keys
    BY <1>17, CurrentTyped DEF CommitMeta
  <2> QED
    BY <1>17, <2>1 DEF SinkTypeOK, CommitMeta
<1>18. CASE PushRecord
  BY <1>18 DEF SinkTypeOK, PushRecord
<1>19. CASE FinishSucceeds
  BY <1>19 DEF SinkTypeOK, FinishSucceeds
<1>20. CASE Abort
  BY <1>20 DEF SinkTypeOK, Abort
<1>21. ASSUME NEW k \in Keys, RollbackMeta(k) PROVE SinkTypeOK'
  BY <1>21 DEF SinkTypeOK, RollbackMeta
<1>22. ASSUME NEW i \in ContentId, RollbackContent(i) PROVE SinkTypeOK'
  BY <1>22 DEF SinkTypeOK, RollbackContent
<1>23. CASE RollbackDone
  <2>1. CASE aborted_
    BY <1>23, <2>1, DestroyedTyped DEF RollbackDone
  <2>2. CASE ~aborted_
    BY <1>23, <2>2 DEF SinkTypeOK, RollbackDone
  <2> QED
    BY <2>1, <2>2
<1>24. CASE Close \/ Crash
  BY <1>24, DestroyedTyped DEF Close, Crash
<1> QED
  BY <1>1, <1>2, <1>3, <1>4, <1>6, <1>7, <1>8, <1>9, <1>10, <1>12, <1>13, <1>15, <1>16, <1>17,
     <1>18, <1>19, <1>20, <1>21, <1>22, <1>23, <1>24, <1>5, <1>11, <1>14
  DEF Next, SinkStep

LEMMA HistoryTypePreserved == TypeOK /\ [Next]_vars => HistoryTypeOK'
<1> SUFFICES ASSUME StoreTypeOK, SinkTypeOK, HistoryTypeOK, [Next]_vars PROVE HistoryTypeOK'
  BY DEF TypeOK
<1>1. CASE UNCHANGED history
  BY <1>1 DEF HistoryTypeOK, history
<1>2. ASSUME NEW p \in Packages, Open(p) PROVE HistoryTypeOK'
  BY <1>2 DEF HistoryTypeOK, StoreTypeOK, Open
<1>3. CASE BeginNewNca \/ EndNewNca
  <2>1. stray' \in [content: SUBSET ContentId, placeholders: SUBSET ContentId, meta: SUBSET Keys]
    <3>1. CASE BeginNewNca
      BY <3>1 DEF HistoryTypeOK, BeginNewNca
    <3>2. CASE EndNewNca
      <4>1. Active.id \in ContentId
        BY <3>2, ActiveNca DEF EndNewNca
      <4> QED
        BY <3>2, <4>1 DEF HistoryTypeOK, EndNewNca
    <3> QED
      BY <1>3, <3>1, <3>2
  <2> QED
    BY <1>3, <2>1 DEF HistoryTypeOK, BeginNewNca, EndNewNca
<1>4. CASE CommitMeta \/ CommitFails
  <2>1. CurrentKey \in Keys
    BY <1>4, CurrentTyped DEF CommitMeta, CommitFails
  <2> QED
    BY <1>4, <2>1 DEF HistoryTypeOK, CommitMeta, CommitFails, FinishFails
<1>5. CASE FinishSucceeds
  BY <1>5 DEF HistoryTypeOK, StoreTypeOK, FinishSucceeds
<1>6. CASE Abort
  BY <1>6 DEF HistoryTypeOK, SinkTypeOK, Abort, DropPlaceholder
<1>7. ASSUME NEW k \in Keys, RollbackMeta(k) PROVE HistoryTypeOK'
  BY <1>7 DEF HistoryTypeOK, RollbackMeta
<1>8. ASSUME NEW i \in ContentId, RollbackContent(i) PROVE HistoryTypeOK'
  BY <1>8 DEF HistoryTypeOK, RollbackContent
<1>9. CASE RollbackDone
  BY <1>9 DEF HistoryTypeOK, RollbackDone
<1>10. CASE Crash
  BY <1>10 DEF HistoryTypeOK, SinkTypeOK, Crash
<1>11. CASE ParseHeader \/ BeginPlainEntry \/ BeginShortNca \/ BeginExistingNca
            \/ BeginUnknownNca \/ ConsumeEntry \/ EndOtherEntry
  BY <1>1, <1>11 DEF ParseHeader, BeginPlainEntry, BeginShortNca, BeginExistingNca,
                     BeginUnknownNca, ConsumeEntry, EndOtherEntry
<1>12. ASSUME NEW stem \in Stems, ImportTicket(stem) PROVE UNCHANGED history
  BY <1>12 DEF ImportTicket
<1>13. CASE FinishRefused \/ FinishStarts \/ TicketsRefused \/ TicketsDone \/ SetMeta
            \/ MetaRefused \/ PushRecord \/ RecordFails \/ Close
  BY <1>1, <1>13 DEF FinishRefused, FinishStarts, TicketsRefused, TicketsDone, SetMeta,
                     MetaRefused, PushRecord, RecordFails, Close, FinishFails, history
<1> QED
  BY <1>1, <1>2, <1>3, <1>4, <1>5, <1>6, <1>7, <1>8, <1>9, <1>10, <1>11, <1>12, <1>13
  DEF Next, SinkStep, vars, history

(* Every variable keeps its type, whatever fails and whenever it crashes. *)
THEOREM TypeCorrect == Spec => []TypeOK
<1>1. TypeOK /\ [Next]_vars => TypeOK'
  BY StoreTypePreserved, SinkTypePreserved, HistoryTypePreserved DEF TypeOK
<1> QED
  BY InitTypeOK, <1>1, PTL DEF Spec

-----------------------------------------------------------------------------
(* Which steps can disturb what. *)

(* Only a registration and a rollback touch the registered content. *)
LEMMA ContentSteps ==
    ASSUME [Next]_vars
    PROVE  \/ UNCHANGED content
           \/ EndNewNca
           \/ \E i \in ContentId : RollbackContent(i)
<1> SUFFICES ASSUME ~EndNewNca, ~(\E i \in ContentId : RollbackContent(i))
             PROVE  UNCHANGED content
  OBVIOUS
<1>1. ASSUME NEW p \in Packages, Open(p) PROVE UNCHANGED content
  BY <1>1 DEF Open, store
<1>2. ASSUME NEW stem \in Stems, ImportTicket(stem) PROVE UNCHANGED content
  BY <1>2 DEF ImportTicket
<1>3. ASSUME NEW k \in Keys, RollbackMeta(k) PROVE UNCHANGED content
  BY <1>3 DEF RollbackMeta
<1>4. CASE ParseHeader \/ BeginPlainEntry \/ BeginShortNca \/ BeginExistingNca
           \/ BeginUnknownNca \/ BeginNewNca \/ ConsumeEntry \/ EndOtherEntry
  BY <1>4 DEF ParseHeader, BeginPlainEntry, BeginShortNca, BeginExistingNca,
              BeginUnknownNca, BeginNewNca, ConsumeEntry, EndOtherEntry, store
<1>5. CASE FinishRefused \/ FinishStarts \/ TicketsRefused \/ TicketsDone \/ SetMeta
           \/ MetaRefused \/ CommitMeta \/ CommitFails \/ PushRecord \/ RecordFails
           \/ FinishSucceeds
  BY <1>5 DEF FinishRefused, FinishStarts, TicketsRefused, TicketsDone, SetMeta, MetaRefused,
              CommitMeta, CommitFails, PushRecord, RecordFails, FinishSucceeds, store
<1>6. CASE Abort \/ RollbackDone \/ Close \/ Crash
  BY <1>6 DEF Abort, RollbackDone, Close, Crash, store
<1>7. CASE UNCHANGED vars
  BY <1>7 DEF vars, store
<1> QED
  BY <1>1, <1>2, <1>3, <1>4, <1>5, <1>6, <1>7 DEF Next, SinkStep

(* The history moves only when a transfer opens or finish() returns true, and *)
(* only a registration lengthens the list of rollback().                      *)
LEMMA HistorySteps ==
    ASSUME [Next]_vars
    PROVE  /\ UNCHANGED before \/ \E p \in Packages : Open(p)
           /\ UNCHANGED settled \/ FinishSucceeds
           /\ newly_registered_' \subseteq newly_registered_ \/ EndNewNca
<1>1. ASSUME NEW p \in Packages, Open(p)
      PROVE  UNCHANGED <<settled, newly_registered_>>
  BY <1>1 DEF Open
<1>2. ASSUME NEW stem \in Stems, ImportTicket(stem)
      PROVE  UNCHANGED <<before, settled, newly_registered_>>
  BY <1>2 DEF ImportTicket, history
<1>3. ASSUME NEW k \in Keys, RollbackMeta(k)
      PROVE  UNCHANGED <<before, settled, newly_registered_>>
  BY <1>3 DEF RollbackMeta
<1>4. ASSUME NEW i \in ContentId, RollbackContent(i)
      PROVE  UNCHANGED <<before, settled>> /\ newly_registered_' \subseteq newly_registered_
  BY <1>4 DEF RollbackContent
<1>5. CASE ParseHeader \/ BeginPlainEntry \/ BeginShortNca \/ BeginExistingNca
           \/ BeginUnknownNca \/ BeginNewNca \/ ConsumeEntry \/ EndOtherEntry
  BY <1>5 DEF ParseHeader, BeginPlainEntry, BeginShortNca, BeginExistingNca,
              BeginUnknownNca, BeginNewNca, ConsumeEntry, EndOtherEntry, history
<1>6. CASE EndNewNca
  BY <1>6 DEF EndNewNca
<1>7. CASE FinishRefused \/ FinishStarts \/ TicketsRefused \/ TicketsDone \/ SetMeta
           \/ MetaRefused \/ CommitMeta \/ CommitFails \/ PushRecord \/ RecordFails
  BY <1>7 DEF FinishRefused, FinishStarts, TicketsRefused, TicketsDone, SetMeta, MetaRefused,
              CommitMeta, CommitFails, PushRecord, RecordFails, FinishFails, history
<1>8. CASE FinishSucceeds
  BY <1>8 DEF FinishSucceeds
<1>9. CASE Abort \/ RollbackDone \/ Close \/ Crash
  BY <1>9 DEF Abort, RollbackDone, Close, Crash, Destroyed, history
<1>10. CASE UNCHANGED vars
  BY <1>10 DEF vars, history
<1> QED
  BY <1>1, <1>2, <1>3, <1>4, <1>5, <1>6, <1>7, <1>8, <1>9, <1>10 DEF Next, SinkStep

-----------------------------------------------------------------------------
(* The inductive invariant is inductive. *)

LEMMA InitInd == Init => IndInv
<1> SUFFICES ASSUME Init PROVE IndInv
  OBVIOUS
<1>1. ControlInv /\ EntryInv
  BY DEF Init, ControlInv, EntryInv
<1>2. ExistingContentKept /\ NewlyRegisteredAreNew /\ SettledTitlesKeepContent
  BY DEF Init, ExistingContentKept, NewlyRegisteredAreNew, SettledTitlesKeepContent,
         NoContent, NoKeys
<1>3. SettledBefore /\ FinishInv
  BY DEF Init, SettledBefore, FinishInv, Receiving
<1> QED
  BY <1>1, <1>2, <1>3, InitTypeOK DEF IndInv, TransferInv

LEMMA ControlPreserved == TypeOK /\ ControlInv /\ [Next]_vars => ControlInv'
<1> SUFFICES ASSUME TypeOK, ControlInv, [Next]_vars PROVE ControlInv'
  OBVIOUS
<1> USE DEF ControlInv, entryVars, finishVars, flags, Fail
<1>1. CASE UNCHANGED vars
  BY <1>1 DEF vars
<1>2. ASSUME NEW p \in Packages, Open(p) PROVE ControlInv'
  BY <1>2 DEF Open
<1>3. CASE ParseHeader \/ BeginPlainEntry \/ BeginShortNca \/ BeginExistingNca
           \/ BeginUnknownNca \/ BeginNewNca
  BY <1>3 DEF ParseHeader, BeginPlainEntry, BeginShortNca, BeginExistingNca,
              BeginUnknownNca, BeginNewNca, AtNcaStart, AtEntryStart, Receiving
<1>4. CASE ConsumeEntry \/ EndNewNca \/ EndOtherEntry
  BY <1>4 DEF ConsumeEntry, EndNewNca, EndOtherEntry, AtEntryData, AtEntryEnd, Receiving
<1>5. CASE FinishRefused \/ FinishStarts
  BY <1>5 DEF FinishRefused, FinishStarts, Receiving
<1>6. ASSUME NEW stem \in Stems, ImportTicket(stem) PROVE ControlInv'
  BY <1>6 DEF ImportTicket
<1>7. CASE TicketsRefused \/ MetaRefused \/ CommitFails \/ RecordFails
  BY <1>7 DEF TicketsRefused, MetaRefused, CommitFails, RecordFails, FinishFails, CnmtPending
<1>8. CASE TicketsDone \/ SetMeta \/ CommitMeta \/ PushRecord
  BY <1>8 DEF TicketsDone, SetMeta, CommitMeta, PushRecord, CnmtPending
<1>9. CASE FinishSucceeds
  BY <1>9 DEF FinishSucceeds
<1>10. CASE Abort
  BY <1>10 DEF Abort
<1>11. ASSUME NEW k \in Keys, RollbackMeta(k) PROVE ControlInv'
  BY <1>11 DEF RollbackMeta
<1>12. ASSUME NEW i \in ContentId, RollbackContent(i) PROVE ControlInv'
  BY <1>12 DEF RollbackContent
<1>13. CASE RollbackDone \/ Close \/ Crash
  BY <1>13 DEF RollbackDone, Close, Crash, Destroyed
<1> QED
  BY <1>1, <1>2, <1>3, <1>4, <1>5, <1>6, <1>7, <1>8, <1>9, <1>10, <1>11, <1>12, <1>13
  DEF Next, SinkStep

(* Only Open makes a sink, and finished_ is never taken back while it lives. *)
LEMMA ActivitySteps ==
    ASSUME TypeOK, ControlInv, [Next]_vars, pc' # "idle", ~finished_'
    PROVE  \/ pc # "idle" /\ ~finished_
           \/ \E p \in Packages : Open(p)
<1> USE DEF ControlInv, flags, Fail
<1>1. CASE ParseHeader \/ BeginPlainEntry \/ BeginShortNca \/ BeginExistingNca
           \/ BeginUnknownNca \/ BeginNewNca \/ FinishRefused \/ FinishStarts
  BY <1>1 DEF ParseHeader, BeginPlainEntry, BeginShortNca, BeginExistingNca, BeginUnknownNca,
              BeginNewNca, FinishRefused, FinishStarts, AtNcaStart, AtEntryStart, Receiving
<1>2. CASE ConsumeEntry \/ EndNewNca \/ EndOtherEntry
  BY <1>2 DEF ConsumeEntry, EndNewNca, EndOtherEntry, AtEntryData, AtEntryEnd, Receiving
<1>3. ASSUME NEW stem \in Stems, ImportTicket(stem) PROVE pc # "idle" /\ ~finished_
  BY <1>3 DEF ImportTicket
<1>4. CASE TicketsRefused \/ TicketsDone \/ SetMeta \/ MetaRefused \/ CommitMeta
           \/ CommitFails \/ PushRecord \/ RecordFails \/ FinishSucceeds
  BY <1>4 DEF TicketsRefused, TicketsDone, SetMeta, MetaRefused, CommitMeta, CommitFails,
              PushRecord, RecordFails, FinishSucceeds, CnmtPending
<1>5. CASE Abort \/ RollbackDone \/ Close \/ Crash
  BY <1>5 DEF Abort, RollbackDone, Close, Crash
<1>6. ASSUME NEW k \in Keys, RollbackMeta(k) PROVE pc # "idle" /\ ~finished_
  BY <1>6 DEF RollbackMeta
<1>7. ASSUME NEW i \in ContentId, RollbackContent(i) PROVE pc # "idle" /\ ~finished_
  BY <1>7 DEF RollbackContent
<1>8. CASE UNCHANGED vars
  BY <1>8 DEF vars
<1> QED
  BY <1>1, <1>2, <1>3, <1>4, <1>5, <1>6, <1>7, <1>8 DEF Next, SinkStep

(* While an entry is under way its NCA is touched by nothing but its own end. *)
LEMMA EntryPreserved ==
    TypeOK /\ ControlInv /\ EntryInv /\ [Next]_vars => EntryInv'
<1> SUFFICES ASSUME TypeOK, ControlInv, EntryInv, [Next]_vars PROVE EntryInv'
  OBVIOUS
<1> USE DEF EntryInv, entryVars, flags, Fail
<1>1. ASSUME UNCHANGED <<pc, pkg, entryVars, finished_, content>>, failed_' = failed_ \/ failed_'
      PROVE  EntryInv'
  BY <1>1 DEF Receiving, Active, Entries
<1>2. ASSUME entry_started_' = FALSE \/ failed_' \/ finished_' \/ pc' # "stream"
      PROVE  EntryInv'
  BY <1>2 DEF Receiving
<1>3. ASSUME NEW p \in Packages, Open(p) PROVE EntryInv'
  BY <1>2, <1>3 DEF Open, ControlInv
<1>4. CASE ParseHeader
  BY <1>4, <1>2 DEF ParseHeader, Receiving, Active, Entries, store
<1>5. CASE BeginPlainEntry
  BY <1>5 DEF BeginPlainEntry, AtEntryStart, Receiving, Active, Entries
<1>6. CASE BeginExistingNca
  BY <1>6, <1>2 DEF BeginExistingNca, Active, Entries, store
<1>7. CASE BeginNewNca
  BY <1>7, <1>2 DEF BeginNewNca, Active, Entries
<1>8. CASE BeginShortNca \/ BeginUnknownNca \/ FinishRefused
  BY <1>8, <1>2 DEF BeginShortNca, BeginUnknownNca, FinishRefused
<1>9. CASE ConsumeEntry
  BY <1>9, <1>2 DEF ConsumeEntry, Receiving, Active, Entries, store
<1>10. CASE EndNewNca \/ EndOtherEntry
  BY <1>10, <1>2 DEF EndNewNca, EndOtherEntry, NextEntry
<1>11. CASE FinishStarts \/ FinishSucceeds
  BY <1>11, <1>2 DEF FinishStarts, FinishSucceeds
<1>12. ASSUME NEW stem \in Stems, ImportTicket(stem) PROVE EntryInv'
  BY <1>12, <1>2 DEF ImportTicket
<1>13. CASE TicketsRefused \/ TicketsDone \/ SetMeta \/ MetaRefused \/ CommitMeta
            \/ CommitFails \/ PushRecord \/ RecordFails
  BY <1>13, <1>2 DEF TicketsRefused, TicketsDone, SetMeta, MetaRefused, CommitMeta,
                     CommitFails, PushRecord, RecordFails, FinishFails
<1>14. CASE Abort
  BY <1>14, <1>2 DEF Abort
<1>15. ASSUME NEW k \in Keys, RollbackMeta(k) PROVE EntryInv'
  BY <1>15, <1>2 DEF RollbackMeta
<1>16. ASSUME NEW i \in ContentId, RollbackContent(i) PROVE EntryInv'
  BY <1>16, <1>2 DEF RollbackContent, Undoes
<1>17. CASE RollbackDone \/ Close \/ Crash
  BY <1>17, <1>2 DEF RollbackDone, Close, Crash, Destroyed, ControlInv
<1>18. CASE UNCHANGED vars
  BY <1>18, <1>1 DEF vars, store
<1> QED
  BY <1>3, <1>4, <1>5, <1>6, <1>7, <1>8, <1>9, <1>10, <1>11, <1>12, <1>13, <1>14, <1>15,
     <1>16, <1>17, <1>18
  DEF Next, SinkStep

(* The NCA a transfer registers was absent, now and when it was opened. *)
LEMMA RegisteredIsNew ==
    ASSUME TypeOK, EntryInv, ExistingContentKept, EndNewNca
    PROVE  /\ Active.id \in ContentId /\ Active.size \in Nat
           /\ content[Active.id] = Absent
           /\ before.content[Active.id] = Absent
<1>1. Active.id \in ContentId /\ Active.size \in Nat
  BY ActiveNca DEF TypeOK, EndNewNca, Entry
<1>2. content[Active.id] = Absent
  BY DEF EntryInv, EndNewNca, AtEntryEnd
<1> QED
  BY <1>1, <1>2 DEF ExistingContentKept

LEMMA ExistingPreserved ==
    IndInv /\ [Next]_vars => ExistingContentKept' /\ NewlyRegisteredAreNew'
<1> SUFFICES ASSUME TypeOK, ControlInv, EntryInv, ExistingContentKept, NewlyRegisteredAreNew,
                    [Next]_vars
             PROVE  ExistingContentKept' /\ NewlyRegisteredAreNew'
  BY DEF IndInv, TransferInv
<1> USE DEF ExistingContentKept, NewlyRegisteredAreNew
<1>1. ASSUME NEW p \in Packages, Open(p) PROVE ExistingContentKept' /\ NewlyRegisteredAreNew'
  BY <1>1 DEF Open, ControlInv, store
<1>2. CASE UNCHANGED before /\ EndNewNca
  <2>1. /\ Active.id \in ContentId /\ content[Active.id] = Absent
        /\ before.content[Active.id] = Absent
    BY <1>2, RegisteredIsNew
  <2> QED
    BY <1>2, <2>1 DEF EndNewNca, Remember, TypeOK, StoreTypeOK
<1>3. ASSUME UNCHANGED before, NEW i \in ContentId, RollbackContent(i)
      PROVE  ExistingContentKept' /\ NewlyRegisteredAreNew'
  BY <1>3 DEF RollbackContent, Undoes, TypeOK, StoreTypeOK
<1>4. CASE UNCHANGED <<before, content>> /\ newly_registered_' \subseteq newly_registered_
  BY <1>4
<1> QED
  BY <1>1, <1>2, <1>3, <1>4, ContentSteps, HistorySteps

(* Completeness survives every step that keeps what is registered. *)
LEMMA CompleteKept ==
    ASSUME NEW c \in CnmtId, Complete(c),
           \A i \in ContentId : content[i] # Absent => content'[i] = content[i]
    PROVE  Complete(c)'
<1>1. c \in ContentId /\ content'[c] # Absent
  BY IdsAssumption DEF Complete
<1>2. ASSUME NEW r \in Cnmt[c].required PROVE content'[r.id] = r.size
  <2>1. r.id \in ContentId /\ r.size \in Nat
    BY CnmtAssumption
  <2> QED
    BY <2>1 DEF Complete, Absent
<1> QED
  BY <1>1, <1>2 DEF Complete

LEMMA SettledPreserved ==
    IndInv /\ [Next]_vars => SettledTitlesKeepContent' /\ SettledBefore'
<1> SUFFICES ASSUME IndInv, [Next]_vars
             PROVE  SettledTitlesKeepContent' /\ SettledBefore'
  OBVIOUS
<1>1. CASE FinishSucceeds
  <2>1. SettledBefore'
    BY <1>1 DEF SettledBefore, FinishSucceeds
  <2>2. UNCHANGED content
    BY <1>1 DEF FinishSucceeds, store
  <2>3. ASSUME NEW k \in Keys, settled'[k] # NoMeta PROVE Complete(settled'[k])
    BY <1>1, <2>3 DEF FinishSucceeds, IndInv, TransferInv, FinishInv, SettledTitlesKeepContent
  <2>4. ASSUME NEW k \in Keys, settled'[k] # NoMeta PROVE Complete(settled[k])'
    BY <2>3, <2>4, <2>2 DEF Complete
  <2> QED
    BY <2>1, <2>4 DEF SettledTitlesKeepContent
<1>2. CASE UNCHANGED settled
  <2>1. ASSUME NEW k \in Keys, settled[k] # NoMeta
        PROVE  /\ settled[k] \in CnmtId /\ settled[k] \in ContentId
               /\ \A r \in Cnmt[settled[k]].required : r.id \in ContentId /\ r.size \in Nat
    <3>1. settled[k] \in CnmtId
      BY <2>1 DEF IndInv, TypeOK, HistoryTypeOK, Meta
    <3> QED
      BY <3>1, CnmtAssumption, IdsAssumption
  <2>2. SettledTitlesKeepContent'
    <3>1. CASE \A i \in ContentId : content[i] # Absent => content'[i] = content[i]
      BY <1>2, <2>1, <3>1, CompleteKept DEF SettledTitlesKeepContent, IndInv, TransferInv
    <3>2. CASE EndNewNca
      <4>1. Active.id \in ContentId /\ content[Active.id] = Absent
        BY <3>2, RegisteredIsNew DEF IndInv, TransferInv
      <4>2. \A i \in ContentId : content[i] # Absent => content'[i] = content[i]
        BY <3>2, <4>1 DEF EndNewNca, IndInv, TypeOK, StoreTypeOK
      <4> QED
        BY <3>1, <4>2
    <3>3. ASSUME NEW i \in ContentId, RollbackContent(i) PROVE SettledTitlesKeepContent'
      <4>1. pc # "idle" /\ ~finished_
        BY <3>3 DEF RollbackContent, Undoes, IndInv, ControlInv
      <4>2. ASSUME NEW k \in Keys, settled[k] # NoMeta PROVE Complete(settled[k])'
        <5>1. /\ before.content[settled[k]] # Absent
              /\ \A r \in Cnmt[settled[k]].required : before.content[r.id] = r.size
          BY <4>1, <4>2 DEF IndInv, TransferInv, SettledBefore
        <5>2. before.content[i] = Absent
          BY <3>3 DEF RollbackContent, Undoes, IndInv, TransferInv, NewlyRegisteredAreNew
        <5>3. \A j \in ContentId : j # i => content'[j] = content[j]
          BY <3>3 DEF RollbackContent, IndInv, TypeOK, StoreTypeOK
        <5>4. content'[settled[k]] # Absent
          BY <4>2, <2>1, <5>1, <5>2, <5>3 DEF IndInv, TransferInv, SettledTitlesKeepContent, Complete
        <5>5. ASSUME NEW r \in Cnmt[settled[k]].required PROVE content'[r.id] = r.size
          BY <4>2, <2>1, <5>1, <5>2, <5>3
          DEF IndInv, TransferInv, SettledTitlesKeepContent, Complete, Absent
        <5> QED
          BY <1>2, <5>4, <5>5 DEF Complete
      <4> QED
        BY <1>2, <4>2 DEF SettledTitlesKeepContent
    <3> QED
      BY <3>1, <3>2, <3>3, ContentSteps
  <2>3. SettledBefore'
    <3>1. ASSUME NEW p \in Packages, Open(p) PROVE SettledBefore'
      <4>1. before'.content = content
        BY <3>1 DEF Open
      <4> QED
        BY <1>2, <4>1 DEF SettledBefore, IndInv, TransferInv, SettledTitlesKeepContent, Complete
    <3>2. CASE UNCHANGED before
      <4>1. (pc' # "idle" /\ ~finished_' => pc # "idle" /\ ~finished_) \/ \E p \in Packages : Open(p)
        BY ActivitySteps DEF IndInv
      <4> QED
        BY <1>2, <3>1, <3>2, <4>1 DEF SettledBefore, IndInv, TransferInv
    <3> QED
      BY <3>1, <3>2, HistorySteps
  <2> QED
    BY <2>2, <2>3
<1> QED
  BY <1>1, <1>2, HistorySteps

(* finish() only ever sets a key whose CNMT it has found complete, and no step *)
(* of finish() takes content away.                                             *)
LEMMA FinishPreserved == IndInv /\ [Next]_vars => FinishInv'
<1> SUFFICES ASSUME IndInv, [Next]_vars PROVE FinishInv'
  OBVIOUS
<1> USE DEF IndInv, TransferInv, FinishInv, entryVars, finishVars, flags, store, Fail
<1>1. ASSUME ~Receiving', pc' \notin {"tickets", "cnmt", "commit", "record"} PROVE FinishInv'
  BY <1>1
<1>2. ASSUME UNCHANGED <<content, cnmt_ids_>>, Receiving, pc' = "stream" PROVE FinishInv'
  BY <1>2
<1>3. ASSUME NEW p \in Packages, Open(p) PROVE FinishInv'
  <2>1. cnmt_ids_' = <<>> /\ pc' \in {"idle", "stream"}
    BY <1>3 DEF Open, ControlInv
  <2> QED
    BY <2>1
<1>4. CASE ParseHeader \/ BeginPlainEntry \/ BeginShortNca \/ BeginExistingNca
           \/ BeginUnknownNca \/ BeginNewNca \/ ConsumeEntry \/ FinishRefused
  BY <1>4, <1>2 DEF ParseHeader, BeginPlainEntry, BeginShortNca, BeginExistingNca, Receiving,
                    BeginUnknownNca, BeginNewNca, ConsumeEntry, FinishRefused,
                    AtNcaStart, AtEntryStart, AtEntryData
<1>5. ASSUME EndNewNca \/ EndOtherEntry PROVE FinishInv'
  <2>1. pc' = "stream" /\ Receiving
    BY <1>5 DEF EndNewNca, EndOtherEntry, AtEntryEnd, Receiving
  <2>2. CASE failed_'
    BY <2>1, <2>2 DEF Receiving
  <2>3. CASE ~failed_'
    <3>1. cnmt_ids_' = IF Active.kind = "cnmt" THEN Append(cnmt_ids_, Active.id) ELSE cnmt_ids_
      BY <1>5, <2>3 DEF EndNewNca, EndOtherEntry, NoteCnmt
    <3>2. \A i \in ContentId : content[i] # Absent => content'[i] # Absent
      BY <1>5, ActiveNca DEF EndNewNca, EndOtherEntry, TypeOK, StoreTypeOK, Entry, Absent
    <3>3. Active.kind = "cnmt" => Active.id \in CnmtId /\ content'[Active.id] # Absent
      <4> SUFFICES ASSUME Active.kind = "cnmt"
                   PROVE  Active.id \in CnmtId /\ content'[Active.id] # Absent
        OBVIOUS
      <4>1. Active.id \in CnmtId /\ Active.id \in ContentId /\ Active.size \in Nat
        BY <1>5, ActiveNca DEF EndNewNca, EndOtherEntry, IsNca, Entry, TypeOK
      <4>2. CASE EndNewNca
        BY <4>1, <4>2, <2>3 DEF EndNewNca, TypeOK, StoreTypeOK, Absent
      <4>3. CASE EndOtherEntry
        <5>1. skip_active_nca_ /\ content[Active.id] = Active.size
          BY <4>3 DEF EndOtherEntry, IsNca, EntryInv, AtEntryEnd
        <5> QED
          BY <4>1, <4>3, <5>1 DEF EndOtherEntry, Absent
      <4> QED
        BY <1>5, <4>2, <4>3
    <3>4. ASSUME NEW n \in 1..Len(cnmt_ids_') PROVE content'[cnmt_ids_'[n]] # Absent
      <4>1. cnmt_ids_ \in Seq(CnmtId)
        BY DEF TypeOK, SinkTypeOK
      <4>2. CASE n \in 1..Len(cnmt_ids_) /\ cnmt_ids_'[n] = cnmt_ids_[n]
        <5>1. cnmt_ids_[n] \in ContentId /\ content[cnmt_ids_[n]] # Absent
          BY <4>1, <4>2, <2>1, IdsAssumption
        <5> QED
          BY <4>2, <5>1, <3>2
      <4>3. CASE Active.kind = "cnmt" /\ cnmt_ids_'[n] = Active.id
        BY <4>3, <3>3
      <4>4. (n \in 1..Len(cnmt_ids_) /\ cnmt_ids_'[n] = cnmt_ids_[n])
            \/ (Active.kind = "cnmt" /\ cnmt_ids_'[n] = Active.id)
        BY <3>1, <3>4, <4>1
      <4> QED
        BY <4>2, <4>3, <4>4
    <3> QED
      BY <2>1, <3>4
  <2> QED
    BY <2>2, <2>3
<1>6. CASE FinishStarts
  BY <1>6 DEF FinishStarts, Receiving, ControlInv
<1>7. ASSUME NEW stem \in Stems, ImportTicket(stem) PROVE FinishInv'
  BY <1>7 DEF ImportTicket, Receiving
<1>8. CASE TicketsDone
  BY <1>8 DEF TicketsDone, Receiving, ControlInv
<1>9. CASE TicketsRefused \/ MetaRefused \/ CommitFails \/ RecordFails
  BY <1>9, <1>1 DEF TicketsRefused, MetaRefused, CommitFails, RecordFails, FinishFails, Receiving
<1>10. CASE SetMeta
  <2>1. CurrentCnmt \in CnmtId /\ CurrentKey \in Keys /\ cnmt_index \in 1..Len(cnmt_ids_)
    BY <1>10, CurrentTyped DEF SetMeta, TypeOK
  <2>2. content[CurrentCnmt] # Absent /\ CurrentCnmt # NoMeta
    BY <1>10, <2>1, IdsAssumption DEF SetMeta, CnmtPending, CurrentCnmt
  <2>3. Complete(CurrentCnmt)
    BY <1>10, <2>2 DEF SetMeta, MetaAcceptable, Complete
  <2>4. /\ UNCHANGED <<content, cnmt_ids_, cnmt_index, metadata_keys_>>
        /\ metaMem' = [metaMem EXCEPT ![CurrentKey] = CurrentCnmt]
        /\ pc = "cnmt" /\ pc' = "commit"
    BY <1>10 DEF SetMeta, CnmtPending
  <2>5. metaMem'[CurrentKey] = CurrentCnmt
        /\ \A k \in Keys : k # CurrentKey => metaMem'[k] = metaMem[k]
    BY <2>1, <2>4 DEF TypeOK, StoreTypeOK
  <2>6. CurrentKey' = CurrentKey
    BY <2>4 DEF CurrentKey, CurrentCnmt
  <2>7. \A c : Complete(c) => Complete(c)'
    BY <2>4 DEF Complete
  <2>8. \A k \in metadata_keys_ : metaMem'[k] # NoMeta /\ Complete(metaMem'[k])
    BY <2>2, <2>3, <2>4, <2>5 DEF TypeOK, SinkTypeOK
  <2>9. \A k \in metadata_keys_ : (metaMem[k] # NoMeta /\ Complete(metaMem[k]))'
    BY <2>8, <2>4 DEF Complete
  <2>10. (metaMem[CurrentKey] # NoMeta /\ Complete(metaMem[CurrentKey]))'
    BY <2>2, <2>3, <2>4, <2>5, <2>6 DEF Complete
  <2> QED
    BY <2>4, <2>9, <2>10
<1>11. CASE CommitMeta
  BY <1>11 DEF CommitMeta, Receiving, Complete, CurrentKey, CurrentCnmt
<1>12. CASE PushRecord
  BY <1>12 DEF PushRecord, Receiving, Complete
<1>13. CASE FinishSucceeds \/ Abort
  BY <1>13, <1>1 DEF FinishSucceeds, Abort, Receiving
<1>14. ASSUME NEW k \in Keys, RollbackMeta(k) PROVE FinishInv'
  BY <1>14, <1>1 DEF RollbackMeta, Receiving
<1>15. ASSUME NEW i \in ContentId, RollbackContent(i) PROVE FinishInv'
  BY <1>15, <1>1 DEF RollbackContent, Undoes, Receiving
<1>16. CASE RollbackDone \/ Close \/ Crash
  BY <1>16, <1>1 DEF RollbackDone, Close, Crash, Receiving, ControlInv
<1>17. CASE UNCHANGED vars
  BY <1>17 DEF vars, Receiving, Complete, CurrentKey, CurrentCnmt
<1> QED
  BY <1>3, <1>4, <1>5, <1>6, <1>7, <1>8, <1>9, <1>10, <1>11, <1>12, <1>13, <1>14, <1>15,
     <1>16, <1>17
  DEF Next, SinkStep

THEOREM Inductive == Spec => []IndInv
<1>1. IndInv /\ [Next]_vars => IndInv'
  <2> SUFFICES ASSUME IndInv, [Next]_vars PROVE IndInv'
    OBVIOUS
  <2>1. TypeOK'
    BY StoreTypePreserved, SinkTypePreserved, HistoryTypePreserved DEF IndInv, TypeOK
  <2>2. ControlInv' /\ EntryInv'
    BY ControlPreserved, EntryPreserved DEF IndInv
  <2>3. TransferInv'
    BY ExistingPreserved, SettledPreserved, FinishPreserved DEF TransferInv
  <2> QED
    BY <2>1, <2>2, <2>3 DEF IndInv
<1> QED
  BY InitInd, <1>1, PTL DEF Spec

(* However a transfer ends, no NCA that was registered before it is deleted  *)
(* or replaced (rollback(), endEntry()).                                     *)
THEOREM ExistingContentSafe == Spec => []ExistingContentKept
<1>1. IndInv => ExistingContentKept
  BY DEF IndInv, TransferInv
<1> QED
  BY Inductive, <1>1, PTL

(* A title reported as installed keeps every NCA its CNMT requires, through  *)
(* every later transfer, failing call and crash.                             *)
THEOREM SettledTitlesSafe == Spec => []SettledTitlesKeepContent
<1>1. IndInv => SettledTitlesKeepContent
  BY DEF IndInv, TransferInv
<1> QED
  BY Inductive, <1>1, PTL

-----------------------------------------------------------------------------
(***************************************************************************)
(* What a transfer leaves.  A second invariant, on top of IndInv, for the  *)
(* properties of placeholders, of committed metadata and of a finished     *)
(* installation.                                                           *)
(***************************************************************************)

(* The open placeholder is that of the NCA under way. *)
PlaceholderInv ==
    entry_placeholder_open_ =>
        /\ pc = "stream" /\ ~finished_
        /\ current_entry_ <= Len(Entries) /\ entry_started_
        /\ IsNca(Active) /\ active_content_id_ = Active.id /\ ~skip_active_nca_

(* What the caller has been told. *)
OutcomeInv ==
    /\ pc = "idle" => outcome # "receiving"
    /\ pc # "idle" => outcome = IF finished_ THEN "ok" ELSE "receiving"

Installing == pc \in {"cnmt", "commit", "record"} \/ finished_
Healthy == Receiving \/ pc = "tickets" \/ Installing

(* Every entry before the cursor has left what finish() will look for. *)
StreamInv ==
    /\ pc = "idle" => current_entry_ = 1 /\ cnmt_index = 1 /\ imported = {}
    /\ Receiving \/ pc = "tickets" => cnmt_index = 1
    /\ pc = "tickets" \/ Installing => AllConsumed
    /\ Healthy =>
          \A n \in 1..Len(Entries) : n < current_entry_ =>
             /\ IsNca(Entries[n]) => content[Entries[n].id] = Entries[n].size
             /\ Entries[n].kind = "cnmt" => Entries[n].id \in Elements(cnmt_ids_)
             /\ Entries[n].kind = "ticket" => Entries[n].id \in tickets_
    /\ imported \subseteq importedTickets
    /\ Installing => tickets_ = imported

(* The CNMTs of the package that have a key. *)
OfKey(k) == {c \in Elements(cnmt_ids_) : Cnmt[c].key = k}

(* The keys finish() has worked through hold a CNMT of this package. *)
MetaInv ==
    /\ Installing =>
          /\ \A n \in 1..Len(cnmt_ids_) : n < cnmt_index =>
                Cnmt[cnmt_ids_[n]].key \in metadata_keys_ \cap records
          /\ \A k \in metadata_keys_ :
                metaMem[k] \in OfKey(k) /\ metaDisk[k] \in OfKey(k) /\ Complete(metaDisk[k])
    /\ pc = "commit" => metaMem[CurrentKey] = CurrentCnmt
    /\ pc = "record" => CurrentKey \in metadata_keys_
    /\ finished_ => cnmt_index > Len(cnmt_ids_)

(* Both forms of the database name only complete CNMTs, and those a transfer *)
(* has not set itself stand on content older than it.                        *)
MetaBacked ==
    \A k \in Keys \ stray.meta :
        /\ metaMem[k] # NoMeta => Complete(metaMem[k])
        /\ metaDisk[k] # NoMeta => Complete(metaDisk[k])

CompleteBefore(c) ==
    /\ before.content[c] # Absent
    /\ \A r \in Cnmt[c].required : before.content[r.id] = r.size

KeysSet == metadata_keys_ \cup (IF pc = "commit" THEN {CurrentKey} ELSE {})

OthersBackedBefore ==
    pc # "idle" /\ ~finished_ =>
        \A k \in Keys \ (stray.meta \cup KeysSet) :
            /\ metaMem[k] # NoMeta => CompleteBefore(metaMem[k])
            /\ metaDisk[k] # NoMeta => CompleteBefore(metaDisk[k])

LeftInv ==
    /\ PlaceholderInv /\ OutcomeInv /\ AddedIsAccounted
    /\ StreamInv /\ MetaInv
    /\ MetaBacked /\ OthersBackedBefore

LEMMA InitLeft == Init => LeftInv
<1> SUFFICES ASSUME Init PROVE LeftInv
  OBVIOUS
<1>1. PlaceholderInv /\ OutcomeInv
  BY DEF Init, PlaceholderInv, OutcomeInv
<1>2. AddedIsAccounted
  BY DEF Init, AddedIsAccounted, NoContent
<1>3. StreamInv /\ MetaInv
  BY DEF Init, StreamInv, MetaInv, Healthy, Installing, Receiving
<1>4. MetaBacked /\ OthersBackedBefore
  BY DEF Init, MetaBacked, OthersBackedBefore, NoKeys
<1> QED
  BY <1>1, <1>2, <1>3, <1>4 DEF LeftInv

(* The placeholder is opened by beginEntry and closed by the end of its NCA. *)
LEMMA PlaceholderPreserved ==
    TypeOK /\ ControlInv /\ PlaceholderInv /\ [Next]_vars => PlaceholderInv'
<1> SUFFICES ASSUME TypeOK, ControlInv, PlaceholderInv, [Next]_vars PROVE PlaceholderInv'
  OBVIOUS
<1> USE DEF PlaceholderInv, entryVars, flags, Fail
<1>1. ASSUME ~entry_placeholder_open_' PROVE PlaceholderInv'
  BY <1>1
<1>2. ASSUME UNCHANGED <<pc, pkg, entryVars, finished_>> PROVE PlaceholderInv'
  BY <1>2 DEF Active, Entries, IsNca
<1>3. ASSUME NEW p \in Packages, Open(p) PROVE PlaceholderInv'
  BY <1>1, <1>3 DEF Open, ControlInv
<1>4. CASE ParseHeader \/ FinishRefused
  BY <1>4 DEF ParseHeader, FinishRefused, Active, Entries, IsNca
<1>5. CASE BeginPlainEntry \/ BeginShortNca \/ BeginExistingNca \/ BeginUnknownNca
  BY <1>1, <1>5 DEF BeginPlainEntry, BeginShortNca, BeginExistingNca, BeginUnknownNca,
                    AtNcaStart, AtEntryStart
<1>6. CASE BeginNewNca
  <2>1. ~entry_placeholder_open_ /\ pc = "stream" /\ ~finished_ /\ current_entry_ <= Len(Entries)
        /\ IsNca(Active)
    BY <1>6 DEF BeginNewNca, AtNcaStart, AtEntryStart, Receiving
  <2>2. /\ UNCHANGED <<pc, pkg, current_entry_, finished_>> /\ entry_started_'
        /\ active_content_id_' = Active.id
        /\ entry_placeholder_open_' => ~skip_active_nca_'
    BY <1>6, <2>1 DEF BeginNewNca
  <2> QED
    BY <2>1, <2>2 DEF Active, Entries, IsNca
<1>7. CASE ConsumeEntry
  BY <1>7 DEF ConsumeEntry, Active, Entries, IsNca
<1>8. CASE EndNewNca
  <2>1. \/ ~entry_placeholder_open_'
        \/ UNCHANGED <<entry_placeholder_open_, current_entry_, entry_started_, finished_>>
    BY <1>8 DEF EndNewNca
  <2>2. UNCHANGED <<pc, pkg, active_content_id_, skip_active_nca_>>
    BY <1>8 DEF EndNewNca
  <2> QED
    BY <2>1, <2>2 DEF Active, Entries, IsNca
<1>9. CASE EndOtherEntry
  BY <1>1, <1>9 DEF EndOtherEntry
<1>10. CASE FinishStarts
  <2>1. current_entry_ > Len(Entries) /\ Len(Entries) \in Nat /\ current_entry_ \in Nat
    <3>1. Package[pkg].entries \in Seq(Entry)
      BY <1>10, PackageAssumption DEF FinishStarts, Receiving, TypeOK, SinkTypeOK
    <3> QED
      BY <1>10, <3>1 DEF FinishStarts, AllConsumed, Entries, TypeOK, SinkTypeOK
  <2> QED
    BY <1>1, <1>10, <2>1 DEF FinishStarts
<1>11. ASSUME NEW stem \in Stems, ImportTicket(stem) PROVE PlaceholderInv'
  BY <1>2, <1>11 DEF ImportTicket
<1>12. CASE TicketsRefused \/ TicketsDone \/ SetMeta \/ MetaRefused \/ CommitMeta
            \/ CommitFails \/ PushRecord \/ RecordFails \/ FinishSucceeds
  BY <1>1, <1>12 DEF TicketsRefused, TicketsDone, SetMeta, MetaRefused, CommitMeta, CommitFails,
                     PushRecord, RecordFails, FinishSucceeds, FinishFails, CnmtPending
<1>13. CASE Abort
  BY <1>1, <1>13 DEF Abort
<1>14. ASSUME NEW k \in Keys, RollbackMeta(k) PROVE PlaceholderInv'
  BY <1>2, <1>14 DEF RollbackMeta
<1>15. ASSUME NEW i \in ContentId, RollbackContent(i) PROVE PlaceholderInv'
  BY <1>2, <1>15 DEF RollbackContent
<1>16. CASE RollbackDone \/ Close \/ Crash
  BY <1>1, <1>16 DEF RollbackDone, Close, Crash, Destroyed
<1>17. CASE UNCHANGED vars
  BY <1>2, <1>17 DEF vars
<1> QED
  BY <1>3, <1>4, <1>5, <1>6, <1>7, <1>8, <1>9, <1>10, <1>11, <1>12, <1>13, <1>14, <1>15,
     <1>16, <1>17
  DEF Next, SinkStep

LEMMA OutcomePreserved == TypeOK /\ ControlInv /\ OutcomeInv /\ [Next]_vars => OutcomeInv'
<1> SUFFICES ASSUME TypeOK, ControlInv, OutcomeInv, [Next]_vars PROVE OutcomeInv'
  OBVIOUS
<1> USE DEF OutcomeInv, ControlInv, flags, history, Fail
<1>1. ASSUME NEW p \in Packages, Open(p) PROVE OutcomeInv'
  BY <1>1 DEF Open
<1>2. CASE ParseHeader \/ BeginPlainEntry \/ BeginShortNca \/ BeginExistingNca
           \/ BeginUnknownNca \/ FinishRefused
  BY <1>2 DEF ParseHeader, BeginPlainEntry, BeginShortNca, BeginExistingNca,
              BeginUnknownNca, FinishRefused
<1>3. CASE BeginNewNca \/ ConsumeEntry \/ EndNewNca \/ EndOtherEntry
  <2>1. UNCHANGED <<pc, finished_, outcome>>
    BY <1>3 DEF BeginNewNca, ConsumeEntry, EndNewNca, EndOtherEntry
  <2> QED
    BY <2>1
<1>4. CASE FinishStarts
  BY <1>4 DEF FinishStarts, Receiving
<1>5. ASSUME NEW stem \in Stems, ImportTicket(stem) PROVE OutcomeInv'
  BY <1>5 DEF ImportTicket
<1>6. CASE TicketsRefused \/ MetaRefused \/ CommitFails \/ RecordFails
  BY <1>6 DEF TicketsRefused, MetaRefused, CommitFails, RecordFails, FinishFails, CnmtPending
<1>7. CASE TicketsDone \/ SetMeta \/ CommitMeta \/ PushRecord \/ FinishSucceeds
  BY <1>7 DEF TicketsDone, SetMeta, CommitMeta, PushRecord, FinishSucceeds, CnmtPending
<1>8. CASE Abort
  BY <1>8 DEF Abort
<1>9. ASSUME NEW k \in Keys, RollbackMeta(k) PROVE OutcomeInv'
  BY <1>9 DEF RollbackMeta
<1>10. ASSUME NEW i \in ContentId, RollbackContent(i) PROVE OutcomeInv'
  BY <1>10 DEF RollbackContent
<1>11. CASE RollbackDone \/ Close \/ Crash
  BY <1>11 DEF RollbackDone, Close, Crash, Destroyed
<1>12. CASE UNCHANGED vars
  BY <1>12 DEF vars
<1> QED
  BY <1>1, <1>2, <1>3, <1>4, <1>5, <1>6, <1>7, <1>8, <1>9, <1>10, <1>11, <1>12 DEF Next, SinkStep

(* Inside begin-, consume- and endEntry only the sink's own NCA changes hands. *)
LEMMA AddedPreserved ==
    TypeOK /\ ControlInv /\ PlaceholderInv /\ OutcomeInv /\ AddedIsAccounted /\ [Next]_vars
        => AddedIsAccounted'
<1> SUFFICES ASSUME TypeOK, ControlInv, PlaceholderInv, OutcomeInv, AddedIsAccounted, [Next]_vars
             PROVE  AddedIsAccounted'
  OBVIOUS
<1> USE DEF AddedIsAccounted, entryVars, flags, Fail
<1> DEFINE fresh == {i \in ContentId : content[i] # Absent /\ before.content[i] = Absent}
<1>1. ASSUME UNCHANGED <<content, placeholders, entry_placeholder_open_, active_content_id_,
                         newly_registered_, before, stray>>,
             outcome' # "ok" => outcome # "ok"
      PROVE  AddedIsAccounted'
  BY <1>1
<1>2. ASSUME NEW p \in Packages, Open(p) PROVE AddedIsAccounted'
  <2>1. /\ UNCHANGED <<content, placeholders, entry_placeholder_open_, stray>>
        /\ before'.content = content /\ ~entry_placeholder_open_
    BY <1>2 DEF Open, store, ControlInv
  <2> QED
    BY <2>1
<1>3. CASE ParseHeader \/ BeginPlainEntry \/ BeginShortNca \/ FinishRefused \/ FinishStarts
  BY <1>1, <1>3 DEF ParseHeader, BeginPlainEntry, BeginShortNca, FinishRefused, FinishStarts,
                    store, history
<1>4. CASE BeginExistingNca \/ BeginUnknownNca
  <2>1. ~entry_placeholder_open_
    BY <1>4 DEF PlaceholderInv, BeginExistingNca, BeginUnknownNca, AtNcaStart, AtEntryStart
  <2> QED
    BY <1>4, <2>1 DEF BeginExistingNca, BeginUnknownNca, store, history
<1>5. CASE BeginNewNca
  <2>1. ~entry_placeholder_open_
    BY <1>5 DEF PlaceholderInv, BeginNewNca, AtNcaStart, AtEntryStart
  <2>2. /\ UNCHANGED <<content, before, outcome, newly_registered_>>
        /\ active_content_id_' = Active.id
        /\ stray'.content = stray.content
    BY <1>5 DEF BeginNewNca, TypeOK, HistoryTypeOK
  <2>3. PICK cleared \in {TRUE, FALSE} :
           LET remaining == IF cleared THEN placeholders \ {Active.id} ELSE placeholders IN
           \/ /\ placeholders' = remaining \cup {Active.id}
              /\ stray'.placeholders = stray.placeholders \ {Active.id}
              /\ entry_placeholder_open_'
           \/ /\ placeholders' = remaining
              /\ UNCHANGED <<entry_placeholder_open_, stray>>
    BY <1>5 DEF BeginNewNca, TypeOK, HistoryTypeOK
  <2> QED
    BY <2>1, <2>2, <2>3
<1>6. CASE ConsumeEntry \/ EndOtherEntry
  BY <1>1, <1>6 DEF ConsumeEntry, EndOtherEntry, store, history
<1>7. CASE EndNewNca
  <2>1. Active.id \in ContentId
    BY <1>7, ActiveNca DEF EndNewNca, TypeOK
  <2>2. /\ UNCHANGED <<outcome, before, active_content_id_>>
        /\ stray'.placeholders = stray.placeholders
    BY <1>7 DEF EndNewNca, TypeOK, HistoryTypeOK
  <2>3. \/ /\ content' = [content EXCEPT ![Active.id] = Active.size]
           /\ placeholders' = placeholders \ {Active.id}
           /\ ~entry_placeholder_open_'
           /\ newly_registered_' = newly_registered_ \cup {Active.id}
           /\ stray'.content = stray.content \ {Active.id}
        \/ UNCHANGED <<content, placeholders, entry_placeholder_open_, newly_registered_, stray>>
    BY <1>7 DEF EndNewNca, Remember, TypeOK, HistoryTypeOK
  <2>4. entry_placeholder_open_ => active_content_id_ = Active.id
    BY DEF PlaceholderInv
  <2>5. CASE UNCHANGED <<content, placeholders, entry_placeholder_open_, newly_registered_, stray>>
    BY <1>1, <2>2, <2>5
  <2>6. CASE /\ content' = [content EXCEPT ![Active.id] = Active.size]
             /\ placeholders' = placeholders \ {Active.id}
             /\ ~entry_placeholder_open_'
             /\ newly_registered_' = newly_registered_ \cup {Active.id}
             /\ stray'.content = stray.content \ {Active.id}
    <3>1. placeholders' \subseteq stray'.placeholders
      BY <2>2, <2>4, <2>6
    <3>2. outcome' # "ok" => fresh' \subseteq newly_registered_' \cup stray'.content
      BY <2>1, <2>2, <2>6 DEF TypeOK, StoreTypeOK
    <3> QED
      BY <2>6, <3>1, <3>2
  <2> QED
    BY <2>3, <2>5, <2>6
<1>8. ASSUME NEW stem \in Stems, ImportTicket(stem) PROVE AddedIsAccounted'
  BY <1>1, <1>8 DEF ImportTicket, history
<1>9. CASE TicketsRefused \/ TicketsDone \/ SetMeta \/ MetaRefused \/ PushRecord \/ RecordFails
  BY <1>1, <1>9 DEF TicketsRefused, TicketsDone, SetMeta, MetaRefused, PushRecord, RecordFails,
                    FinishFails, store, history
<1>10. CASE CommitMeta \/ CommitFails
  <2>1. stray'.content = stray.content /\ stray'.placeholders = stray.placeholders
    BY <1>10 DEF CommitMeta, CommitFails, TypeOK, HistoryTypeOK
  <2>2. UNCHANGED <<content, placeholders, entry_placeholder_open_, active_content_id_,
                    newly_registered_, before, outcome>>
    BY <1>10 DEF CommitMeta, CommitFails, FinishFails, store
  <2> QED
    BY <2>1, <2>2
<1>11. CASE FinishSucceeds
  BY <1>11 DEF FinishSucceeds, store
<1>12. CASE Abort
  <2>1. stray'.content = stray.content
    BY <1>12 DEF Abort, DropPlaceholder, TypeOK, HistoryTypeOK
  <2>2. /\ UNCHANGED <<content, newly_registered_, before, outcome>> /\ ~entry_placeholder_open_'
        /\ \/ entry_placeholder_open_ /\ placeholders' = placeholders \ {active_content_id_}
              /\ UNCHANGED stray
           \/ entry_placeholder_open_ /\ UNCHANGED placeholders
              /\ stray'.placeholders = stray.placeholders \cup {active_content_id_}
           \/ ~entry_placeholder_open_ /\ UNCHANGED <<placeholders, stray>>
    BY <1>12 DEF Abort, DropPlaceholder, TypeOK, HistoryTypeOK
  <2> QED
    BY <2>1, <2>2
<1>13. ASSUME NEW k \in Keys, RollbackMeta(k) PROVE AddedIsAccounted'
  <2>1. stray'.content = stray.content /\ stray'.placeholders = stray.placeholders
    BY <1>13 DEF RollbackMeta, TypeOK, HistoryTypeOK
  <2>2. UNCHANGED <<content, placeholders, entry_placeholder_open_, active_content_id_,
                    newly_registered_, before, outcome>>
    BY <1>13 DEF RollbackMeta
  <2> QED
    BY <2>1, <2>2
<1>14. ASSUME NEW i \in ContentId, RollbackContent(i) PROVE AddedIsAccounted'
  <2>1. /\ stray'.placeholders = stray.placeholders
        /\ \/ content' = [content EXCEPT ![i] = Absent] /\ UNCHANGED stray
           \/ stray'.content = stray.content \cup {i} /\ UNCHANGED content
    BY <1>14 DEF RollbackContent, TypeOK, HistoryTypeOK
  <2>2. /\ newly_registered_' = newly_registered_ \ {i}
        /\ UNCHANGED <<placeholders, entry_placeholder_open_, active_content_id_, before, outcome>>
    BY <1>14 DEF RollbackContent
  <2> QED
    BY <2>1, <2>2 DEF TypeOK, StoreTypeOK
<1>15. CASE RollbackDone
  <2>1. CASE aborted_
    <3>1. /\ UNCHANGED <<content, placeholders, before, stray>>
          /\ newly_registered_ = {} /\ newly_registered_' = {} /\ ~entry_placeholder_open_'
      BY <1>15, <2>1 DEF RollbackDone, Destroyed, store
    <3>2. ~entry_placeholder_open_ /\ outcome # "ok"
      BY <1>15 DEF RollbackDone, PlaceholderInv, OutcomeInv, ControlInv
    <3> QED
      BY <3>1, <3>2
  <2>2. CASE ~aborted_
    BY <1>1, <1>15, <2>2 DEF RollbackDone, store
  <2> QED
    BY <2>1, <2>2
<1>16. CASE Close
  <2>1. ~entry_placeholder_open_ /\ outcome = "ok"
    BY <1>16 DEF Close, PlaceholderInv, OutcomeInv
  <2> QED
    BY <1>16, <2>1 DEF Close, Destroyed, store, history
<1>17. CASE Crash
  <2>1. /\ UNCHANGED <<content, placeholders, before>> /\ ~entry_placeholder_open_'
        /\ newly_registered_' = {}
        /\ stray'.placeholders = IF entry_placeholder_open_
                                 THEN stray.placeholders \cup {active_content_id_}
                                 ELSE stray.placeholders
        /\ stray'.content = IF finished_ THEN stray.content
                            ELSE stray.content \cup newly_registered_
    BY <1>17 DEF Crash, Destroyed
  <2>2. outcome' # "ok" => outcome # "ok" /\ ~finished_
    BY <1>17 DEF Crash, OutcomeInv, ControlInv
  <2> QED
    BY <2>1, <2>2
<1>18. CASE UNCHANGED vars
  BY <1>1, <1>18 DEF vars, store, history
<1> QED
  BY <1>2, <1>3, <1>4, <1>5, <1>6, <1>7, <1>8, <1>9, <1>10, <1>11, <1>12, <1>13, <1>14,
     <1>15, <1>16, <1>17, <1>18
  DEF Next, SinkStep
LEMMA EntryTyped ==
    ASSUME pkg \in Packages
    PROVE  /\ Len(Entries) \in Nat
           /\ \A n \in 1..Len(Entries) : /\ Entries[n] \in Entry /\ WellTyped(Entries[n])
                                         /\ IsNca(Entries[n]) => Entries[n].id \in ContentId
                                         /\ Entries[n].size \in Nat
<1>1. Package[pkg].entries \in Seq(Entry)
  BY PackageAssumption
<1>2. \A n \in 1..Len(Entries) : Entries[n] \in Entry /\ WellTyped(Entries[n])
  BY <1>1, PackageAssumption DEF Entries
<1> QED
  BY <1>1, <1>2 DEF Entries, Entry, WellTyped, IsNca

(* NoteCnmt loses no CNMT it has noted, and notes a .cnmt.nca. *)
LEMMA NotedKept ==
    ASSUME NEW entry, entry.kind = "cnmt" => entry.id \in CnmtId,
           cnmt_ids_ \in Seq(CnmtId), NoteCnmt(entry)
    PROVE  /\ Elements(cnmt_ids_) \subseteq Elements(cnmt_ids_')
           /\ entry.kind = "cnmt" => entry.id \in Elements(cnmt_ids_')
<1>1. CASE entry.kind # "cnmt"
  BY <1>1 DEF NoteCnmt
<1>2. CASE entry.kind = "cnmt"
  <2>1. cnmt_ids_' = Append(cnmt_ids_, entry.id)
    BY <1>2 DEF NoteCnmt
  <2>2. /\ Len(cnmt_ids_') = Len(cnmt_ids_) + 1
        /\ DOMAIN cnmt_ids_' = 1..Len(cnmt_ids_) + 1
        /\ \A n \in 1..Len(cnmt_ids_) : cnmt_ids_'[n] = cnmt_ids_[n]
        /\ cnmt_ids_'[Len(cnmt_ids_) + 1] = entry.id
        /\ Len(cnmt_ids_) \in Nat /\ DOMAIN cnmt_ids_ = 1..Len(cnmt_ids_)
    BY <1>2, <2>1
  <2>3. Elements(cnmt_ids_) \subseteq Elements(cnmt_ids_')
    <3> SUFFICES ASSUME NEW n \in 1..Len(cnmt_ids_)
                 PROVE  cnmt_ids_[n] \in Elements(cnmt_ids_')
      BY <2>2 DEF Elements
    <3>1. n \in DOMAIN cnmt_ids_' /\ cnmt_ids_'[n] = cnmt_ids_[n]
      BY <2>2
    <3> QED
      BY <3>1 DEF Elements
  <2>4. entry.id \in Elements(cnmt_ids_')
    <3>1. Len(cnmt_ids_) + 1 \in DOMAIN cnmt_ids_'
      BY <2>2
    <3> QED
      BY <2>2, <3>1 DEF Elements
  <2> QED
    BY <2>3, <2>4
<1> QED
  BY <1>1, <1>2

(* Each end of an entry registers it, or files it, before the cursor moves on, *)
(* and nothing is taken back while the transfer is healthy.                    *)
LEMMA StreamPreserved == IndInv /\ StreamInv /\ [Next]_vars => StreamInv'
<1> SUFFICES ASSUME IndInv, StreamInv, [Next]_vars PROVE StreamInv'
  OBVIOUS
<1> USE DEF StreamInv, Healthy, Installing, entryVars, sidecarVars, finishVars, flags, Fail
<1>1. ASSUME pc' # "idle", ~Healthy', UNCHANGED <<imported, importedTickets>>
      PROVE  StreamInv'
  BY <1>1
<1>2. ASSUME Receiving, UNCHANGED <<pc, pkg, current_entry_, finished_, content, cnmt_ids_,
                                    tickets_, imported, importedTickets, cnmt_index>>
      PROVE  StreamInv'
  BY <1>2 DEF Receiving, Entries, IsNca
<1>3. ASSUME NEW p \in Packages, Open(p) PROVE StreamInv'
  <2>1. current_entry_' = 1 /\ cnmt_index' = 1 /\ imported' = {}
        /\ pc' \in {"idle", "stream"} /\ ~finished_'
    BY <1>3 DEF Open, IndInv, ControlInv
  <2>2. \A n \in 1..Len(Entries') : ~(n < current_entry_')
    BY <2>1
  <2> QED
    BY <2>1, <2>2
<1>4. CASE ParseHeader \/ BeginPlainEntry \/ BeginShortNca \/ BeginExistingNca
           \/ BeginUnknownNca \/ BeginNewNca \/ ConsumeEntry \/ FinishRefused
  BY <1>4, <1>2 DEF ParseHeader, BeginPlainEntry, BeginShortNca, BeginExistingNca,
                    BeginUnknownNca, BeginNewNca, ConsumeEntry, FinishRefused,
                    AtNcaStart, AtEntryStart, AtEntryData, store
<1>5. ASSUME EndNewNca \/ EndOtherEntry PROVE StreamInv'
  <2>1. /\ Receiving /\ current_entry_ <= Len(Entries) /\ entry_started_ /\ header_parsed_
        /\ pkg \in Packages /\ current_entry_ \in Nat \ {0}
    BY <1>5 DEF EndNewNca, EndOtherEntry, AtEntryEnd, Receiving, IndInv, TypeOK, SinkTypeOK
  <2>2. CASE failed_'
    BY <1>1, <1>5, <2>1, <2>2 DEF EndNewNca, EndOtherEntry, Receiving, store
  <2>3. CASE ~failed_'
    <3>1. /\ NoteCnmt(Active) /\ current_entry_' = current_entry_ + 1
          /\ UNCHANGED <<pc, pkg, finished_, cnmt_index, imported, importedTickets>>
          /\ tickets_ \subseteq tickets_'
          /\ Active.kind = "ticket" => Active.id \in tickets_'
      BY <1>5, <2>3 DEF EndNewNca, EndOtherEntry, NextEntry, store, IsNca
    <3>2. /\ Active.kind = "cnmt" => Active.id \in CnmtId
          /\ IsNca(Active) => Active.id \in ContentId /\ Active.size \in Nat
      BY <2>1, EntryTyped DEF Active, WellTyped
    <3>3. \A i \in ContentId : content[i] # Absent => content'[i] = content[i]
      <4>1. CASE EndNewNca
        BY <4>1, RegisteredIsNew DEF EndNewNca, IndInv, TransferInv, TypeOK, StoreTypeOK
      <4>2. CASE EndOtherEntry
        BY <4>2 DEF EndOtherEntry, store
      <4> QED
        BY <1>5, <4>1, <4>2
    <3>4. IsNca(Active) => content'[Active.id] = Active.size
      <4>1. CASE EndNewNca
        BY <4>1, <2>3, <3>2 DEF EndNewNca, IndInv, TypeOK, StoreTypeOK
      <4>2. CASE EndOtherEntry
        BY <4>2, <2>1 DEF EndOtherEntry, store, IndInv, EntryInv
      <4> QED
        BY <1>5, <4>1, <4>2
    <3>5. /\ Elements(cnmt_ids_) \subseteq Elements(cnmt_ids_')
          /\ Active.kind = "cnmt" => Active.id \in Elements(cnmt_ids_')
      BY <3>1, <3>2, NotedKept DEF IndInv, TypeOK, SinkTypeOK
    <3>6. ASSUME NEW n \in 1..Len(Entries), n < current_entry_ + 1
          PROVE  /\ IsNca(Entries[n]) => content'[Entries[n].id] = Entries[n].size
                 /\ Entries[n].kind = "cnmt" => Entries[n].id \in Elements(cnmt_ids_')
                 /\ Entries[n].kind = "ticket" => Entries[n].id \in tickets_'
      <4>1. CASE n < current_entry_
        <5>1. /\ IsNca(Entries[n]) => content[Entries[n].id] = Entries[n].size
              /\ Entries[n].kind = "cnmt" => Entries[n].id \in Elements(cnmt_ids_)
              /\ Entries[n].kind = "ticket" => Entries[n].id \in tickets_
          BY <2>1, <4>1
        <5>2. /\ IsNca(Entries[n]) => Entries[n].id \in ContentId
              /\ Entries[n].size \in Nat
          BY <2>1, EntryTyped
        <5> QED
          BY <3>1, <3>3, <3>5, <5>1, <5>2 DEF Absent
      <4>2. CASE n = current_entry_
        BY <3>1, <3>4, <3>5, <4>2 DEF Active
      <4> QED
        BY <2>1, <3>6, <4>1, <4>2
    <3>7. Entries' = Entries
      BY <3>1 DEF Entries
    <3>8. \A n \in 1..Len(Entries') : n < current_entry_' =>
             /\ IsNca(Entries'[n]) => content'[Entries'[n].id] = Entries'[n].size
             /\ Entries'[n].kind = "cnmt" => Entries'[n].id \in Elements(cnmt_ids_')
             /\ Entries'[n].kind = "ticket" => Entries'[n].id \in tickets_'
      BY <3>1, <3>6, <3>7
    <3> QED
      BY <2>1, <3>1, <3>8 DEF Receiving, IsNca, Elements
  <2> QED
    BY <2>2, <2>3
<1>6. CASE FinishStarts
  BY <1>6 DEF FinishStarts, Receiving, AllConsumed, Entries, IsNca, Elements, store
<1>7. ASSUME NEW stem \in Stems, ImportTicket(stem) PROVE StreamInv'
  BY <1>7 DEF ImportTicket, Receiving, AllConsumed, Entries, IsNca, Elements
<1>8. CASE TicketsDone
  BY <1>8 DEF TicketsDone, Receiving, AllConsumed, Entries, IsNca, Elements, store
<1>9. CASE TicketsRefused \/ MetaRefused \/ CommitFails \/ RecordFails
  BY <1>9, <1>1 DEF TicketsRefused, MetaRefused, CommitFails, RecordFails, FinishFails,
                    Receiving, CnmtPending, store, IndInv, ControlInv
<1>10. CASE SetMeta \/ CommitMeta \/ PushRecord
  BY <1>10 DEF SetMeta, CommitMeta, PushRecord, CnmtPending, Receiving, AllConsumed, Entries,
               IsNca, Elements, IndInv, ControlInv
<1>11. CASE FinishSucceeds
  BY <1>11 DEF FinishSucceeds, Receiving, AllConsumed, Entries, IsNca, Elements, store
<1>12. CASE Abort
  BY <1>12, <1>1 DEF Abort, Receiving
<1>13. ASSUME NEW k \in Keys, RollbackMeta(k) PROVE StreamInv'
  BY <1>13, <1>1 DEF RollbackMeta, Receiving, IndInv, ControlInv
<1>14. ASSUME NEW i \in ContentId, RollbackContent(i) PROVE StreamInv'
  BY <1>14, <1>1 DEF RollbackContent, Undoes, Receiving, IndInv, ControlInv
<1>15. CASE RollbackDone /\ ~aborted_
  BY <1>15, <1>1 DEF RollbackDone, Receiving, IndInv, ControlInv, store
<1>16. CASE (RollbackDone /\ aborted_) \/ Close \/ Crash
  BY <1>16 DEF RollbackDone, Close, Crash, Destroyed, Receiving, IndInv, TypeOK, StoreTypeOK
<1>17. CASE UNCHANGED vars
  BY <1>17 DEF vars, store, Receiving, AllConsumed, Entries, IsNca, Elements
<1> QED
  BY <1>3, <1>4, <1>5, <1>6, <1>7, <1>8, <1>9, <1>10, <1>11, <1>12, <1>13, <1>14, <1>15,
     <1>16, <1>17
  DEF Next, SinkStep
(* finish() goes on to the next CNMT only with the key of this one committed   *)
(* and its record published, and never gives a key a CNMT of another package.  *)
LEMMA MetaPreserved == IndInv /\ StreamInv /\ MetaInv /\ [Next]_vars => MetaInv'
<1> SUFFICES ASSUME IndInv, StreamInv, MetaInv, [Next]_vars PROVE MetaInv'
  OBVIOUS
<1> USE DEF MetaInv, Installing, entryVars, finishVars, flags, Fail
<1>1. ASSUME ~Installing' PROVE MetaInv'
  BY <1>1
<1>2. CASE ParseHeader \/ BeginPlainEntry \/ BeginShortNca \/ BeginExistingNca
           \/ BeginUnknownNca \/ BeginNewNca \/ FinishRefused \/ FinishStarts
  BY <1>1, <1>2 DEF ParseHeader, BeginPlainEntry, BeginShortNca, BeginExistingNca,
                    BeginUnknownNca, BeginNewNca, FinishRefused, FinishStarts,
                    AtNcaStart, AtEntryStart, Receiving
<1>3. CASE ConsumeEntry \/ EndNewNca \/ EndOtherEntry
  BY <1>1, <1>3 DEF ConsumeEntry, EndNewNca, EndOtherEntry, AtEntryData, AtEntryEnd, Receiving
<1>4. ASSUME NEW stem \in Stems, ImportTicket(stem) PROVE MetaInv'
  BY <1>1, <1>4 DEF ImportTicket, IndInv, ControlInv
<1>5. ASSUME NEW p \in Packages, Open(p) PROVE MetaInv'
  BY <1>1, <1>5 DEF Open, IndInv, ControlInv
<1>6. CASE TicketsRefused \/ MetaRefused \/ CommitFails \/ RecordFails
  BY <1>1, <1>6 DEF TicketsRefused, MetaRefused, CommitFails, RecordFails, FinishFails,
                    CnmtPending, IndInv, ControlInv
<1>7. CASE TicketsDone
  <2>1. cnmt_index' = 1 /\ metadata_keys_' = {} /\ pc' = "cnmt" /\ ~finished_'
    BY <1>7 DEF TicketsDone, StreamInv, IndInv, ControlInv
  <2>2. \A n \in 1..Len(cnmt_ids_') : ~(n < cnmt_index')
    BY <2>1
  <2> QED
    BY <2>1, <2>2
<1>8. CASE SetMeta
  <2>1. CurrentCnmt \in CnmtId /\ CurrentKey \in Keys /\ cnmt_index \in 1..Len(cnmt_ids_)
    BY <1>8, CurrentTyped DEF SetMeta, IndInv, TypeOK
  <2>2. /\ UNCHANGED <<content, cnmt_ids_, cnmt_index, metadata_keys_, records, metaDisk>>
        /\ metaMem' = [metaMem EXCEPT ![CurrentKey] = CurrentCnmt]
        /\ pc = "cnmt" /\ pc' = "commit" /\ ~finished_'
    BY <1>8 DEF SetMeta, CnmtPending, IndInv, ControlInv
  <2>3. CurrentKey' = CurrentKey /\ CurrentCnmt' = CurrentCnmt
    BY <2>2 DEF CurrentKey, CurrentCnmt
  <2>4. metaMem'[CurrentKey] = CurrentCnmt
        /\ \A k \in Keys : k # CurrentKey => metaMem'[k] = metaMem[k]
    BY <2>1, <2>2 DEF IndInv, TypeOK, StoreTypeOK
  <2>5. CurrentCnmt \in OfKey(CurrentKey)
    BY <2>1 DEF OfKey, CurrentKey, CurrentCnmt, Elements, IndInv, TypeOK, SinkTypeOK
  <2>6. \A k \in metadata_keys_ :
           metaMem'[k] \in OfKey(k) /\ metaDisk[k] \in OfKey(k) /\ Complete(metaDisk[k])
    BY <2>2, <2>4, <2>5 DEF IndInv, TypeOK, SinkTypeOK
  <2>7. \A k \in metadata_keys_ : (metaMem[k] \in OfKey(k) /\ metaDisk[k] \in OfKey(k)
                                    /\ Complete(metaDisk[k]))'
    BY <2>2, <2>6 DEF OfKey, Elements, Complete
  <2> QED
    BY <2>2, <2>3, <2>4, <2>7
<1>9. CASE CommitMeta
  <2>1. CurrentCnmt \in CnmtId /\ CurrentKey \in Keys /\ cnmt_index \in 1..Len(cnmt_ids_)
    BY <1>9, CurrentTyped DEF CommitMeta, IndInv, TypeOK
  <2>2. /\ UNCHANGED <<content, cnmt_ids_, cnmt_index, records, metaMem>>
        /\ metaDisk' = metaMem /\ metadata_keys_' = metadata_keys_ \cup {CurrentKey}
        /\ pc = "commit" /\ pc' = "record" /\ ~finished_'
    BY <1>9 DEF CommitMeta, IndInv, ControlInv
  <2>3. CurrentKey' = CurrentKey
    BY <2>2 DEF CurrentKey, CurrentCnmt
  <2>4. metaMem[CurrentKey] \in OfKey(CurrentKey) /\ Complete(metaMem[CurrentKey])
    <3>1. Complete(metaMem[CurrentKey])
      BY <2>2 DEF IndInv, TransferInv, FinishInv
    <3>2. CurrentCnmt \in OfKey(CurrentKey)
      BY <2>1 DEF OfKey, CurrentKey, CurrentCnmt, Elements, IndInv, TypeOK, SinkTypeOK
    <3> QED
      BY <2>2, <3>1, <3>2
  <2>5. \A k \in metadata_keys_ : metaMem[k] \in OfKey(k) /\ Complete(metaMem[k])
    BY <2>2 DEF IndInv, TransferInv, FinishInv
  <2>6. \A k \in metadata_keys_' : (metaMem[k] \in OfKey(k) /\ metaDisk[k] \in OfKey(k)
                                     /\ Complete(metaDisk[k]))'
    BY <2>2, <2>4, <2>5 DEF OfKey, Elements, Complete
  <2>7. \A n \in 1..Len(cnmt_ids_') : n < cnmt_index' =>
           Cnmt[cnmt_ids_'[n]].key \in metadata_keys_' \cap records'
    BY <2>2
  <2> QED
    BY <2>2, <2>3, <2>6, <2>7
<1>10. CASE PushRecord
  <2>1. cnmt_index \in 1..Len(cnmt_ids_)
    BY <1>10, CurrentTyped DEF PushRecord, IndInv, TypeOK
  <2>2. /\ UNCHANGED <<content, cnmt_ids_, metadata_keys_, metaMem, metaDisk>>
        /\ records' = records \cup {CurrentKey} /\ cnmt_index' = cnmt_index + 1
        /\ pc = "record" /\ pc' = "cnmt" /\ ~finished_'
    BY <1>10 DEF PushRecord, IndInv, ControlInv
  <2>3. ASSUME NEW n \in 1..Len(cnmt_ids_), n < cnmt_index + 1
        PROVE  Cnmt[cnmt_ids_[n]].key \in metadata_keys_ \cap (records \cup {CurrentKey})
    <3>1. CASE n < cnmt_index
      BY <2>2, <3>1
    <3>2. CASE n = cnmt_index
      BY <2>2, <3>2 DEF CurrentKey, CurrentCnmt
    <3> QED
      BY <2>1, <2>3, <3>1, <3>2
  <2>4. \A k \in metadata_keys_ : (metaMem[k] \in OfKey(k) /\ metaDisk[k] \in OfKey(k)
                                    /\ Complete(metaDisk[k]))'
    BY <2>2 DEF OfKey, Elements, Complete
  <2> QED
    BY <2>2, <2>3, <2>4
<1>11. CASE FinishSucceeds
  <2>1. /\ UNCHANGED <<content, cnmt_ids_, metadata_keys_, metaMem, metaDisk, records, cnmt_index>>
        /\ cnmt_index > Len(cnmt_ids_)
        /\ pc = "cnmt" /\ pc' = "stream"
    BY <1>11 DEF FinishSucceeds, store
  <2> QED
    BY <2>1 DEF OfKey, Elements, Complete
<1>12. CASE Abort
  BY <1>1, <1>12 DEF Abort
<1>13. ASSUME NEW k \in Keys, RollbackMeta(k) PROVE MetaInv'
  BY <1>1, <1>13 DEF RollbackMeta, IndInv, ControlInv
<1>14. ASSUME NEW i \in ContentId, RollbackContent(i) PROVE MetaInv'
  BY <1>1, <1>14 DEF RollbackContent, Undoes, IndInv, ControlInv
<1>15. CASE RollbackDone \/ Close \/ Crash
  BY <1>1, <1>15 DEF RollbackDone, Close, Crash, Destroyed, IndInv, ControlInv
<1>16. CASE UNCHANGED vars
  BY <1>16 DEF vars, store, OfKey, Elements, Complete, CurrentKey, CurrentCnmt
<1> QED
  BY <1>2, <1>3, <1>4, <1>5, <1>6, <1>7, <1>8, <1>9, <1>10, <1>11, <1>12, <1>13, <1>14,
     <1>15, <1>16
  DEF Next, SinkStep
(* A CNMT that was complete when the transfer was opened still is. *)
LEMMA BeforeIsNow ==
    ASSUME ExistingContentKept, NEW c \in CnmtId, CompleteBefore(c)
    PROVE  Complete(c)
<1>1. c \in ContentId /\ content[c] # Absent
  BY IdsAssumption DEF CompleteBefore, ExistingContentKept
<1>2. ASSUME NEW r \in Cnmt[c].required PROVE content[r.id] = r.size
  <2>1. r.id \in ContentId /\ r.size \in Nat /\ before.content[r.id] = r.size
    BY CnmtAssumption DEF CompleteBefore
  <2> QED
    BY <2>1 DEF ExistingContentKept, Absent
<1> QED
  BY <1>1, <1>2 DEF Complete

(* Only rollback() takes content away. *)
LEMMA ContentKeptBut ==
    ASSUME IndInv, [Next]_vars, ~(\E i \in ContentId : RollbackContent(i))
    PROVE  \A i \in ContentId : content[i] # Absent => content'[i] = content[i]
<1>1. CASE EndNewNca
  BY <1>1, RegisteredIsNew DEF EndNewNca, IndInv, TransferInv, TypeOK, StoreTypeOK
<1>2. CASE UNCHANGED content
  BY <1>2
<1> QED
  BY <1>1, <1>2, ContentSteps

(* The ContentMetaDatabase moves in the loops of finish() and rollback() only. *)
LEMMA MetaSteps ==
    ASSUME TypeOK, ControlInv, [Next]_vars
    PROVE  \/ SetMeta \/ CommitMeta \/ CommitFails \/ Crash
           \/ \E k \in Keys : RollbackMeta(k)
           \/ /\ UNCHANGED <<metaMem, metaDisk>>
              /\ stray'.meta = stray.meta
              /\ pc' # "idle" /\ ~finished_' => KeysSet' = KeysSet
<1> USE DEF entryVars, finishVars, flags, store, history, Fail, ControlInv
<1> DEFINE Kept == /\ UNCHANGED <<metaMem, metaDisk>>
                   /\ stray'.meta = stray.meta
                   /\ pc' # "idle" /\ ~finished_' => KeysSet' = KeysSet
<1>1. ASSUME UNCHANGED <<metaMem, metaDisk, metadata_keys_>>, stray'.meta = stray.meta,
             pc # "commit", pc' # "commit"
      PROVE  Kept
  BY <1>1 DEF KeysSet
<1>2. CASE UNCHANGED vars
  BY <1>2 DEF vars, KeysSet, CurrentKey, CurrentCnmt
<1>3. ASSUME NEW p \in Packages, Open(p) PROVE Kept
  BY <1>1, <1>3 DEF Open
<1>4. CASE ParseHeader \/ BeginPlainEntry \/ BeginShortNca \/ BeginExistingNca
           \/ BeginUnknownNca \/ FinishRefused \/ FinishStarts
  BY <1>1, <1>4 DEF ParseHeader, BeginPlainEntry, BeginShortNca, BeginExistingNca,
                    BeginUnknownNca, FinishRefused, FinishStarts,
                    AtNcaStart, AtEntryStart, Receiving
<1>5. CASE BeginNewNca \/ ConsumeEntry \/ EndNewNca \/ EndOtherEntry
  <2>1. pc = "stream" /\ pc' = pc /\ UNCHANGED <<metaMem, metaDisk, metadata_keys_>>
    BY <1>5 DEF BeginNewNca, ConsumeEntry, EndNewNca, EndOtherEntry, AtNcaStart, AtEntryStart,
                AtEntryData, AtEntryEnd, Receiving
  <2>2. stray'.meta = stray.meta
    BY <1>5 DEF BeginNewNca, ConsumeEntry, EndNewNca, EndOtherEntry, TypeOK, HistoryTypeOK
  <2> QED
    BY <1>1, <2>1, <2>2
<1>6. ASSUME NEW stem \in Stems, ImportTicket(stem) PROVE Kept
  BY <1>1, <1>6 DEF ImportTicket
<1>7. CASE TicketsRefused \/ TicketsDone \/ MetaRefused \/ PushRecord \/ RecordFails
           \/ FinishSucceeds
  BY <1>1, <1>7 DEF TicketsRefused, TicketsDone, MetaRefused, PushRecord, RecordFails,
                    FinishSucceeds, FinishFails, CnmtPending
<1>8. CASE Abort
  <2>1. stray'.meta = stray.meta
    BY <1>8 DEF Abort, DropPlaceholder, TypeOK, HistoryTypeOK
  <2> QED
    BY <1>1, <1>8, <2>1 DEF Abort
<1>9. ASSUME NEW i \in ContentId, RollbackContent(i) PROVE Kept
  <2>1. stray'.meta = stray.meta
    BY <1>9 DEF RollbackContent, TypeOK, HistoryTypeOK
  <2> QED
    BY <1>1, <1>9, <2>1 DEF RollbackContent, Undoes
<1>10. CASE RollbackDone \/ Close
  BY <1>1, <1>10 DEF RollbackDone, Close, Destroyed
<1> QED
  BY <1>2, <1>3, <1>4, <1>5, <1>6, <1>7, <1>8, <1>9, <1>10 DEF Next, SinkStep

LEMMA BackedPreserved ==
    IndInv /\ MetaBacked /\ OthersBackedBefore /\ [Next]_vars
        => MetaBacked' /\ OthersBackedBefore'
<1> SUFFICES ASSUME IndInv, MetaBacked, OthersBackedBefore, [Next]_vars
             PROVE  MetaBacked' /\ OthersBackedBefore'
  OBVIOUS
<1> DEFINE Held(c, k) == c[k] # NoMeta => Complete(c[k])
           HeldBefore(c, k) == c[k] # NoMeta => CompleteBefore(c[k])
           Others == Keys \ (stray.meta \cup KeysSet)
<1>1. MetaBacked = \A k \in Keys \ stray.meta : Held(metaMem, k) /\ Held(metaDisk, k)
  BY DEF MetaBacked
<1>2. OthersBackedBefore = (pc # "idle" /\ ~finished_ =>
           \A k \in Others : HeldBefore(metaMem, k) /\ HeldBefore(metaDisk, k))
  BY DEF OthersBackedBefore
<1>3. metaMem \in [Keys -> Meta] /\ metaDisk \in [Keys -> Meta] /\ stray.meta \subseteq Keys
      /\ metadata_keys_ \subseteq Keys
  BY DEF IndInv, TypeOK, StoreTypeOK, SinkTypeOK, HistoryTypeOK
<1>4. ASSUME UNCHANGED content, NEW c, Complete(c) PROVE Complete(c)'
  BY <1>4 DEF Complete
<1>5. ASSUME UNCHANGED before, NEW c, CompleteBefore(c) PROVE CompleteBefore(c)'
  BY <1>5 DEF CompleteBefore
<1>6. CASE SetMeta
  <2>1. CurrentCnmt \in CnmtId /\ CurrentKey \in Keys /\ cnmt_index \in 1..Len(cnmt_ids_)
    BY <1>6, CurrentTyped DEF SetMeta, IndInv, TypeOK
  <2>2. /\ UNCHANGED <<content, before, stray, metaDisk, metadata_keys_, cnmt_ids_, cnmt_index>>
        /\ metaMem' = [metaMem EXCEPT ![CurrentKey] = CurrentCnmt]
        /\ pc = "cnmt" /\ pc' = "commit" /\ ~finished_
    BY <1>6 DEF SetMeta, CnmtPending, finishVars, history, IndInv, ControlInv
  <2>3. Complete(CurrentCnmt)
    <3>1. content[CurrentCnmt] # Absent
      BY <2>1, <2>2 DEF CurrentCnmt, IndInv, TransferInv, FinishInv
    <3> QED
      BY <1>6, <3>1 DEF SetMeta, MetaAcceptable, Complete
  <2>4. KeysSet' = KeysSet \cup {CurrentKey}
    BY <2>2 DEF KeysSet, CurrentKey, CurrentCnmt
  <2>5. /\ metaMem'[CurrentKey] = CurrentCnmt
        /\ \A k \in Keys : k # CurrentKey => metaMem'[k] = metaMem[k]
    BY <1>3, <2>1, <2>2
  <2>6. MetaBacked'
    BY <1>4, <2>2, <2>3, <2>5 DEF MetaBacked
  <2>7. OthersBackedBefore'
    BY <1>5, <2>2, <2>4, <2>5 DEF OthersBackedBefore
  <2> QED
    BY <2>6, <2>7
<1>7. CASE CommitMeta
  <2>1. CurrentKey \in Keys
    BY <1>7, CurrentTyped DEF CommitMeta, IndInv, TypeOK
  <2>2. /\ UNCHANGED <<content, before, metaMem, cnmt_ids_, cnmt_index>>
        /\ metaDisk' = metaMem /\ metadata_keys_' = metadata_keys_ \cup {CurrentKey}
        /\ stray'.meta = stray.meta \ {CurrentKey}
        /\ pc = "commit" /\ pc' = "record" /\ ~finished_
    BY <1>7 DEF CommitMeta, IndInv, ControlInv, TypeOK, HistoryTypeOK
  <2>3. Complete(metaMem[CurrentKey])
    BY <2>2 DEF IndInv, TransferInv, FinishInv
  <2>4. KeysSet = metadata_keys_ \cup {CurrentKey} /\ KeysSet' = KeysSet
    BY <2>2 DEF KeysSet, CurrentKey, CurrentCnmt
  <2>5. MetaBacked'
    BY <1>4, <2>2, <2>3 DEF MetaBacked
  <2>6. OthersBackedBefore'
    BY <1>5, <2>2, <2>4 DEF OthersBackedBefore
  <2> QED
    BY <2>5, <2>6
<1>8. CASE CommitFails
  <2>1. /\ UNCHANGED <<content, before, metaMem, metaDisk, metadata_keys_>>
        /\ stray'.meta = stray.meta \cup {CurrentKey}
        /\ pc = "commit" /\ pc' = "rollback" /\ ~finished_
    BY <1>8 DEF CommitFails, FinishFails, finishVars, store, IndInv, ControlInv, TypeOK, HistoryTypeOK
  <2>2. KeysSet = metadata_keys_ \cup {CurrentKey} /\ KeysSet' = metadata_keys_
    BY <2>1 DEF KeysSet
  <2>3. MetaBacked'
    BY <1>4, <2>1 DEF MetaBacked
  <2>4. OthersBackedBefore'
    BY <1>5, <2>1, <2>2 DEF OthersBackedBefore
  <2> QED
    BY <2>3, <2>4
<1>9. CASE Crash
  <2>1. /\ UNCHANGED <<content, metaDisk>> /\ metaMem' \in {metaMem, metaDisk}
        /\ stray'.meta = stray.meta /\ pc' = "idle"
    BY <1>9 DEF Crash
  <2>2. MetaBacked'
    BY <1>4, <2>1 DEF MetaBacked
  <2> QED
    BY <2>1, <2>2 DEF OthersBackedBefore
<1>10. ASSUME NEW k \in Keys, RollbackMeta(k) PROVE MetaBacked' /\ OthersBackedBefore'
  <2>1. /\ UNCHANGED <<content, before>> /\ pc = "rollback" /\ pc' = pc /\ ~finished_
        /\ metadata_keys_' = metadata_keys_ \ {k}
    BY <1>10 DEF RollbackMeta, IndInv, ControlInv
  <2>2. KeysSet = metadata_keys_ /\ KeysSet' = metadata_keys_ \ {k}
    BY <2>1 DEF KeysSet
  <2>3. \/ /\ stray'.meta = stray.meta
           /\ metaMem' = [metaMem EXCEPT ![k] = NoMeta] /\ metaDisk' = metaMem'
        \/ /\ stray'.meta = stray.meta \cup {k}
           /\ metaMem' = [metaMem EXCEPT ![k] = NoMeta] \/ metaMem' = metaMem
           /\ UNCHANGED metaDisk
    BY <1>10 DEF RollbackMeta, IndInv, TypeOK, HistoryTypeOK
  <2>4. \A j \in Keys \ stray'.meta :
           /\ j # k => /\ metaMem'[j] = metaMem[j]
                       /\ metaDisk'[j] = metaDisk[j] \/ metaDisk'[j] = metaMem[j]
                       /\ j \notin stray.meta
           /\ j = k => metaMem'[j] = NoMeta /\ metaDisk'[j] = NoMeta
    BY <1>3, <2>3
  <2>5. MetaBacked'
    BY <1>4, <2>1, <2>4 DEF MetaBacked
  <2>6. OthersBackedBefore'
    BY <1>5, <2>1, <2>2, <2>4 DEF OthersBackedBefore
  <2> QED
    BY <2>5, <2>6
<1>11. CASE /\ UNCHANGED <<metaMem, metaDisk>> /\ stray'.meta = stray.meta
            /\ pc' # "idle" /\ ~finished_' => KeysSet' = KeysSet
  <2>1. ExistingContentKept'
    BY ExistingPreserved
  <2>2. CASE \E i \in ContentId : RollbackContent(i)
    <3>1. UNCHANGED before /\ pc = "rollback" /\ ~finished_ /\ KeysSet = {} /\ pc' = pc /\ ~finished_'
      BY <2>2 DEF RollbackContent, Undoes, flags, KeysSet, IndInv, ControlInv
    <3>2. \A j \in Keys \ stray.meta :
             HeldBefore(metaMem, j) /\ HeldBefore(metaDisk, j)
      BY <3>1 DEF OthersBackedBefore
    <3>3. ASSUME NEW c \in CnmtId, CompleteBefore(c) PROVE CompleteBefore(c)' /\ Complete(c)'
      <4>1. CompleteBefore(c)'
        BY <1>5, <3>1, <3>3
      <4>2. c \in ContentId /\ content'[c] # Absent
        BY <2>1, <4>1, IdsAssumption DEF CompleteBefore, ExistingContentKept
      <4>3. ASSUME NEW r \in Cnmt[c].required PROVE content'[r.id] = r.size
        <5>1. r.id \in ContentId /\ r.size \in Nat /\ before'.content[r.id] = r.size
          BY <4>1, CnmtAssumption DEF CompleteBefore
        <5> QED
          BY <2>1, <5>1 DEF ExistingContentKept, Absent
      <4> QED
        BY <4>1, <4>2, <4>3 DEF Complete
    <3>4. \A j \in Keys : /\ metaMem[j] # NoMeta => metaMem[j] \in CnmtId
                          /\ metaDisk[j] # NoMeta => metaDisk[j] \in CnmtId
      BY <1>3 DEF Meta
    <3>5. MetaBacked'
      BY <1>11, <3>2, <3>3, <3>4 DEF MetaBacked
    <3>6. OthersBackedBefore'
      BY <1>11, <3>1, <3>2, <3>3, <3>4 DEF OthersBackedBefore
    <3> QED
      BY <3>5, <3>6
  <2>3. CASE ~(\E i \in ContentId : RollbackContent(i))
    <3>1. \A i \in ContentId : content[i] # Absent => content'[i] = content[i]
      BY <2>3, ContentKeptBut
    <3>2. \A j \in Keys : /\ metaMem[j] # NoMeta => metaMem[j] \in CnmtId
                          /\ metaDisk[j] # NoMeta => metaDisk[j] \in CnmtId
      BY <1>3 DEF Meta
    <3>3. ASSUME NEW c \in CnmtId, Complete(c) PROVE Complete(c)'
      BY <3>1, <3>3, CompleteKept
    <3>4. MetaBacked'
      BY <1>11, <3>2, <3>3 DEF MetaBacked
    <3>5. CASE \E p \in Packages : Open(p)
      <4>1. before'.content = content /\ UNCHANGED content
        BY <3>5 DEF Open, store
      <4>2. \A c : Complete(c) => CompleteBefore(c)'
        BY <4>1 DEF Complete, CompleteBefore
      <4> QED
        BY <1>11, <3>4, <4>2 DEF OthersBackedBefore, MetaBacked
    <3>6. CASE UNCHANGED before /\ ~(\E p \in Packages : Open(p))
      <4>1. pc' # "idle" /\ ~finished_' => pc # "idle" /\ ~finished_
        BY <3>6, ActivitySteps DEF IndInv
      <4> QED
        BY <1>5, <1>11, <3>4, <3>6, <4>1 DEF OthersBackedBefore
    <3> QED
      BY <3>5, <3>6, HistorySteps
  <2> QED
    BY <2>2, <2>3
<1> QED
  BY <1>6, <1>7, <1>8, <1>9, <1>10, <1>11, MetaSteps DEF IndInv

(* IndInv and LeftInv together are inductive. *)
THEOREM LeftInductive == Spec => []LeftInv
<1>1. IndInv /\ LeftInv /\ [Next]_vars => LeftInv'
  <2> SUFFICES ASSUME IndInv, LeftInv, [Next]_vars PROVE LeftInv'
    OBVIOUS
  <2>1. PlaceholderInv' /\ OutcomeInv' /\ AddedIsAccounted'
    BY PlaceholderPreserved, OutcomePreserved, AddedPreserved DEF IndInv, LeftInv
  <2>2. StreamInv' /\ MetaInv'
    BY StreamPreserved, MetaPreserved DEF LeftInv
  <2>3. MetaBacked' /\ OthersBackedBefore'
    BY BackedPreserved DEF LeftInv
  <2> QED
    BY <2>1, <2>2, <2>3 DEF LeftInv
<1> QED
  BY InitLeft, Inductive, <1>1, PTL DEF Spec

(* Whatever beginEntry and endEntry put into NCM, a placeholder or an NCA, is *)
(* on the lists of the sink until finish() succeeds, or was lost to a crash   *)
(* or a failed delete.                                                        *)
THEOREM AddedAccounted == Spec => []AddedIsAccounted
<1>1. LeftInv => AddedIsAccounted
  BY DEF LeftInv
<1> QED
  BY LeftInductive, <1>1, PTL

(* In no state is ContentMeta committed for a title whose NCAs are missing,   *)
(* a crash inside finish() or rollback() included, but for the keys whose     *)
(* commit or removal NCM refused.                                             *)
THEOREM CommittedIsBacked == Spec => []CommittedMetaBacked
<1>1. LeftInv => CommittedMetaBacked
  BY DEF LeftInv, MetaBacked, CommittedMetaBacked
<1> QED
  BY LeftInductive, <1>1, PTL

(* When finish() has returned true, the package it was given is installed    *)
(* whole: NCAs, committed and complete ContentMeta, records and tickets.     *)
THEOREM FinishIsComplete == Spec => []FinishedInstallComplete
<1>1. IndInv /\ LeftInv => FinishedInstallComplete
  <2> SUFFICES ASSUME IndInv, LeftInv, finished_ PROVE FinishedInstallComplete
    BY DEF FinishedInstallComplete
  <2>1. pc = "stream" /\ pkg \in Packages /\ Installing /\ Healthy
    BY DEF IndInv, ControlInv, TypeOK, SinkTypeOK, Installing, Healthy
  <2>2. \A n \in 1..Len(Entries) : n < current_entry_
    BY <2>1, EntryTyped DEF LeftInv, StreamInv, AllConsumed, IndInv, TypeOK, SinkTypeOK
  <2>3. /\ \A n \in 1..Len(Entries) :
              /\ IsNca(Entries[n]) => content[Entries[n].id] = Entries[n].size
              /\ Entries[n].kind = "cnmt" => Entries[n].id \in Elements(cnmt_ids_)
              /\ Entries[n].kind = "ticket" => Entries[n].id \in importedTickets
    BY <2>1, <2>2 DEF LeftInv, StreamInv
  <2>4. ASSUME NEW n \in 1..Len(Entries), Entries[n].kind = "cnmt"
        PROVE  LET k == Cnmt[Entries[n].id].key
               IN  /\ metaDisk[k] \in {c \in Elements(cnmt_ids_) : Cnmt[c].key = k}
                   /\ Complete(metaDisk[k])
                   /\ k \in records
    <3> DEFINE k == Cnmt[Entries[n].id].key
    <3>1. cnmt_ids_ \in Seq(CnmtId) /\ cnmt_index \in Nat
      BY DEF IndInv, TypeOK, SinkTypeOK
    <3>2. PICK m \in 1..Len(cnmt_ids_) : cnmt_ids_[m] = Entries[n].id
      BY <2>3, <2>4, <3>1 DEF Elements
    <3>3. m < cnmt_index
      BY <3>1, <3>2 DEF LeftInv, MetaInv
    <3>4. k \in metadata_keys_ \cap records
      BY <2>1, <3>2, <3>3 DEF LeftInv, MetaInv
    <3> QED
      BY <2>1, <3>4 DEF LeftInv, MetaInv, OfKey
  <2> QED
    BY <2>3, <2>4 DEF FinishedInstallComplete
<1> QED
  BY Inductive, LeftInductive, <1>1, PTL
=============================================================================

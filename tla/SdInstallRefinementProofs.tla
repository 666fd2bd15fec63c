---------------------- MODULE SdInstallRefinementProofs ----------------------
(***************************************************************************)
(* SdInstall implements TitleLibrary, for every set of packages of one     *)
(* CNMT each, as long as NCM commits and NS accepts the ApplicationRecord: *)
(* all other calls may fail, and the process may die at any moment.        *)
(***************************************************************************)
EXTENDS SdInstallRefinement, SdInstallProofs

(* A package names one title (or none, and is refused). *)
OneCnmtEach ==
    \A p \in Packages : \A m, n \in 1..Len(Package[p].entries) :
        Package[p].entries[m].kind = "cnmt" /\ Package[p].entries[n].kind = "cnmt" => m = n

CommitsHold == "MetaCommit" \notin FailingCalls /\ "PushRecord" \notin FailingCalls

(* The CNMT noted, if any, is that of the one entry behind the cursor. *)
NotedInv ==
    pc # "idle" /\ cnmt_ids_ # <<>> =>
        \E n \in 1..Len(Entries) :
            n < current_entry_ /\ Entries[n].kind = "cnmt" /\ cnmt_ids_ = <<Entries[n].id>>

(* With one CNMT, every committed key is on its way to a record. *)
CommitInv ==
    /\ stray.meta = {}
    /\ metadata_keys_ # {} =>
          finished_ \/ pc = "record" \/ (pc = "cnmt" /\ cnmt_index > Len(cnmt_ids_))

(* A published title keeps its ContentMeta, in memory and on the card. *)
RecordsInv == \A k \in records : metaMem[k] # NoMeta /\ metaDisk[k] # NoMeta

AtomicInv == NotedInv /\ CommitInv /\ RecordsInv

LEMMA InitAtomic == Init => AtomicInv
BY DEF Init, AtomicInv, NotedInv, CommitInv, RecordsInv

LEMMA NotedPreserved ==
    OneCnmtEach /\ IndInv /\ NotedInv /\ [Next]_vars => NotedInv'
<1> SUFFICES ASSUME OneCnmtEach, IndInv, NotedInv, [Next]_vars PROVE NotedInv'
  OBVIOUS
<1> USE DEF NotedInv, entryVars, finishVars, flags
<1>1. ASSUME pc # "idle", UNCHANGED <<pkg, current_entry_, cnmt_ids_>> PROVE NotedInv'
  BY <1>1 DEF Entries
<1>2. ASSUME NEW p \in Packages, Open(p) PROVE NotedInv'
  BY <1>2 DEF Open, IndInv, ControlInv
<1>3. CASE ParseHeader \/ BeginPlainEntry \/ BeginShortNca \/ BeginExistingNca
           \/ BeginUnknownNca \/ BeginNewNca \/ ConsumeEntry \/ FinishRefused \/ FinishStarts
  BY <1>1, <1>3 DEF ParseHeader, BeginPlainEntry, BeginShortNca, BeginExistingNca,
                    BeginUnknownNca, BeginNewNca, ConsumeEntry, FinishRefused, FinishStarts,
                    AtNcaStart, AtEntryStart, AtEntryData, Receiving
<1>4. ASSUME EndNewNca \/ EndOtherEntry PROVE NotedInv'
  <2>1. /\ pc # "idle" /\ pkg \in Packages /\ UNCHANGED <<pc, pkg>>
        /\ current_entry_ \in 1..Len(Entries)
    BY <1>4 DEF EndNewNca, EndOtherEntry, AtEntryEnd, Receiving, IndInv, TypeOK, SinkTypeOK
  <2>2. \/ UNCHANGED <<cnmt_ids_, current_entry_>>
        \/ NoteCnmt(Active) /\ current_entry_' = current_entry_ + 1
    BY <1>4 DEF EndNewNca, EndOtherEntry, NextEntry
  <2>3. CASE UNCHANGED cnmt_ids_ /\ current_entry_' = current_entry_ + 1
    BY <2>1, <2>3, EntryTyped DEF Entries
  <2>4. CASE /\ Active.kind = "cnmt" /\ cnmt_ids_' = Append(cnmt_ids_, Active.id)
             /\ current_entry_' = current_entry_ + 1
    <3>1. cnmt_ids_ = <<>>
      <4> SUFFICES ASSUME cnmt_ids_ # <<>> PROVE FALSE
        OBVIOUS
      <4>1. PICK n \in 1..Len(Entries) : n < current_entry_ /\ Entries[n].kind = "cnmt"
        BY <2>1
      <4> QED
        BY <2>1, <2>4, <4>1 DEF OneCnmtEach, Entries, Active
    <3>2. cnmt_ids_' = <<Entries[current_entry_].id>>
      BY <2>4, <3>1 DEF Active
    <3> QED
      BY <2>1, <2>4, <3>2 DEF Active, Entries
  <2> QED
    BY <1>1, <2>1, <2>2, <2>3, <2>4 DEF NoteCnmt
<1>5. ASSUME NEW stem \in Stems, ImportTicket(stem) PROVE NotedInv'
  BY <1>1, <1>5 DEF ImportTicket
<1>6. CASE TicketsRefused \/ MetaRefused \/ CommitFails \/ RecordFails
  BY <1>1, <1>6 DEF TicketsRefused, MetaRefused, CommitFails, RecordFails, FinishFails, CnmtPending
<1>7. CASE TicketsDone \/ SetMeta \/ CommitMeta \/ PushRecord \/ FinishSucceeds
  BY <1>1, <1>7 DEF TicketsDone, SetMeta, CommitMeta, PushRecord, FinishSucceeds, CnmtPending
<1>8. CASE Abort
  BY <1>1, <1>8 DEF Abort
<1>9. ASSUME NEW k \in Keys, RollbackMeta(k) PROVE NotedInv'
  BY <1>1, <1>9 DEF RollbackMeta
<1>10. ASSUME NEW i \in ContentId, RollbackContent(i) PROVE NotedInv'
  BY <1>1, <1>10 DEF RollbackContent, Undoes
<1>11. CASE RollbackDone /\ ~aborted_
  BY <1>1, <1>11 DEF RollbackDone
<1>12. CASE (RollbackDone /\ aborted_) \/ Close \/ Crash
  BY <1>12 DEF RollbackDone, Close, Crash
<1>13. CASE UNCHANGED vars
  BY <1>13 DEF vars, Entries
<1> QED
  BY <1>2, <1>3, <1>4, <1>5, <1>6, <1>7, <1>8, <1>9, <1>10, <1>11, <1>12, <1>13 DEF Next, SinkStep

(* cnmt_index walks over at most one CNMT. *)
LEMMA OneNoted ==
    ASSUME NotedInv, pc # "idle"
    PROVE  Len(cnmt_ids_) <= 1
<1>1. CASE cnmt_ids_ = <<>>
  BY <1>1
<1>2. CASE cnmt_ids_ # <<>>
  <2>1. PICK n \in 1..Len(Entries) : cnmt_ids_ = <<Entries[n].id>>
    BY <1>2 DEF NotedInv
  <2> QED
    BY <2>1
<1> QED
  BY <1>1, <1>2

(* No key is ever stranded: rollback() finds nothing committed. *)
LEMMA CommitPreserved ==
    CommitsHold /\ IndInv /\ NotedInv /\ CommitInv /\ [Next]_vars => CommitInv'
<1> SUFFICES ASSUME CommitsHold, IndInv, NotedInv, CommitInv, [Next]_vars PROVE CommitInv'
  OBVIOUS
<1> USE DEF CommitInv, entryVars, finishVars, flags, history, Fail
<1>1. ASSUME metadata_keys_' = {}, stray'.meta = stray.meta PROVE CommitInv'
  BY <1>1
<1>2. CASE CommitMeta
  BY <1>2 DEF CommitMeta, IndInv, TypeOK, HistoryTypeOK
<1>3. CASE PushRecord
  <2>1. pc # "idle" /\ Len(cnmt_ids_) \in Nat /\ cnmt_index \in Nat \ {0}
    BY <1>3 DEF PushRecord, IndInv, TypeOK, SinkTypeOK
  <2>2. cnmt_index + 1 > Len(cnmt_ids_)
    BY <2>1, OneNoted
  <2> QED
    BY <1>3, <2>2 DEF PushRecord
<1>4. CASE FinishSucceeds
  BY <1>4 DEF FinishSucceeds
<1>5. CASE CommitFails \/ RecordFails
  BY <1>5 DEF CommitFails, RecordFails, MayFail, CommitsHold
<1>6. ASSUME NEW k \in Keys, RollbackMeta(k) PROVE CommitInv'
  BY <1>6 DEF RollbackMeta, IndInv, ControlInv
<1>7. CASE SetMeta \/ MetaRefused
  <2>1. cnmt_index <= Len(cnmt_ids_) /\ pc = "cnmt" /\ ~finished_
    BY <1>7 DEF SetMeta, MetaRefused, CnmtPending, IndInv, ControlInv
  <2>2. metadata_keys_ = {}
    BY <2>1 DEF IndInv, TypeOK, SinkTypeOK
  <2> QED
    BY <1>7, <2>2 DEF SetMeta, MetaRefused, FinishFails
<1>8. CASE TicketsDone \/ TicketsRefused
  BY <1>8 DEF TicketsDone, TicketsRefused, FinishFails, IndInv, ControlInv
<1>9. CASE ParseHeader \/ BeginPlainEntry \/ BeginShortNca \/ BeginExistingNca
           \/ BeginUnknownNca \/ FinishRefused \/ FinishStarts
  BY <1>9 DEF ParseHeader, BeginPlainEntry, BeginShortNca, BeginExistingNca, BeginUnknownNca,
              FinishRefused, FinishStarts, AtNcaStart, AtEntryStart, Receiving, IndInv, ControlInv
<1>10. CASE BeginNewNca \/ ConsumeEntry \/ EndNewNca \/ EndOtherEntry
  <2>1. stray'.meta = stray.meta
    BY <1>10 DEF BeginNewNca, ConsumeEntry, EndNewNca, EndOtherEntry, IndInv, TypeOK, HistoryTypeOK
  <2>2. UNCHANGED metadata_keys_ /\ Receiving
    BY <1>10 DEF BeginNewNca, ConsumeEntry, EndNewNca, EndOtherEntry, AtNcaStart, AtEntryStart,
                 AtEntryData, AtEntryEnd
  <2>3. metadata_keys_ = {}
    BY <2>2 DEF Receiving, IndInv, ControlInv
  <2> QED
    BY <2>1, <2>2, <2>3
<1>11. ASSUME NEW stem \in Stems, ImportTicket(stem) PROVE CommitInv'
  BY <1>11 DEF ImportTicket
<1>12. CASE Abort
  <2>1. stray'.meta = stray.meta
    BY <1>12 DEF Abort, DropPlaceholder, IndInv, TypeOK, HistoryTypeOK
  <2> QED
    BY <1>12, <2>1 DEF Abort, IndInv, ControlInv
<1>13. ASSUME NEW i \in ContentId, RollbackContent(i) PROVE CommitInv'
  <2>1. stray'.meta = stray.meta
    BY <1>13 DEF RollbackContent, IndInv, TypeOK, HistoryTypeOK
  <2> QED
    BY <1>13, <2>1 DEF RollbackContent, Undoes
<1>14. CASE RollbackDone \/ Close \/ Crash
  BY <1>1, <1>14 DEF RollbackDone, Close, Crash, Destroyed
<1>15. ASSUME NEW p \in Packages, Open(p) PROVE CommitInv'
  BY <1>15 DEF Open, IndInv, ControlInv
<1>16. CASE UNCHANGED vars
  BY <1>16 DEF vars
<1> QED
  BY <1>2, <1>3, <1>4, <1>5, <1>6, <1>7, <1>8, <1>9, <1>10, <1>11, <1>12, <1>13, <1>14,
     <1>15, <1>16
  DEF Next, SinkStep
(* A published title's ContentMeta is only ever replaced by another. *)
LEMMA RecordsPreserved ==
    CommitsHold /\ IndInv /\ MetaInv /\ CommitInv /\ RecordsInv /\ [Next]_vars => RecordsInv'
<1> SUFFICES ASSUME CommitsHold, IndInv, MetaInv, CommitInv, RecordsInv, [Next]_vars
             PROVE  RecordsInv'
  OBVIOUS
<1> USE DEF RecordsInv
<1>1. CASE PushRecord
  <2>1. /\ UNCHANGED <<metaMem, metaDisk>> /\ records' = records \cup {CurrentKey}
        /\ pc = "record" /\ CurrentKey \in metadata_keys_ /\ Installing
    BY <1>1 DEF PushRecord, MetaInv, Installing
  <2>2. metaMem[CurrentKey] \in CnmtId /\ metaDisk[CurrentKey] \in CnmtId
    BY <2>1 DEF MetaInv, OfKey, Elements, IndInv, TypeOK, SinkTypeOK
  <2>3. NoMeta \notin CnmtId
    BY IdsAssumption
  <2> QED
    BY <2>1, <2>2, <2>3
<1>2. CASE SetMeta
  <2>1. CurrentCnmt \in CnmtId /\ CurrentKey \in Keys
    BY <1>2, CurrentTyped DEF SetMeta, IndInv, TypeOK
  <2>2. /\ metaMem' = [metaMem EXCEPT ![CurrentKey] = CurrentCnmt]
        /\ UNCHANGED <<metaDisk, records>>
    BY <1>2 DEF SetMeta
  <2>3. CurrentCnmt # NoMeta
    BY <2>1, IdsAssumption
  <2> QED
    BY <2>1, <2>2, <2>3 DEF IndInv, TypeOK, StoreTypeOK
<1>3. CASE CommitMeta
  BY <1>3 DEF CommitMeta
<1>4. CASE CommitFails
  BY <1>4 DEF CommitFails, MayFail, CommitsHold
<1>5. CASE Crash
  BY <1>5 DEF Crash
<1>6. ASSUME NEW k \in Keys, RollbackMeta(k) PROVE RecordsInv'
  BY <1>6 DEF RollbackMeta, CommitInv, IndInv, ControlInv
<1>7. CASE UNCHANGED <<metaMem, metaDisk, records>>
  BY <1>7
<1>8. UNCHANGED records \/ PushRecord
  <2> USE DEF store
  <2>1. ASSUME NEW p \in Packages, Open(p) PROVE UNCHANGED records
    BY <2>1 DEF Open
  <2>2. ASSUME NEW stem \in Stems, ImportTicket(stem) PROVE UNCHANGED records
    BY <2>2 DEF ImportTicket
  <2>3. ASSUME NEW k \in Keys, RollbackMeta(k) PROVE UNCHANGED records
    BY <2>3 DEF RollbackMeta
  <2>4. ASSUME NEW i \in ContentId, RollbackContent(i) PROVE UNCHANGED records
    BY <2>4 DEF RollbackContent
  <2>5. CASE ParseHeader \/ BeginPlainEntry \/ BeginShortNca \/ BeginExistingNca
             \/ BeginUnknownNca \/ BeginNewNca \/ ConsumeEntry \/ EndNewNca \/ EndOtherEntry
    BY <2>5 DEF ParseHeader, BeginPlainEntry, BeginShortNca, BeginExistingNca,
                BeginUnknownNca, BeginNewNca, ConsumeEntry, EndNewNca, EndOtherEntry
  <2>6. CASE FinishRefused \/ FinishStarts \/ TicketsRefused \/ TicketsDone \/ SetMeta
             \/ MetaRefused \/ CommitMeta \/ CommitFails \/ RecordFails \/ FinishSucceeds
    BY <2>6 DEF FinishRefused, FinishStarts, TicketsRefused, TicketsDone, SetMeta,
                MetaRefused, CommitMeta, CommitFails, RecordFails, FinishSucceeds
  <2>7. CASE Abort \/ RollbackDone \/ Close \/ Crash
    BY <2>7 DEF Abort, RollbackDone, Close, Crash
  <2>8. CASE UNCHANGED vars
    BY <2>8 DEF vars
  <2> QED
    BY <2>1, <2>2, <2>3, <2>4, <2>5, <2>6, <2>7, <2>8 DEF Next, SinkStep
<1> QED
  BY <1>1, <1>2, <1>3, <1>4, <1>5, <1>6, <1>7, <1>8, MetaSteps DEF IndInv

(* Under the premises a title can be started exactly when NS has its record. *)
LEMMA StartableIsPublished ==
    ASSUME TypeOK, MetaBacked, CommitInv, RecordsInv
    PROVE  Startable = records
BY DEF Startable, MetaBacked, CommitInv, RecordsInv, TypeOK, StoreTypeOK

(* What the user and the sender can see moves in these steps only. *)
LEMMA VisibleSteps ==
    ASSUME [Next]_vars
    PROVE  \/ PushRecord \/ FinishSucceeds \/ RollbackDone \/ Crash
           \/ \E p \in Packages : Open(p)
           \/ UNCHANGED <<records, pkg, outcome>>
<1> USE DEF store, history
<1>1. ASSUME NEW stem \in Stems, ImportTicket(stem) PROVE UNCHANGED <<records, pkg, outcome>>
  BY <1>1 DEF ImportTicket
<1>2. ASSUME NEW k \in Keys, RollbackMeta(k) PROVE UNCHANGED <<records, pkg, outcome>>
  BY <1>2 DEF RollbackMeta
<1>3. ASSUME NEW i \in ContentId, RollbackContent(i) PROVE UNCHANGED <<records, pkg, outcome>>
  BY <1>3 DEF RollbackContent
<1>4. CASE ParseHeader \/ BeginPlainEntry \/ BeginShortNca \/ BeginExistingNca
           \/ BeginUnknownNca \/ BeginNewNca \/ ConsumeEntry \/ EndNewNca \/ EndOtherEntry
  BY <1>4 DEF ParseHeader, BeginPlainEntry, BeginShortNca, BeginExistingNca,
              BeginUnknownNca, BeginNewNca, ConsumeEntry, EndNewNca, EndOtherEntry
<1>5. CASE FinishRefused \/ FinishStarts \/ TicketsRefused \/ TicketsDone \/ SetMeta
           \/ MetaRefused \/ CommitMeta \/ CommitFails \/ RecordFails
  BY <1>5 DEF FinishRefused, FinishStarts, TicketsRefused, TicketsDone, SetMeta,
              MetaRefused, CommitMeta, CommitFails, RecordFails, FinishFails
<1>6. CASE Abort \/ Close
  BY <1>6 DEF Abort, Close
<1>7. CASE UNCHANGED vars
  BY <1>7 DEF vars
<1> QED
  BY <1>1, <1>2, <1>3, <1>4, <1>5, <1>6, <1>7 DEF Next, SinkStep

(* The titles of the package under way, once its CNMT is noted. *)
LEMMA TitlesNoted ==
    ASSUME OneCnmtEach, NotedInv, IndInv, pc # "idle", cnmt_ids_ # <<>>
    PROVE  KeysOf(pkg) = {Cnmt[cnmt_ids_[1]].key}
<1>1. PICK n \in 1..Len(Entries) : Entries[n].kind = "cnmt" /\ cnmt_ids_ = <<Entries[n].id>>
  BY DEF NotedInv
<1>2. pkg \in Packages
  BY DEF IndInv, TypeOK, SinkTypeOK
<1>3. {m \in 1..Len(Entries) : Entries[m].kind = "cnmt"} = {n}
  BY <1>1, <1>2 DEF OneCnmtEach, Entries
<1>4. KeysOf(pkg) = {Cnmt[Entries[m].id].key : m \in {j \in 1..Len(Entries) : Entries[j].kind = "cnmt"}}
  BY DEF KeysOf, Entries
<1>5. KeysOf(pkg) = {Cnmt[Entries[n].id].key}
  BY <1>3, <1>4
<1> QED
  BY <1>1, <1>5

-----------------------------------------------------------------------------
(* Each step of a transfer is a step of the abstract library, or none. *)
LEMMA LibraryStep ==
    ASSUME OneCnmtEach, CommitsHold, IndInv, LeftInv, AtomicInv, IndInv', LeftInv', AtomicInv',
           [Next]_vars
    PROVE  [Library!Next]_(Library!vars)
<1> USE DEF Library!vars, flags
<1>1. Startable = records /\ Startable' = records'
  <2>1. Startable = records
    BY StartableIsPublished DEF IndInv, LeftInv, AtomicInv
  <2>2. Startable' = records'
    <3>1. TypeOK' /\ MetaBacked' /\ CommitInv' /\ RecordsInv'
      BY DEF IndInv, LeftInv, AtomicInv
    <3> QED
      BY <3>1 DEF Startable, MetaBacked, CommitInv, RecordsInv, TypeOK, StoreTypeOK
  <2> QED
    BY <2>1, <2>2
<1>2. ASSUME NEW p \in Packages, Open(p) PROVE Library!Begin(p)
  <2>1. outcome # "receiving"
    BY <1>2 DEF Open, LeftInv, OutcomeInv
  <2>2. UNCHANGED records /\ pkg' = p /\ outcome' \in {"receiving", "failed"}
    BY <1>2 DEF Open, store
  <2> QED
    BY <1>1, <2>1, <2>2 DEF Library!Begin
<1>3. CASE PushRecord
  <2>1. /\ pc = "record" /\ ~finished_ /\ UNCHANGED <<pkg, outcome>>
        /\ records' = records \cup {CurrentKey}
    BY <1>3 DEF PushRecord, history, IndInv, ControlInv
  <2>2. outcome = "receiving"
    BY <2>1 DEF LeftInv, OutcomeInv
  <2>3. cnmt_index = 1 /\ cnmt_ids_ # <<>>
    <3>1. cnmt_index \in 1..Len(cnmt_ids_) /\ Len(cnmt_ids_) \in Nat
      BY <1>3, CurrentTyped DEF PushRecord, IndInv, TypeOK, SinkTypeOK
    <3>2. Len(cnmt_ids_) <= 1
      BY <2>1, OneNoted DEF AtomicInv
    <3> QED
      BY <3>1, <3>2
  <2>4. KeysOf(pkg) = {CurrentKey}
    BY <2>1, <2>3, TitlesNoted DEF AtomicInv, CurrentKey, CurrentCnmt
  <2>5. Library!Install
    BY <1>1, <2>1, <2>2, <2>4 DEF Library!Install
  <2> QED
    BY <2>5 DEF Library!Next
<1>4. CASE FinishSucceeds
  <2>1. /\ pc = "cnmt" /\ ~finished_ /\ cnmt_index > Len(cnmt_ids_)
        /\ UNCHANGED <<pkg, records>> /\ outcome' = "ok" /\ Installing
    BY <1>4 DEF FinishSucceeds, store, IndInv, ControlInv, Installing
  <2>2. outcome = "receiving"
    BY <2>1 DEF LeftInv, OutcomeInv
  <2>3. KeysOf(pkg) \subseteq records
    <3>1. \A n \in 1..Len(Entries) :
             Entries[n].kind = "cnmt" => Entries[n].id \in Elements(cnmt_ids_)
      <4>1. pkg \in Packages /\ current_entry_ \in Nat
        BY <2>1 DEF IndInv, TypeOK, SinkTypeOK
      <4>2. \A n \in 1..Len(Entries) : n < current_entry_
        BY <2>1, <4>1, EntryTyped DEF LeftInv, StreamInv, AllConsumed
      <4> QED
        BY <2>1, <4>2 DEF LeftInv, StreamInv, Healthy
    <3>2. \A c \in Elements(cnmt_ids_) : Cnmt[c].key \in records
      <4>1. cnmt_ids_ \in Seq(CnmtId) /\ cnmt_index \in Nat
        BY DEF IndInv, TypeOK, SinkTypeOK
      <4>2. \A m \in 1..Len(cnmt_ids_) : m < cnmt_index
        BY <2>1, <4>1
      <4> QED
        BY <2>1, <4>1, <4>2 DEF LeftInv, MetaInv, Elements
    <3> QED
      BY <3>1, <3>2 DEF KeysOf, Entries
  <2>4. Library!Report
    BY <1>1, <2>1, <2>2, <2>3 DEF Library!Report
  <2> QED
    BY <2>4 DEF Library!Next
<1>5. CASE RollbackDone
  <2>1. CASE aborted_
    <3>1. pc = "rollback" /\ ~finished_ /\ UNCHANGED <<pkg, records>> /\ outcome' = "failed"
      BY <1>5, <2>1 DEF RollbackDone, store, IndInv, ControlInv
    <3>2. Library!GiveUp
      BY <1>1, <3>1 DEF Library!GiveUp, LeftInv, OutcomeInv
    <3> QED
      BY <3>2 DEF Library!Next
  <2>2. CASE ~aborted_
    BY <1>1, <1>5, <2>2 DEF RollbackDone, store
  <2> QED
    BY <2>1, <2>2
<1>6. CASE Crash
  <2>1. UNCHANGED <<pkg, records>>
    BY <1>6 DEF Crash
  <2>2. CASE pc = "idle" \/ finished_
    BY <1>1, <1>6, <2>1, <2>2 DEF Crash
  <2>3. CASE pc # "idle" /\ ~finished_
    <3>1. Library!GiveUp
      BY <1>1, <1>6, <2>1, <2>3 DEF Crash, Library!GiveUp, LeftInv, OutcomeInv
    <3> QED
      BY <3>1 DEF Library!Next
  <2> QED
    BY <2>2, <2>3
<1>7. CASE UNCHANGED <<records, pkg, outcome>>
  BY <1>1, <1>7
<1> QED
  BY <1>2, <1>3, <1>4, <1>5, <1>6, <1>7, VisibleSteps DEF Library!Next

(* Installing a package of one CNMT is atomic: no state inside the stream,   *)
(* finish() or rollback(), and no crash, shows a title half installed or     *)
(* takes one away, and finish() returns true only for a title that can be    *)
(* started.  MaxCnmt, the packages and the other failing calls are free.     *)
THEOREM AtomicInstall ==
    ASSUME OneCnmtEach, CommitsHold
    PROVE  Spec => InstallIsAtomic
<1>1. Init => Library!Init
  BY DEF Init, Library!Init, Startable
<1>2. IndInv /\ LeftInv /\ AtomicInv /\ [Next]_vars => AtomicInv'
  BY NotedPreserved, CommitPreserved, RecordsPreserved DEF AtomicInv, LeftInv
<1>3. Spec => []AtomicInv
  BY InitAtomic, Inductive, LeftInductive, <1>2, PTL DEF Spec
<1>4. IndInv /\ LeftInv /\ AtomicInv /\ IndInv' /\ LeftInv' /\ AtomicInv' /\ [Next]_vars
        => [Library!Next]_(Library!vars)
  BY LibraryStep
<1> QED
  BY <1>1, <1>3, <1>4, Inductive, LeftInductive, PTL DEF Spec, InstallIsAtomic, Library!Spec
=============================================================================

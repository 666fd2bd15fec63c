------------------------------ MODULE SdInstall ------------------------------
(***************************************************************************)
(* The package receiver behind the storage "5: SD Card install"            *)
(* (switch_app/source/adapters/sd_install_receiver.cpp): one NSP or XCI    *)
(* arrives as a stream, its NCAs go straight into NCM placeholders, each   *)
(* is registered when its last byte is written, and finish() then imports  *)
(* tickets, writes ContentMeta and publishes ApplicationRecords.  Nothing  *)
(* of this is transactional: the class undoes by hand what it recorded.    *)
(*                                                                         *)
(* A step is one service call of the class (or one piece of the write()    *)
(* loop), so that a crash can fall between any two of them.  Bytes are     *)
(* blocks; gaps between entries and the padding after the last one are     *)
(* entries of kind "other", which the class consumes without effect.       *)
(***************************************************************************)
EXTENDS Integers, Sequences, FiniteSets

CONSTANTS
    ContentId,     \* NCA content ids
    CnmtId,        \* those of them that name a .cnmt.nca
    Keys,          \* NcmContentMetaKey values: title id, version, type
    Stems,         \* names of tickets and certificates without extension
    Packages,      \* the packages a PC may send
    Package,       \* [Packages -> [type, fits, entries]]
    Cnmt,          \* [CnmtId -> [key, supported, required]]
    NoMeta,        \* "no such key" in a ContentMetaDatabase
    NoPackage,     \* "no transfer yet"
    NcaHeaderSize, \* kNcaHeaderSize, in blocks
    MaxSidecar,    \* kMaxSidecarSize, in blocks
    MaxCnmt,       \* the limit of 32 CNMTs that finish() enforces
    FailingCalls,  \* the service calls that may return an error
    CanCrash       \* whether the process or the console may die

ServiceCalls ==
    {"Initialize", "Has", "GetSize", "DeletePlaceHolder", "CreatePlaceHolder",
     "WritePlaceHolder", "Register", "ImportTicket", "ReadCnmt", "MetaSet",
     "MetaCommit", "PushRecord", "MetaRemove", "RollbackCommit", "DeleteContent"}

Entry ==
    [kind: {"nca", "cnmt", "ticket", "certificate", "other"},
     id: ContentId \cup Stems, size: Nat, magic: BOOLEAN]

WellTyped(entry) ==
    /\ entry.kind \in {"nca", "cnmt"} => entry.id \in ContentId
    /\ entry.kind = "cnmt" => entry.id \in CnmtId
    /\ entry.kind \in {"ticket", "certificate"} => entry.id \in Stems

ASSUME IdsAssumption ==
    /\ CnmtId \subseteq ContentId
    /\ NoMeta \notin ContentId
    /\ NoPackage \notin Packages

ASSUME PackageAssumption ==
    /\ Package \in [Packages -> [type: {"nsp", "xci"}, fits: BOOLEAN, entries: Seq(Entry)]]
    /\ \A p \in Packages : \A n \in 1..Len(Package[p].entries) :
          WellTyped(Package[p].entries[n])

ASSUME CnmtAssumption ==
    Cnmt \in [CnmtId -> [key: Keys, supported: BOOLEAN,
                         required: SUBSET [id: ContentId, size: Nat]]]

ASSUME BoundsAssumption ==
    /\ NcaHeaderSize \in Nat
    /\ MaxSidecar \in Nat
    /\ MaxCnmt \in Nat
    /\ FailingCalls \subseteq ServiceCalls
    /\ CanCrash \in BOOLEAN

VARIABLES
    (* What NCM, NS and ES keep: it survives the process. *)
    content,       \* registered NCAs: content id -> size, or Absent
    placeholders,  \* content ids whose placeholder exists
    metaMem,       \* the ContentMetaDatabase as NCM answers from it
    metaDisk,      \* the ContentMetaDatabase as last committed
    records,       \* keys whose ApplicationRecord was published
    importedTickets,
    (* The SdPackageInstallSink of the transfer, named as in the class. *)
    pc, pkg,
    header_parsed_, current_entry_, entry_started_, offset,
    entry_placeholder_open_, active_content_id_, skip_active_nca_,
    tickets_, certificates_, imported,
    cnmt_ids_, cnmt_index, metadata_keys_, newly_registered_,
    failed_, finished_, aborted_,
    (* History, read by no action. *)
    outcome,       \* how the last transfer ended, as its caller saw it
    before,        \* the content, metaMem and records when it was opened
    settled,       \* the CNMT each key had when finish() last returned true
    stray          \* leftovers no sink will undo: [content, placeholders, meta]

store == <<content, placeholders, metaMem, metaDisk, records, importedTickets>>
entryVars == <<header_parsed_, current_entry_, entry_started_, offset,
               entry_placeholder_open_, active_content_id_, skip_active_nca_>>
sidecarVars == <<tickets_, certificates_>>
finishVars == <<imported, cnmt_index, metadata_keys_>>
flags == <<failed_, finished_, aborted_>>
history == <<outcome, before, settled, stray>>
vars == <<store, pc, pkg, entryVars, sidecarVars, finishVars, cnmt_ids_,
          newly_registered_, flags, history>>

Absent == -1
Meta == CnmtId \cup {NoMeta}
NoKeys == [k \in Keys |-> NoMeta]
NoContent == [i \in ContentId |-> Absent]

-----------------------------------------------------------------------------
(* Helpers. *)

Entries == Package[pkg].entries
Active == Entries[current_entry_]
IsNca(entry) == entry.kind \in {"nca", "cnmt"}
IsGamecardNca(entry) == Package[pkg].type = "xci" /\ entry.kind = "nca"
MayFail(call) == call \in FailingCalls
(* Mutant of AllConsumed: finish() forgets to compare current_entry_. *)
HeaderSuffices == header_parsed_

AllConsumed == header_parsed_ /\ current_entry_ > Len(Entries)
Elements(seq) == {seq[n] : n \in DOMAIN seq}

(* parseNspHeader and findSecurePartition + parseXciSecureHeader: unique     *)
(* names, unique content ids, bounded sidecars (NSP only), and a layout that *)
(* fits the size announced by MTP.                                           *)
HeaderAccepted(p) ==
    LET entries == Package[p].entries
        Pairs == {m \in (1..Len(entries)) \X (1..Len(entries)) : m[1] < m[2]}
    IN  /\ Package[p].fits
        /\ \A m \in Pairs :
              LET first == entries[m[1]]
                  second == entries[m[2]]
              IN  /\ first.kind # "other" =>
                        <<first.kind, first.id>> # <<second.kind, second.id>>
                  /\ IsNca(first) /\ IsNca(second) => first.id # second.id
        /\ Package[p].type = "nsp" =>
              \A n \in 1..Len(entries) :
                 entries[n].kind \in {"ticket", "certificate"} => entries[n].size <= MaxSidecar

(* A CNMT whose own NCA and required NCAs are all registered. *)
Complete(c) ==
    /\ content[c] # Absent
    /\ \A r \in Cnmt[c].required : content[r.id] = r.size

(* No sink exists (any more): its fields are those the constructor will set. *)
Destroyed ==
    /\ header_parsed_' = FALSE
    /\ current_entry_' = 1
    /\ entry_started_' = FALSE
    /\ offset' = 0
    /\ entry_placeholder_open_' = FALSE
    /\ active_content_id_' = NoMeta
    /\ skip_active_nca_' = FALSE
    /\ tickets_' = {}
    /\ certificates_' = {}
    /\ imported' = {}
    /\ cnmt_ids_' = <<>>
    /\ cnmt_index' = 1
    /\ metadata_keys_' = {}
    /\ newly_registered_' = {}
    /\ failed_' = FALSE
    /\ finished_' = FALSE
    /\ aborted_' = FALSE

Init ==
    /\ content = NoContent
    /\ placeholders = {}
    /\ metaMem = NoKeys
    /\ metaDisk = NoKeys
    /\ records = {}
    /\ importedTickets = {}
    /\ pc = "idle"
    /\ pkg = NoPackage
    /\ header_parsed_ = FALSE
    /\ current_entry_ = 1
    /\ entry_started_ = FALSE
    /\ offset = 0
    /\ entry_placeholder_open_ = FALSE
    /\ active_content_id_ = NoMeta
    /\ skip_active_nca_ = FALSE
    /\ tickets_ = {}
    /\ certificates_ = {}
    /\ imported = {}
    /\ cnmt_ids_ = <<>>
    /\ cnmt_index = 1
    /\ metadata_keys_ = {}
    /\ newly_registered_ = {}
    /\ failed_ = FALSE
    /\ finished_ = FALSE
    /\ aborted_ = FALSE
    /\ outcome = "none"
    /\ before = [content |-> NoContent, meta |-> NoKeys, records |-> {}]
    /\ settled = NoKeys
    /\ stray = [content |-> {}, placeholders |-> {}, meta |-> {}]

-----------------------------------------------------------------------------
(* SdInstallReceiverFactory::open and initialize().  When a service cannot   *)
(* be opened the half-built sink is destroyed and the object is refused.     *)
Open(p) ==
    /\ pc = "idle"
    /\ pkg' = p
    /\ before' = [content |-> content, meta |-> metaMem, records |-> records]
    /\ \/ pc' = "stream" /\ outcome' = "receiving"
       \/ MayFail("Initialize") /\ pc' = "idle" /\ outcome' = "failed"
    /\ UNCHANGED <<store, entryVars, sidecarVars, finishVars, cnmt_ids_,
                   newly_registered_, flags, settled, stray>>

(* fail(): the sink stays, and write() and finish() refuse from now on. *)
Fail ==
    /\ failed_' = TRUE
    /\ UNCHANGED <<finished_, aborted_>>

Receiving == pc = "stream" /\ ~failed_ /\ ~finished_

(* consumeNspHeader / consumeXciHeader reach the end of the header. *)
ParseHeader ==
    /\ Receiving
    /\ ~header_parsed_
    /\ IF HeaderAccepted(pkg)
       THEN header_parsed_' = TRUE /\ UNCHANGED flags
       ELSE header_parsed_' = FALSE /\ Fail
    /\ UNCHANGED <<store, pc, pkg, current_entry_, entry_started_, offset,
                   entry_placeholder_open_, active_content_id_, skip_active_nca_,
                   sidecarVars, finishVars, cnmt_ids_, newly_registered_, history>>

AtEntryStart ==
    Receiving /\ header_parsed_ /\ current_entry_ <= Len(Entries) /\ ~entry_started_

AtEntryData ==
    /\ Receiving /\ header_parsed_ /\ current_entry_ <= Len(Entries) /\ entry_started_
    /\ offset < Active.size

AtEntryEnd ==
    /\ Receiving /\ header_parsed_ /\ current_entry_ <= Len(Entries) /\ entry_started_
    /\ offset = Active.size

(* beginEntry for everything that is not an NCA. *)
BeginPlainEntry ==
    /\ AtEntryStart
    /\ ~IsNca(Active)
    /\ entry_started_' = TRUE
    /\ UNCHANGED <<store, pc, pkg, header_parsed_, current_entry_, offset,
                   entry_placeholder_open_, active_content_id_, skip_active_nca_,
                   sidecarVars, finishVars, cnmt_ids_, newly_registered_, flags, history>>

(* beginEntry refuses an XCI NCA without room for its header. *)
BeginShortNca ==
    /\ AtEntryStart
    /\ IsGamecardNca(Active)
    /\ Active.size < NcaHeaderSize
    /\ entry_started_' = TRUE
    /\ Fail
    /\ UNCHANGED <<store, pc, pkg, header_parsed_, current_entry_, offset,
                   entry_placeholder_open_, active_content_id_, skip_active_nca_,
                   sidecarVars, finishVars, cnmt_ids_, newly_registered_, history>>

AtNcaStart ==
    /\ AtEntryStart
    /\ IsNca(Active)
    /\ ~(IsGamecardNca(Active) /\ Active.size < NcaHeaderSize)

(* beginEntry finds the NCA registered: its data will be skipped when the    *)
(* sizes agree; otherwise, or when NCM cannot tell, the package is refused.  *)
BeginExistingNca ==
    /\ AtNcaStart
    /\ content[Active.id] # Absent
    /\ entry_started_' = TRUE
    /\ active_content_id_' = Active.id
    /\ \/ /\ content[Active.id] = Active.size
          /\ skip_active_nca_' = TRUE
          /\ UNCHANGED flags
       \/ /\ content[Active.id] # Active.size \/ MayFail("GetSize")
          /\ Fail
          /\ UNCHANGED skip_active_nca_
    /\ UNCHANGED <<store, pc, pkg, header_parsed_, current_entry_, offset,
                   entry_placeholder_open_, sidecarVars, finishVars, cnmt_ids_,
                   newly_registered_, history>>

(* ncmContentStorageHas fails. *)
BeginUnknownNca ==
    /\ AtNcaStart
    /\ MayFail("Has")
    /\ entry_started_' = TRUE
    /\ active_content_id_' = Active.id
    /\ Fail
    /\ UNCHANGED <<store, pc, pkg, header_parsed_, current_entry_, offset,
                   entry_placeholder_open_, skip_active_nca_, sidecarVars, finishVars,
                   cnmt_ids_, newly_registered_, history>>

(* beginEntry for a new NCA: a stale placeholder of the same id is deleted   *)
(* (the result is ignored), then the placeholder is created.                 *)
BeginNewNca ==
    /\ AtNcaStart
    /\ content[Active.id] = Absent
    /\ entry_started_' = TRUE
    /\ active_content_id_' = Active.id
    /\ \E cleared \in {TRUE} \cup (IF MayFail("DeletePlaceHolder") THEN {FALSE} ELSE {}) :
          LET remaining == IF cleared THEN placeholders \ {Active.id} ELSE placeholders
          IN  \/ /\ Active.id \notin remaining
                 /\ placeholders' = remaining \cup {Active.id}
                 /\ entry_placeholder_open_' = TRUE
                 /\ skip_active_nca_' = FALSE
                 /\ stray' = [stray EXCEPT !.placeholders = @ \ {Active.id}]
                 /\ UNCHANGED flags
              \/ /\ Active.id \in remaining \/ MayFail("CreatePlaceHolder")
                 /\ placeholders' = remaining
                 /\ Fail
                 /\ UNCHANGED <<entry_placeholder_open_, skip_active_nca_, stray>>
    /\ UNCHANGED <<content, metaMem, metaDisk, records, importedTickets, pc, pkg,
                   header_parsed_, current_entry_, offset, sidecarVars, finishVars,
                   cnmt_ids_, newly_registered_, outcome, before, settled>>

(* convertGamecardNcaHeader runs when the last block of an XCI NCA's header  *)
(* has arrived, and wants the NCA3 magic behind the header key.              *)
HeaderConverts(entry) ==
    IsGamecardNca(entry) /\ offset + 1 = NcaHeaderSize => entry.magic

(* consumeEntry: one block to the placeholder (or to the sidecar, or skipped). *)
ConsumeEntry ==
    /\ AtEntryData
    /\ \/ /\ IsNca(Active) /\ ~skip_active_nca_ => HeaderConverts(Active)
          /\ offset' = offset + 1
          /\ UNCHANGED flags
       \/ /\ IsNca(Active) /\ ~skip_active_nca_
          /\ ~HeaderConverts(Active) \/ MayFail("WritePlaceHolder")
          /\ Fail
          /\ UNCHANGED offset
    /\ UNCHANGED <<store, pc, pkg, header_parsed_, current_entry_, entry_started_,
                   entry_placeholder_open_, active_content_id_, skip_active_nca_,
                   sidecarVars, finishVars, cnmt_ids_, newly_registered_, history>>

NextEntry ==
    /\ current_entry_' = current_entry_ + 1
    /\ entry_started_' = FALSE
    /\ offset' = 0

(* Mutant of NoteCnmt: endEntry does not test entry.cnmt. *)
NoteEveryEntry(entry) ==
    cnmt_ids_' = Append(cnmt_ids_, entry.id)

NoteCnmt(entry) ==
    cnmt_ids_' = IF entry.kind = "cnmt" THEN Append(cnmt_ids_, entry.id) ELSE cnmt_ids_

(* Mutant of Remember: the NCA that holds the CNMT is not listed for rollback. *)
RememberDataOnly(entry) ==
    newly_registered_' = newly_registered_ \cup (IF entry.kind = "nca" THEN {entry.id} ELSE {})

Remember(entry) ==
    newly_registered_' = newly_registered_ \cup {entry.id}

(* endEntry of an NCA written to its placeholder: flush, then register. *)
EndNewNca ==
    /\ AtEntryEnd
    /\ IsNca(Active) /\ ~skip_active_nca_
    /\ \/ /\ content' = [content EXCEPT ![Active.id] = Active.size]
          /\ placeholders' = placeholders \ {Active.id}
          /\ entry_placeholder_open_' = FALSE
          /\ Remember(Active)
          /\ stray' = [stray EXCEPT !.content = @ \ {Active.id}]
          /\ NoteCnmt(Active)
          /\ NextEntry
          /\ UNCHANGED flags
       \/ /\ MayFail("Register")
          /\ Fail
          /\ UNCHANGED <<content, placeholders, entry_placeholder_open_, newly_registered_,
                         stray, cnmt_ids_, current_entry_, entry_started_, offset>>
    /\ UNCHANGED <<metaMem, metaDisk, records, importedTickets, pc, pkg, header_parsed_,
                   active_content_id_, skip_active_nca_, sidecarVars, finishVars,
                   outcome, before, settled>>

(* endEntry of a skipped NCA, of a sidecar, and of any other file. *)
EndOtherEntry ==
    /\ AtEntryEnd
    /\ ~(IsNca(Active) /\ ~skip_active_nca_)
    /\ NoteCnmt(Active)
    /\ tickets_' = IF Active.kind = "ticket" THEN tickets_ \cup {Active.id} ELSE tickets_
    /\ certificates_' = IF Active.kind = "certificate"
                        THEN certificates_ \cup {Active.id} ELSE certificates_
    /\ NextEntry
    /\ UNCHANGED <<store, pc, pkg, header_parsed_, entry_placeholder_open_,
                   active_content_id_, skip_active_nca_, finishVars, newly_registered_,
                   flags, history>>

-----------------------------------------------------------------------------
(* finish().  The server may call it at any moment; it refuses a package     *)
(* whose stream is not complete (trailing empty entries are handled by the   *)
(* entry actions above) and one without a usable number of CNMTs.            *)
FinishRefused ==
    /\ Receiving
    /\ \/ ~header_parsed_
       \/ header_parsed_ /\ current_entry_ <= Len(Entries) /\ Active.size > 0
       \/ AllConsumed /\ (cnmt_ids_ = <<>> \/ Len(cnmt_ids_) > MaxCnmt)
    /\ Fail
    /\ UNCHANGED <<store, pc, pkg, entryVars, sidecarVars, finishVars, cnmt_ids_,
                   newly_registered_, history>>

FinishStarts ==
    /\ Receiving
    /\ AllConsumed
    /\ Len(cnmt_ids_) \in 1..MaxCnmt
    /\ pc' = "tickets"
    /\ UNCHANGED <<store, pkg, entryVars, sidecarVars, finishVars, cnmt_ids_,
                   newly_registered_, flags, history>>

(* Mutant of FinishFails: an error exit stays in the loop it was in. *)
FinishRetries ==
    /\ Fail
    /\ UNCHANGED <<pc, pkg, entryVars, sidecarVars, finishVars, cnmt_ids_,
                   newly_registered_, outcome, before, settled>>

(* Every error exit of importTickets and installMetadata: rollback() runs    *)
(* and finish() returns false.                                               *)
FinishFails ==
    /\ Fail
    /\ pc' = "rollback"
    /\ UNCHANGED <<pkg, entryVars, sidecarVars, finishVars, cnmt_ids_,
                   newly_registered_, outcome, before, settled>>

(* importTickets, one ES call per ticket. *)
ImportTicket(stem) ==
    /\ pc = "tickets"
    /\ Cardinality(tickets_) = Cardinality(certificates_)
    /\ stem \in (tickets_ \cap certificates_) \ imported
    /\ importedTickets' = importedTickets \cup {stem}
    /\ imported' = imported \cup {stem}
    /\ UNCHANGED <<content, placeholders, metaMem, metaDisk, records, pc, pkg, entryVars,
                   sidecarVars, cnmt_index, metadata_keys_, cnmt_ids_,
                   newly_registered_, flags, history>>

TicketsRefused ==
    /\ pc = "tickets"
    /\ \/ Cardinality(tickets_) # Cardinality(certificates_)
       \/ \E stem \in tickets_ \ imported : stem \notin certificates_
       \/ tickets_ # imported /\ MayFail("ImportTicket")
    /\ FinishFails
    /\ UNCHANGED <<store, stray>>

TicketsDone ==
    /\ pc = "tickets"
    /\ Cardinality(tickets_) = Cardinality(certificates_)
    /\ tickets_ = imported
    /\ pc' = "cnmt"
    /\ UNCHANGED <<store, pkg, entryVars, sidecarVars, finishVars, cnmt_ids_,
                   newly_registered_, flags, history>>

CurrentCnmt == cnmt_ids_[cnmt_index]
CurrentKey == Cnmt[CurrentCnmt].key
CnmtPending == pc = "cnmt" /\ cnmt_index <= Len(cnmt_ids_)

(* Mutant of MetaAcceptable: the required NCAs are not looked up. *)
MetaTrusted(c) == Cnmt[c].supported

(* buildInstallMeta accepts: a supported type, and every required NCA        *)
(* registered with the size the CNMT declares.                               *)
MetaAcceptable(c) ==
    /\ Cnmt[c].supported
    /\ \A r \in Cnmt[c].required : content[r.id] = r.size

(* readCnmt, buildInstallMeta and ncmContentMetaDatabaseSet. *)
SetMeta ==
    /\ CnmtPending
    /\ MetaAcceptable(CurrentCnmt)
    /\ metaMem' = [metaMem EXCEPT ![CurrentKey] = CurrentCnmt]
    /\ pc' = "commit"
    /\ UNCHANGED <<content, placeholders, metaDisk, records, importedTickets, pkg, entryVars,
                   sidecarVars, finishVars, cnmt_ids_, newly_registered_, flags, history>>

MetaRefused ==
    /\ CnmtPending
    /\ ~MetaAcceptable(CurrentCnmt) \/ MayFail("ReadCnmt") \/ MayFail("MetaSet")
    /\ FinishFails
    /\ UNCHANGED <<store, stray>>

(* ncmContentMetaDatabaseCommit; the key is remembered only if it succeeds. *)
CommitMeta ==
    /\ pc = "commit"
    /\ metaDisk' = metaMem
    /\ metadata_keys_' = metadata_keys_ \cup {CurrentKey}
    /\ stray' = [stray EXCEPT !.meta = @ \ {CurrentKey}]
    /\ pc' = "record"
    /\ UNCHANGED <<content, placeholders, metaMem, records, importedTickets, pkg, entryVars,
                   sidecarVars, imported, cnmt_index, cnmt_ids_, newly_registered_,
                   flags, outcome, before, settled>>

CommitFails ==
    /\ pc = "commit"
    /\ MayFail("MetaCommit")
    /\ FinishFails
    /\ stray' = [stray EXCEPT !.meta = @ \cup {CurrentKey}]
    /\ UNCHANGED store

(* The ApplicationRecord, published through NS. *)
PushRecord ==
    /\ pc = "record"
    /\ records' = records \cup {CurrentKey}
    /\ cnmt_index' = cnmt_index + 1
    /\ pc' = "cnmt"
    /\ UNCHANGED <<content, placeholders, metaMem, metaDisk, importedTickets, pkg, entryVars,
                   sidecarVars, imported, metadata_keys_, cnmt_ids_, newly_registered_,
                   flags, history>>

RecordFails ==
    /\ pc = "record"
    /\ MayFail("PushRecord")
    /\ FinishFails
    /\ UNCHANGED <<store, stray>>

(* finish() returns true. *)
FinishSucceeds ==
    /\ pc = "cnmt"
    /\ cnmt_index > Len(cnmt_ids_)
    /\ finished_' = TRUE
    /\ pc' = "stream"
    /\ outcome' = "ok"
    /\ settled' = [k \in Keys |-> IF k \in metadata_keys_ THEN metaMem[k] ELSE settled[k]]
    /\ UNCHANGED <<store, pkg, entryVars, sidecarVars, finishVars, cnmt_ids_,
                   newly_registered_, failed_, aborted_, before, stray>>

-----------------------------------------------------------------------------
(* The open placeholder is deleted; the result is ignored. *)
DropPlaceholder ==
    \/ /\ entry_placeholder_open_
       /\ placeholders' = placeholders \ {active_content_id_}
       /\ UNCHANGED stray
    \/ /\ entry_placeholder_open_
       /\ MayFail("DeletePlaceHolder")
       /\ stray' = [stray EXCEPT !.placeholders = @ \cup {active_content_id_}]
       /\ UNCHANGED placeholders
    \/ /\ ~entry_placeholder_open_
       /\ UNCHANGED <<placeholders, stray>>

(* abort(), called by the server after any failure and by the destructor of  *)
(* a sink that did not finish: the open placeholder goes first.              *)
Abort ==
    /\ pc = "stream"
    /\ ~finished_
    /\ aborted_' = TRUE
    /\ entry_placeholder_open_' = FALSE
    /\ DropPlaceholder
    /\ pc' = "rollback"
    /\ UNCHANGED <<content, metaMem, metaDisk, records, importedTickets, pkg,
                   header_parsed_, current_entry_, entry_started_, offset,
                   active_content_id_, skip_active_nca_, sidecarVars, finishVars,
                   cnmt_ids_, newly_registered_, failed_, finished_, outcome, before, settled>>

(* rollback(), first loop: remove and commit each key this sink committed.   *)
(* All results are ignored.  (The vectors are sets here: no id or key of one *)
(* transfer needs undoing twice, and any order covers the reverse one.)      *)
RollbackMeta(k) ==
    /\ pc = "rollback"
    /\ k \in metadata_keys_
    /\ metadata_keys_' = metadata_keys_ \ {k}
    /\ LET removed == [metaMem EXCEPT ![k] = NoMeta]
           Lost == stray' = [stray EXCEPT !.meta = @ \cup {k}]
       IN  \/ metaMem' = removed /\ metaDisk' = removed /\ UNCHANGED stray
           \/ MayFail("RollbackCommit") /\ metaMem' = removed /\ UNCHANGED metaDisk /\ Lost
           \/ MayFail("MetaRemove") /\ UNCHANGED <<metaMem, metaDisk>> /\ Lost
    /\ UNCHANGED <<content, placeholders, records, importedTickets, pc, pkg, entryVars,
                   sidecarVars, imported, cnmt_index, cnmt_ids_, newly_registered_,
                   flags, outcome, before, settled>>

(* Mutants of Undoes: rollback() takes the NCAs of the package, its own or   *)
(* not; and it takes the NCAs while their ContentMeta is still there.        *)
UndoesPackage(i) ==
    /\ pc = "rollback" /\ metadata_keys_ = {}
    /\ content[i] # Absent
    /\ \E n \in 1..Len(Entries) : IsNca(Entries[n]) /\ Entries[n].id = i
UndoesEarly(i) == pc = "rollback" /\ i \in newly_registered_

Undoes(i) == pc = "rollback" /\ metadata_keys_ = {} /\ i \in newly_registered_

(* rollback(), second loop: delete each NCA this sink registered. *)
RollbackContent(i) ==
    /\ Undoes(i)
    /\ newly_registered_' = newly_registered_ \ {i}
    /\ \/ /\ content' = [content EXCEPT ![i] = Absent]
          /\ UNCHANGED stray
       \/ /\ MayFail("DeleteContent")
          /\ stray' = [stray EXCEPT !.content = @ \cup {i}]
          /\ UNCHANGED content
    /\ UNCHANGED <<placeholders, metaMem, metaDisk, records, importedTickets, pc, pkg,
                   entryVars, sidecarVars, finishVars, cnmt_ids_, flags,
                   outcome, before, settled>>

(* The end of rollback(): back in finish(), which returns false, or in       *)
(* abort(), after which the sink is destroyed.                               *)
RollbackDone ==
    /\ pc = "rollback"
    /\ metadata_keys_ = {} /\ newly_registered_ = {}
    /\ \/ /\ aborted_
          /\ pc' = "idle"
          /\ outcome' = "failed"
          /\ Destroyed
       \/ /\ ~aborted_
          /\ pc' = "stream"
          /\ UNCHANGED <<entryVars, sidecarVars, finishVars, cnmt_ids_,
                         newly_registered_, flags, outcome>>
    /\ UNCHANGED <<store, pkg, before, settled, stray>>

(* The destructor of a finished sink: closeServices() only. *)
Close ==
    /\ pc = "stream"
    /\ finished_
    /\ pc' = "idle"
    /\ Destroyed
    /\ UNCHANGED <<store, pkg, history>>

(* The process is killed (NCM keeps its uncommitted database) or the console *)
(* loses power (it does not).  What the sink had not settled is left behind. *)
Crash ==
    /\ CanCrash
    /\ pc' = "idle"
    /\ outcome' = IF pc = "idle" \/ finished_ THEN outcome ELSE "crashed"
    /\ metaMem' \in {metaMem, metaDisk}
    /\ stray' = [content |-> IF finished_ THEN stray.content
                             ELSE stray.content \cup newly_registered_,
                 placeholders |-> IF entry_placeholder_open_
                                  THEN stray.placeholders \cup {active_content_id_}
                                  ELSE stray.placeholders,
                 meta |-> stray.meta]
    /\ Destroyed
    /\ UNCHANGED <<pkg, content, placeholders, metaDisk, records, importedTickets, before, settled>>

-----------------------------------------------------------------------------
(* What the sink and its caller do with a transfer that is under way. *)
SinkStep ==
    \/ ParseHeader
    \/ BeginPlainEntry \/ BeginShortNca \/ BeginExistingNca \/ BeginUnknownNca \/ BeginNewNca
    \/ ConsumeEntry \/ EndNewNca \/ EndOtherEntry
    \/ FinishRefused \/ FinishStarts
    \/ \E stem \in Stems : ImportTicket(stem)
    \/ TicketsRefused \/ TicketsDone
    \/ SetMeta \/ MetaRefused \/ CommitMeta \/ CommitFails
    \/ PushRecord \/ RecordFails \/ FinishSucceeds
    \/ Abort
    \/ \E k \in Keys : RollbackMeta(k)
    \/ \E i \in ContentId : RollbackContent(i)
    \/ RollbackDone \/ Close

Next == (\E p \in Packages : Open(p)) \/ SinkStep \/ Crash

Spec == Init /\ [][Next]_vars

(* doSendObject has begun to use the sink. *)
InSendObject == header_parsed_ \/ failed_ \/ aborted_

(* From then on the server thread always goes on: a stalled USB read returns *)
(* after its one-second timeout and ends in abort().  Before, nothing makes  *)
(* the PC follow its SendObjectInfo by a SendObject; and after finish() the  *)
(* sink is destroyed once the PC has read the answer, which nothing makes it *)
(* do either.                                                                *)
FairSpec == Spec /\ WF_vars(InSendObject /\ ~finished_ /\ SinkStep)

-----------------------------------------------------------------------------
(* Properties. *)

(* The type of every variable; outside a transfer the sink's fields are      *)
(* those of a new one.                                                       *)
StoreTypeOK ==
    /\ content \in [ContentId -> Nat \cup {Absent}]
    /\ placeholders \subseteq ContentId
    /\ metaMem \in [Keys -> Meta]
    /\ metaDisk \in [Keys -> Meta]
    /\ records \subseteq Keys
    /\ importedTickets \subseteq Stems

SinkTypeOK ==
    /\ pc \in {"idle", "stream", "tickets", "cnmt", "commit", "record", "rollback"}
    /\ pkg \in Packages \cup {NoPackage}
    /\ pc # "idle" => pkg \in Packages
    /\ header_parsed_ \in BOOLEAN
    /\ current_entry_ \in Nat \ {0}
    /\ entry_started_ \in BOOLEAN
    /\ offset \in Nat
    /\ entry_placeholder_open_ \in BOOLEAN
    /\ active_content_id_ \in ContentId \cup {NoMeta}
    /\ entry_placeholder_open_ => active_content_id_ \in ContentId
    /\ skip_active_nca_ \in BOOLEAN
    /\ tickets_ \subseteq Stems
    /\ certificates_ \subseteq Stems
    /\ imported \subseteq tickets_
    /\ cnmt_ids_ \in Seq(CnmtId)
    /\ cnmt_index \in Nat \ {0}
    /\ pc \in {"commit", "record"} => cnmt_index <= Len(cnmt_ids_)
    /\ metadata_keys_ \subseteq Keys
    /\ newly_registered_ \subseteq ContentId
    /\ failed_ \in BOOLEAN
    /\ finished_ \in BOOLEAN
    /\ aborted_ \in BOOLEAN

HistoryTypeOK ==
    /\ outcome \in {"none", "receiving", "ok", "failed", "crashed"}
    /\ before \in [content: [ContentId -> Nat \cup {Absent}], meta: [Keys -> Meta],
                   records: SUBSET Keys]
    /\ settled \in [Keys -> Meta]
    /\ stray \in [content: SUBSET ContentId, placeholders: SUBSET ContentId,
                  meta: SUBSET Keys]

TypeOK == StoreTypeOK /\ SinkTypeOK /\ HistoryTypeOK

(* A transfer never deletes or replaces an NCA that was registered before it *)
(* was opened, however it ends: rollback() deletes what newly_registered_    *)
(* names, and beginEntry leaves an NCA it finds out of that list.            *)
ExistingContentKept ==
    \A i \in ContentId : before.content[i] # Absent => content[i] = before.content[i]

(* A title whose installation finish() reported keeps every NCA its CNMT     *)
(* requires, whatever later transfers of packages that share NCAs with it    *)
(* do, and whichever service call fails or process dies on the way.          *)
SettledTitlesKeepContent ==
    \A k \in Keys : settled[k] # NoMeta => Complete(settled[k])

(* When finish() has returned true the whole package is installed: every NCA *)
(* of it is registered with its size, and every CNMT of it is committed under *)
(* its key, complete and published; its tickets are in ES.                   *)
FinishedInstallComplete ==
    finished_ =>
        /\ \A n \in 1..Len(Entries) :
              IsNca(Entries[n]) => content[Entries[n].id] = Entries[n].size
        /\ \A n \in 1..Len(Entries) : Entries[n].kind = "cnmt" =>
              LET k == Cnmt[Entries[n].id].key
              IN  /\ metaDisk[k] \in {c \in Elements(cnmt_ids_) : Cnmt[c].key = k}
                  /\ Complete(metaDisk[k])
                  /\ k \in records
        /\ \A n \in 1..Len(Entries) :
              Entries[n].kind = "ticket" => Entries[n].id \in importedTickets

(* Nothing a transfer adds to NCM escapes rollback() but by a crash or a      *)
(* failed delete: a placeholder is the open entry's, and an NCA registered   *)
(* since the transfer was opened is on the list rollback() works from until  *)
(* finish() succeeds.  So a refused package leaves neither behind.           *)
AddedIsAccounted ==
    /\ entry_placeholder_open_ => active_content_id_ \in placeholders
    /\ placeholders \subseteq stray.placeholders
          \cup (IF entry_placeholder_open_ THEN {active_content_id_} ELSE {})
    /\ outcome # "ok" =>
          {i \in ContentId : content[i] # Absent /\ before.content[i] = Absent}
              \subseteq newly_registered_ \cup stray.content

(* ContentMeta is only ever committed for content that is there: finish()    *)
(* checks every required NCA first and rollback() takes the keys out before  *)
(* the NCAs, so that a crash inside either leaves no title without its data. *)
(* Not covered are keys whose commit or removal failed: the class ignores    *)
(* those results and forgets the key.                                        *)
CommittedMetaBacked ==
    \A k \in Keys \ stray.meta : metaDisk[k] # NoMeta => Complete(metaDisk[k])

(* Once its data has begun to come every transfer ends, with the package     *)
(* installed or rolled back, whichever calls fail: finish() leaves each of   *)
(* its loops, rollback() terminates, and a sink that failed is aborted.      *)
TransferEnds == (pc # "idle" /\ InSendObject) ~> (pc = "idle" \/ finished_)

(* docs/estado.es.md:47 and docs/instalacion-mtp.md:30: a failed transfer    *)
(* removes the new metadata, so what was installed before it still is: no    *)
(* key that had ContentMeta when it was opened is left without.              *)
FailedInstallKeepsEarlierTitles ==
    outcome = "failed" =>
        \A k \in Keys : before.meta[k] # NoMeta => metaMem[k] # NoMeta

(* docs/estado.es.md:54: a collection is confirmed and reverted as a group,  *)
(* so a failed one leaves no ApplicationRecord that was not there before.    *)
FailedCollectionLeavesNoRecord ==
    outcome = "failed" => records = before.records
=============================================================================

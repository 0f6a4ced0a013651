---------------------------- MODULE FilingProofs ----------------------------
(***************************************************************************)
(* Proofs about the two forms that file a document: the resident's request *)
(* with the desk that decides it, and the vendor's receipt.  They hold for *)
(* any accounts, files and amounts, and any interleaving of clicks, reads, *)
(* extrinsics and blocks.                                                  *)
(***************************************************************************)
EXTENDS KycDesk, ReceiptForm, MapLemmas, SequenceTheorems

\* A sequence without one of its elements.
LEMMA RemoveOne ==
    ASSUME NEW S, NEW s \in Seq(S), NEW i \in DOMAIN s
    PROVE  RemoveAt(s, i) \in Seq(S)
<1>1. Len(s) \in Nat /\ i \in 1 .. Len(s) /\ \A j \in 1 .. Len(s) : s[j] \in S
  BY LenProperties, ElementOfSeq
<1> DEFINE left == SubSeq(s, 1, i - 1)
           right == SubSeq(s, i + 1, Len(s))
<1>2. left \in Seq(S)
  BY <1>1, SubSeqProperties
<1>3. right \in Seq(S)
  BY <1>1, SubSeqProperties
<1> HIDE DEF left, right
<1>4. left \o right \in Seq(S)
  BY <1>2, <1>3, ConcatProperties
<1> QED
  BY <1>4 DEF RemoveAt, left, right

---------------------------------------------------------------------------
\* The resident's page and the desk.

\* Only wards are declared on the page, never "citywide", and a verification
\* has an end.
Declared(r) == r.ward \in District /\ (r.status = "Verified" => r.expires_at \in Nat)
RecordsTyped == ResidencyTypeOK /\ \A a \in DOMAIN kyc : Declared(kyc[a])

\* A request that can still be decided was not.
UndecidedPending ==
    \A a \in Account : decided[a] <= 1 /\ (Reviewable(a) => decided[a] = 0)

\* From its block on, the submission's account has one of the records that it
\* or the desk has made since, and its own read finds such a one.
SubmissionStored ==
    LET own == since[filing.who] IN
    busy => /\ filing.stage # "sent" =>
                  /\ filing.who \in DOMAIN kyc /\ kyc[filing.who] \in own
                  /\ \A r \in own : r.ward = filing.ward
            /\ filing.is # None => filing.stage = "reading" /\ filing.is \in own

DeskTyped == KycDeskTypeOK /\ RecordsTyped
DeskInv == DeskTyped /\ UndecidedPending /\ SubmissionStored

\* What the pallet's calls do to the records, and to whom they can still be decided.
LEMMA SubmitRecords ==
    ASSUME RecordsTyped, NEW a \in Account, NEW w \in District, SubmitKyc(a, w)
    PROVE  /\ RecordsTyped' /\ now' = now
           /\ DOMAIN kyc' = DOMAIN kyc \cup {a} /\ kyc'[a] \in KycRecord
           /\ kyc'[a].ward = w
           /\ \A b \in Account \ {a} : Reviewable(b)' => Reviewable(b)
<1> DEFINE r == [ward |-> w, status |-> "Pending", verified_at |-> None, expires_at |-> None]
<1>1. r \in KycRecord /\ Declared(r) /\ r.ward = w
  BY DEF KycRecord, KycStatus, Ward, Declared
<1>2. kyc' = Put(kyc, a, r) /\ now' = now /\ approvals' = approvals
  BY DEF SubmitKyc
<1> HIDE DEF r
<1>3. IsMap(kyc, Account, KycRecord)
  BY DEF RecordsTyped, ResidencyTypeOK
<1>4. /\ IsMap(kyc', Account, KycRecord) /\ DOMAIN kyc' = DOMAIN kyc \cup {a}
      /\ kyc'[a] = r /\ \A b \in DOMAIN kyc : b # a => kyc'[b] = kyc[b]
  BY <1>1, <1>2, <1>3 DEF IsMap, Put
<1>5. RecordsTyped'
  BY <1>1, <1>2, <1>4 DEF RecordsTyped, ResidencyTypeOK, Declared
<1>6. \A b \in Account \ {a} : Reviewable(b)' => Reviewable(b)
  BY <1>4 DEF Reviewable
<1> QED
  BY <1>1, <1>2, <1>4, <1>5, <1>6

LEMMA ReviewRecords ==
    ASSUME RecordsTyped, NEW a \in Account, ApproveKyc(a) \/ RejectKyc(a)
    PROVE  /\ RecordsTyped' /\ now' = now
           /\ a \in DOMAIN kyc /\ DOMAIN kyc' = DOMAIN kyc /\ kyc'[a] \in KycRecord
           /\ kyc'[a].ward = kyc[a].ward
           /\ \A b \in DOMAIN kyc : b # a => kyc'[b] = kyc[b]
           /\ ~Reviewable(a)'
           /\ \A b \in Account : Reviewable(b)' => Reviewable(b)
<1>1. /\ IsMap(kyc, Account, KycRecord) /\ now \in Nat /\ approvals \in [Account -> Nat]
      /\ \A b \in DOMAIN kyc : Declared(kyc[b])
  BY DEF RecordsTyped, ResidencyTypeOK
<1>2. a \in DOMAIN kyc
  BY DEF ApproveKyc, RejectKyc, Reviewable
<1>3. kyc[a] \in KycRecord /\ kyc[a].ward \in District
  BY <1>1, <1>2, MapValue DEF Declared
<1>4. PICK r \in KycRecord :
          kyc' = Put(kyc, a, r) /\ r.status # "Pending" /\ r.ward = kyc[a].ward /\ Declared(r)
  <2>1. CASE ApproveKyc(a)
    <3> DEFINE r == [ward |-> kyc[a].ward, status |-> "Verified", verified_at |-> now,
                     expires_at |-> now + KycValidityPeriod]
    <3>1. r \in KycRecord /\ r.status # "Pending" /\ r.ward = kyc[a].ward /\ Declared(r)
      BY <1>1, <1>3, ResidencyAssumption DEF KycRecord, KycStatus, Declared
    <3>2. kyc' = Put(kyc, a, r)
      BY <2>1 DEF ApproveKyc
    <3> QED
      BY <3>1, <3>2
  <2>2. CASE RejectKyc(a)
    <3> DEFINE r == [ward |-> kyc[a].ward, status |-> "Rejected", verified_at |-> None,
                     expires_at |-> None]
    <3>1. r \in KycRecord /\ r.status # "Pending" /\ r.ward = kyc[a].ward /\ Declared(r)
      BY <1>3 DEF KycRecord, KycStatus, Declared
    <3>2. kyc' = Put(kyc, a, r)
      BY <2>2 DEF RejectKyc
    <3> QED
      BY <3>1, <3>2
  <2> QED
    BY <2>1, <2>2
<1>5. /\ IsMap(kyc', Account, KycRecord) /\ DOMAIN kyc' = DOMAIN kyc \cup {a} /\ kyc'[a] = r
      /\ \A b \in DOMAIN kyc : b # a => kyc'[b] = kyc[b]
  BY <1>1, <1>2, <1>4 DEF IsMap, Put
<1>6. now' = now /\ approvals' \in [Account -> Nat]
  BY <1>1 DEF ApproveKyc, RejectKyc
<1>7. RecordsTyped'
  BY <1>1, <1>2, <1>4, <1>5, <1>6 DEF RecordsTyped, ResidencyTypeOK, Declared
<1>8. ~Reviewable(a)'
  BY <1>4, <1>5 DEF Reviewable
<1>9. \A b \in Account : Reviewable(b)' => Reviewable(b)
  BY <1>2, <1>5, <1>8 DEF Reviewable
<1> QED
  BY <1>2, <1>4, <1>5, <1>6, <1>7, <1>8, <1>9

\* What is read of an account is a record or none, and is shown as such.
LEMMA StoredType ==
    ASSUME RecordsTyped, NEW a PROVE Stored(a) \in KycRecord \cup {None}
BY MapValue DEF Stored, RecordsTyped, ResidencyTypeOK

LEMMA ShownType ==
    ASSUME NEW a \in Account, NEW is \in KycRecord \cup {None}
    PROVE  Shown(a, is) = None \/ Shown(a, is) \in KycView
BY DEF Shown, KycView

LEMMA ReadOfType == ASSUME NEW a \in Account PROVE ReadOf(a) \in KycRead
BY DEF ReadOf, KycRead

LEMMA ListingType == Listing \in DeskRead
BY DEF Listing, DeskRead

LEMMA DeskTypedInit == KycDeskInit => DeskTyped
<1> SUFFICES ASSUME KycDeskInit PROVE DeskTyped
  OBVIOUS
<1>1. RecordsTyped
  BY EmptyMapType DEF KycDeskInit, ResidencyInit, RecordsTyped, ResidencyTypeOK, EmptyMap
<1>2. selected \in Account /\ selected \in Applicants
  BY DeskAssumption DEF KycDeskInit
<1>3. PICK r \in KycRead : reads = <<r>>
  BY <1>2, ReadOfType DEF KycDeskInit
<1>4. PICK d \in DeskRead : deskReads = <<d>>
  BY ListingType DEF KycDeskInit
<1>5. reads \in Seq(KycRead) /\ deskReads \in Seq(DeskRead)
  BY <1>3, <1>4
<1>6. /\ record = None /\ requests = {} /\ txs = <<>> /\ decided = [a \in Account |-> 0]
      /\ since = [a \in Account |-> {}] /\ filing = None /\ block = None
      /\ recordError = FALSE /\ error = FALSE
  BY DEF KycDeskInit
<1>7. /\ txs \in Seq(Extrinsic) /\ requests \subseteq Request /\ decided \in [Account -> Nat]
      /\ since \in [Account -> SUBSET KycRecord]
  BY <1>6
<1> QED
  BY <1>1, <1>2, <1>5, <1>6, <1>7 DEF DeskTyped, KycDeskTypeOK, RecordsTyped, busy

\* The parts of the state that the steps of reads, of the form, and of the desk change.
ReadsTyped ==
    /\ selected \in Applicants
    /\ record = None \/ record \in KycView
    /\ recordError \in BOOLEAN
    /\ reads \in Seq(KycRead)
BlockTyped == block # None => block \in 0 .. now - 1
FilingTyped == error \in BOOLEAN /\ (busy => filing \in Filing)
ListTyped ==
    /\ deskReads \in Seq(DeskRead)
    /\ requests \subseteq Request /\ txs \in Seq(Extrinsic)
HistoryTyped == decided \in [Account -> Nat] /\ since \in [Account -> SUBSET KycRecord]

LEMMA TypedParts ==
    DeskTyped <=>
        RecordsTyped /\ ReadsTyped /\ BlockTyped /\ FilingTyped /\ ListTyped /\ HistoryTyped
BY DEF DeskTyped, KycDeskTypeOK, RecordsTyped, ReadsTyped, BlockTyped, FilingTyped, ListTyped,
   HistoryTyped

LEMMA TypedNext ==
    RecordsTyped' /\ ReadsTyped' /\ BlockTyped' /\ FilingTyped' /\ ListTyped' /\ HistoryTyped'
        => DeskTyped'
BY DEF DeskTyped, KycDeskTypeOK, RecordsTyped, ReadsTyped, BlockTyped, FilingTyped, ListTyped,
   HistoryTyped

\* What a step leaves alone stays of its type.
LEMMA TypedUnchanged ==
    ASSUME DeskTyped
    PROVE  /\ UNCHANGED residencyVars => RecordsTyped'
           /\ UNCHANGED <<selected, record, recordError, reads>> => ReadsTyped'
           /\ now' = now /\ UNCHANGED block => BlockTyped'
           /\ UNCHANGED <<error, filing>> => FilingTyped'
           /\ UNCHANGED <<deskReads, requests, txs>> => ListTyped'
           /\ UNCHANGED <<decided, since>> => HistoryTyped'
BY TypedParts DEF RecordsTyped, ReadsTyped, BlockTyped, FilingTyped, ListTyped, HistoryTyped,
   ResidencyTypeOK, residencyVars, Declared, busy

\* The steps of the effect's reads.
ReadStep == (\E a \in Applicants : Select(a))
            \/ (\E i \in DOMAIN reads : NodeReads(i) \/ RecordRead(i) \/ RecordFails(i))

LEMMA ReadStepTyped ==
    ASSUME DeskTyped, ReadStep
    PROVE  ReadsTyped' /\ UNCHANGED <<residencyVars, block, submitVars, deskVars, txs, historyVars>>
<1>0. RecordsTyped /\ ReadsTyped
  BY TypedParts
<1>1. ASSUME NEW a \in Applicants, Select(a)
      PROVE  ReadsTyped' /\ UNCHANGED <<residencyVars, block, submitVars, deskVars, txs, historyVars>>
  <2>1. PICK r \in KycRead : r = ReadOf(a)
    BY DeskAssumption, ReadOfType
  <2>2. reads' = Append(reads, r) /\ selected' = a /\ recordError' = FALSE
        /\ UNCHANGED <<record, residencyVars, block, submitVars, deskVars, txs, historyVars>>
    BY <1>1, <2>1 DEF Select
  <2> QED
    BY <1>0, <2>2, AppendProperties DEF ReadsTyped
<1>2. ASSUME NEW i \in DOMAIN reads, NodeReads(i)
      PROVE  ReadsTyped' /\ UNCHANGED <<residencyVars, block, submitVars, deskVars, txs, historyVars>>
  <2>1. reads[i] \in KycRead /\ reads \in Seq(KycRead) /\ i \in 1 .. Len(reads)
    BY <1>0, LenProperties, ElementOfSeq DEF ReadsTyped
  <2>2. PICK v \in KycRecord \cup {None} : v = Stored(reads[i].of)
    BY <1>0, StoredType
  <2>3. PICK r \in KycRead : r = [reads[i] EXCEPT !.done = TRUE, !.is = v]
    BY <2>1 DEF KycRead
  <2>4. reads' = [reads EXCEPT ![i] = r] /\ UNCHANGED <<selected, record, recordError>>
        /\ UNCHANGED <<residencyVars, block, submitVars, deskVars, txs, historyVars>>
    BY <1>2, <2>2, <2>3 DEF NodeReads
  <2>5. reads' \in Seq(KycRead)
    BY <2>1, <2>4, ExceptSeq
  <2> QED
    BY <1>0, <2>4, <2>5 DEF ReadsTyped
<1>3. ASSUME NEW i \in DOMAIN reads, RecordRead(i) \/ RecordFails(i)
      PROVE  ReadsTyped' /\ UNCHANGED <<residencyVars, block, submitVars, deskVars, txs, historyVars>>
  <2>1. reads[i] \in KycRead /\ reads \in Seq(KycRead)
    BY <1>0, LenProperties, ElementOfSeq DEF ReadsTyped
  <2>2. PICK a \in Account, v \in KycRecord \cup {None} : a = reads[i].of /\ v = reads[i].is
    BY <2>1 DEF KycRead
  <2>3. /\ reads' = RemoveAt(reads, i) /\ record' \in {record, Shown(a, v)}
        /\ recordError' \in {TRUE, recordError}
        /\ UNCHANGED <<selected, residencyVars, block, submitVars, deskVars, txs, historyVars>>
    BY <1>3, <2>2 DEF RecordRead, RecordFails
  <2>4. reads' \in Seq(KycRead)
    BY <1>3, <2>1, <2>3, RemoveOne
  <2> QED
    BY <1>0, <2>3, <2>4, ShownType DEF ReadsTyped
<1> QED
  BY <1>1, <1>2, <1>3 DEF ReadStep

\* The steps of handleSubmit.
SubmitStep == (\E ward \in District : SubmitRequest(ward))
              \/ SubmissionIncluded \/ SubmissionRefused \/ Notified
              \/ NodeReadsOwn \/ OwnRead \/ OwnFails

LEMMA SubmitStepTyped ==
    ASSUME DeskTyped, SubmitStep
    PROVE  DeskTyped' /\ UNCHANGED <<deskVars, txs>>
<1>0. RecordsTyped /\ ReadsTyped /\ FilingTyped /\ HistoryTyped
  BY TypedParts
<1>1. ASSUME UNCHANGED <<residencyVars, block, deskVars, txs, historyVars>>,
             ReadsTyped', FilingTyped'
      PROVE  DeskTyped' /\ UNCHANGED <<deskVars, txs>>
  BY <1>1, TypedNext, TypedUnchanged DEF residencyVars, deskVars, historyVars
<1>2. ASSUME NEW ward \in District, SubmitRequest(ward)
      PROVE  DeskTyped' /\ UNCHANGED <<deskVars, txs>>
  <2>1. selected \in Account
    BY <1>0, DeskAssumption DEF ReadsTyped
  <2>2. PICK f \in Filing : f = [who |-> selected, ward |-> ward, stage |-> "sent", is |-> None]
    BY <2>1 DEF Filing
  <2>3. /\ filing' = f /\ error' = FALSE
        /\ UNCHANGED <<residencyVars, selected, block, txs, readVars, deskVars, historyVars>>
    BY <1>2, <2>2 DEF SubmitRequest
  <2>4. FilingTyped' /\ ReadsTyped'
    BY <1>0, <2>3 DEF FilingTyped, ReadsTyped, readVars
  <2> QED
    BY <1>1, <2>3, <2>4
<1>3. CASE SubmissionIncluded
  <2>1. filing \in Filing /\ filing.who \in Account /\ filing.ward \in District
    BY <1>0, <1>3 DEF SubmissionIncluded, FilingTyped, Filing
  <2>2. /\ SubmitKyc(filing.who, filing.ward)
        /\ filing' = [filing EXCEPT !.stage = "included"]
        /\ decided' = [decided EXCEPT ![filing.who] = 0]
        /\ since' = [since EXCEPT ![filing.who] = {kyc'[filing.who]}]
        /\ UNCHANGED <<selected, block, error, txs, record, recordError, reads, deskVars>>
    BY <1>3 DEF SubmissionIncluded, readVars
  <2>3. RecordsTyped' /\ now' = now /\ kyc'[filing.who] \in KycRecord
    BY <1>0, <2>1, <2>2, SubmitRecords
  <2>4. HistoryTyped'
    BY <1>0, <2>1, <2>2, <2>3 DEF HistoryTyped
  <2>5. filing' \in Filing
    BY <2>1, <2>2 DEF Filing
  <2>6. FilingTyped'
    BY <1>0, <2>2, <2>5 DEF FilingTyped
  <2>7. ReadsTyped' /\ BlockTyped' /\ ListTyped'
    BY <2>2, <2>3, TypedUnchanged DEF deskVars
  <2> QED
    BY <2>2, <2>3, <2>4, <2>6, <2>7, TypedNext
<1>4. CASE SubmissionRefused
  <2>1. /\ filing' = None /\ error' = TRUE
        /\ UNCHANGED <<residencyVars, selected, block, txs, readVars, deskVars, historyVars>>
    BY <1>4 DEF SubmissionRefused
  <2>2. FilingTyped' /\ ReadsTyped'
    BY <1>0, <2>1 DEF FilingTyped, ReadsTyped, readVars, busy
  <2> QED
    BY <1>1, <2>1, <2>2
<1>5. CASE Notified \/ NodeReadsOwn
  <2>1. filing \in Filing
    BY <1>0, <1>5 DEF Notified, NodeReadsOwn, FilingTyped
  <2>2. filing' \in Filing
    BY <1>0, <1>5, <2>1, StoredType DEF Notified, NodeReadsOwn, Filing
  <2>3. /\ recordError' \in {FALSE, recordError}
        /\ UNCHANGED <<residencyVars, selected, block, error, txs, record, reads, deskVars,
                       historyVars>>
    BY <1>5 DEF Notified, NodeReadsOwn, readVars
  <2>4. FilingTyped' /\ ReadsTyped'
    BY <1>0, <2>2, <2>3 DEF FilingTyped, ReadsTyped
  <2> QED
    BY <1>1, <2>3, <2>4
<1>6. CASE OwnRead \/ OwnFails
  <2>1. PICK a \in Account, v \in KycRecord \cup {None} : a = filing.who /\ v = filing.is
    BY <1>0, <1>6 DEF OwnRead, OwnFails, FilingTyped, Filing
  <2>2. /\ filing' = None /\ recordError' \in {TRUE, recordError}
        /\ record' \in {record, Shown(a, v)}
        /\ UNCHANGED <<residencyVars, selected, block, error, txs, reads, deskVars, historyVars>>
    BY <1>6, <2>1 DEF OwnRead, OwnFails
  <2>3. FilingTyped' /\ ReadsTyped'
    BY <1>0, <2>2, ShownType DEF FilingTyped, ReadsTyped, busy
  <2> QED
    BY <1>1, <2>2, <2>3
<1> QED
  BY <1>2, <1>3, <1>4, <1>5, <1>6 DEF SubmitStep

\* The steps of the desk.
ListStep == (\E i \in DOMAIN deskReads : NodeLists(i) \/ DeskListed(i))
            \/ (\E request \in requests, call \in {"approve", "reject"} : Decide(request, call))
            \/ (\E i \in DOMAIN txs : DecisionRefused(i))

LEMMA ListStepTyped ==
    ASSUME DeskTyped, ListStep
    PROVE  ListTyped' /\ UNCHANGED <<residencyVars, selected, block, submitVars, readVars, historyVars>>
<1>0. RecordsTyped /\ ListTyped
  BY TypedParts
<1> DEFINE Rest == <<residencyVars, selected, block, submitVars, readVars, historyVars>>
<1>1. ASSUME NEW i \in DOMAIN deskReads, NodeLists(i) PROVE ListTyped' /\ UNCHANGED Rest
  <2>0. \A a \in DOMAIN kyc : [who |-> a, ward |-> kyc[a].ward] \in Request
    BY <1>0, MapValue DEF Request, RecordsTyped, ResidencyTypeOK, Declared
  <2>1. PICK pending \in SUBSET Request :
            pending = {[who |-> a, ward |-> kyc[a].ward] :
                           a \in {b \in DOMAIN kyc : kyc[b].status = "Pending"}}
    BY <2>0
  <2>2. PICK d \in DeskRead : d = [done |-> TRUE, list |-> pending]
    BY DEF DeskRead
  <2>3. deskReads' = [deskReads EXCEPT ![i] = d] /\ UNCHANGED <<requests, txs>> /\ UNCHANGED Rest
    BY <1>1, <2>1, <2>2 DEF NodeLists
  <2>4. deskReads' \in Seq(DeskRead)
    BY <1>0, <1>1, <2>3, ExceptSeq, LenProperties DEF ListTyped
  <2> QED
    BY <1>0, <2>3, <2>4 DEF ListTyped
<1>2. ASSUME NEW i \in DOMAIN deskReads, DeskListed(i) PROVE ListTyped' /\ UNCHANGED Rest
  <2>1. deskReads[i].list \subseteq Request /\ deskReads \in Seq(DeskRead)
    <3>1. deskReads[i] \in DeskRead
      BY <1>0, <1>2, ElementOfSeq, LenProperties DEF ListTyped
    <3> QED
      BY <1>0, <3>1 DEF ListTyped, DeskRead
  <2>2. /\ deskReads' = RemoveAt(deskReads, i) /\ requests' \in {deskReads[i].list, requests}
        /\ UNCHANGED txs /\ UNCHANGED Rest
    BY <1>2 DEF DeskListed
  <2>3. deskReads' \in Seq(DeskRead)
    BY <1>2, <2>1, <2>2, RemoveOne
  <2> QED
    BY <1>0, <2>1, <2>2, <2>3 DEF ListTyped
<1>3. ASSUME NEW request \in requests, NEW call \in {"approve", "reject"}, Decide(request, call)
      PROVE  ListTyped' /\ UNCHANGED Rest
  <2>1. PICK t \in Extrinsic : t = [call |-> call, who |-> request.who]
    BY <1>0 DEF Extrinsic, Request, ListTyped
  <2>2. txs' = Append(txs, t) /\ UNCHANGED <<deskReads, requests>> /\ UNCHANGED Rest
    BY <1>3, <2>1 DEF Decide, deskVars
  <2> QED
    BY <1>0, <2>2, AppendProperties DEF ListTyped
<1>4. ASSUME NEW i \in DOMAIN txs, DecisionRefused(i) PROVE ListTyped' /\ UNCHANGED Rest
  <2>1. txs' = RemoveAt(txs, i) /\ UNCHANGED <<deskReads, requests>> /\ UNCHANGED Rest
    BY <1>4 DEF DecisionRefused, deskVars
  <2>2. txs' \in Seq(Extrinsic)
    BY <1>0, <1>4, <2>1, RemoveOne DEF ListTyped
  <2> QED
    BY <1>0, <2>1, <2>2 DEF ListTyped
<1> QED
  BY <1>1, <1>2, <1>3, <1>4 DEF ListStep

\* A decision in a block: of a request that is pending, or refused.
LEMMA DecisionCases ==
    ASSUME DeskTyped, NEW i \in DOMAIN txs, DecisionIncluded(i)
    PROVE  \/ UNCHANGED <<residencyVars, decided, since, deskReads>>
           \/ \E a \in Account :
                 /\ Reviewable(a)
                 /\ ApproveKyc(a) \/ RejectKyc(a)
                 /\ decided' = [decided EXCEPT ![a] = @ + 1]
                 /\ since' = [since EXCEPT ![a] = @ \cup {kyc'[a]}]
                 /\ deskReads' = Append(deskReads, Listing)
<1>1. txs[i] \in Extrinsic
  BY TypedParts, ElementOfSeq, LenProperties DEF ListTyped
<1>2. PICK a \in Account : a = txs[i].who
  BY <1>1 DEF Extrinsic
<1> QED
  BY <1>2 DEF DecisionIncluded, historyVars

LEMMA DecisionTyped ==
    ASSUME DeskTyped, NEW i \in DOMAIN txs, DecisionIncluded(i)
    PROVE  DeskTyped'
<1>0. RecordsTyped /\ ListTyped /\ HistoryTyped
  BY TypedParts
<1>1. txs' = RemoveAt(txs, i) /\ UNCHANGED <<selected, block, submitVars, readVars, requests>>
  BY DEF DecisionIncluded
<1>2. txs' \in Seq(Extrinsic)
  BY <1>0, <1>1, RemoveOne DEF ListTyped
<1>3. CASE UNCHANGED <<residencyVars, decided, since, deskReads>>
  <2>1. ListTyped'
    BY <1>0, <1>1, <1>2, <1>3 DEF ListTyped
  <2> QED
    BY <1>1, <1>3, <2>1, TypedNext, TypedUnchanged DEF submitVars, readVars, residencyVars
<1>4. ASSUME NEW a \in Account, ApproveKyc(a) \/ RejectKyc(a),
             decided' = [decided EXCEPT ![a] = @ + 1],
             since' = [since EXCEPT ![a] = @ \cup {kyc'[a]}],
             deskReads' = Append(deskReads, Listing)
      PROVE  DeskTyped'
  <2>1. RecordsTyped' /\ now' = now /\ kyc'[a] \in KycRecord
    BY <1>0, <1>4, ReviewRecords
  <2>2. HistoryTyped'
    BY <1>0, <1>4, <2>1 DEF HistoryTyped
  <2>3. deskReads' \in Seq(DeskRead)
    BY <1>0, <1>4, ListingType, AppendProperties DEF ListTyped
  <2>4. ListTyped'
    BY <1>0, <1>1, <1>2, <2>3 DEF ListTyped
  <2> QED
    BY <1>1, <2>1, <2>2, <2>4, TypedNext, TypedUnchanged DEF submitVars, readVars
<1> QED
  BY <1>3, <1>4, DecisionCases

LEMMA HeadTyped ==
    ASSUME DeskTyped, NewHead \/ BlockTick
    PROVE  DeskTyped' /\ UNCHANGED <<kyc, selected, submitVars, txs, readVars, deskVars, historyVars>>
<1>0. RecordsTyped /\ BlockTyped /\ now \in Nat
  BY TypedParts DEF RecordsTyped, ResidencyTypeOK
<1>1. UNCHANGED <<kyc, approvals, selected, submitVars, txs, readVars, deskVars, historyVars>>
  BY DEF NewHead, BlockTick, Tick, residencyVars
<1>2. BlockTyped' /\ now' \in Nat
  <2>1. CASE NewHead
    BY <1>0, <2>1 DEF NewHead, BlockTyped, residencyVars
  <2>2. CASE BlockTick
    BY <1>0, <2>2 DEF BlockTick, Tick, BlockTyped
  <2> QED
    BY <2>1, <2>2
<1>3. RecordsTyped'
  BY <1>0, <1>1, <1>2 DEF RecordsTyped, ResidencyTypeOK, Declared
<1> QED
  BY <1>1, <1>2, <1>3, TypedNext, TypedUnchanged DEF submitVars, readVars, deskVars, historyVars

\* The steps of the system, by what they change.
LEMMA DeskSteps ==
    KycDeskNext => \/ ReadStep \/ SubmitStep \/ ListStep \/ NewHead \/ BlockTick
                   \/ \E i \in DOMAIN txs : DecisionIncluded(i)
BY DEF KycDeskNext, ReadStep, SubmitStep, ListStep

LEMMA DeskTypedStep == DeskTyped /\ [KycDeskNext]_kycPageVars => DeskTyped'
<1> SUFFICES ASSUME DeskTyped, [KycDeskNext]_kycPageVars
             PROVE  DeskTyped'
  OBVIOUS
<1>1. CASE UNCHANGED kycPageVars
  BY <1>1, TypedNext, TypedUnchanged DEF kycPageVars, residencyVars, submitVars, readVars,
     deskVars, historyVars
<1>2. CASE ReadStep
  BY <1>2, ReadStepTyped, TypedNext, TypedUnchanged DEF residencyVars, submitVars, deskVars,
     historyVars
<1>3. CASE ListStep
  BY <1>3, ListStepTyped, TypedNext, TypedUnchanged DEF residencyVars, submitVars, readVars,
     historyVars
<1> QED
  BY <1>1, <1>2, <1>3, DeskSteps, SubmitStepTyped, DecisionTyped, HeadTyped

LEMMA DecidedStep ==
    DeskTyped /\ UndecidedPending /\ [KycDeskNext]_kycPageVars => UndecidedPending'
<1> SUFFICES ASSUME DeskTyped, UndecidedPending, [KycDeskNext]_kycPageVars
             PROVE  UndecidedPending'
  OBVIOUS
<1>0. RecordsTyped /\ FilingTyped /\ HistoryTyped
  BY TypedParts
<1>1. ASSUME UNCHANGED <<kyc, decided>> PROVE UndecidedPending'
  BY <1>1 DEF UndecidedPending, Reviewable
<1>2. CASE SubmissionIncluded
  <2>1. PICK a \in Account, w \in District : a = filing.who /\ w = filing.ward
    BY <1>0, <1>2 DEF SubmissionIncluded, FilingTyped, Filing
  <2>2. SubmitKyc(a, w) /\ decided' = [decided EXCEPT ![a] = 0]
    BY <1>2, <2>1 DEF SubmissionIncluded
  <2>3. \A b \in Account \ {a} : Reviewable(b)' => Reviewable(b)
    BY <1>0, <2>2, SubmitRecords
  <2> QED
    BY <1>0, <2>2, <2>3 DEF UndecidedPending, HistoryTyped
<1>3. ASSUME NEW i \in DOMAIN txs, DecisionIncluded(i) PROVE UndecidedPending'
  <2>1. CASE UNCHANGED <<residencyVars, decided, since, deskReads>>
    BY <1>1, <2>1 DEF residencyVars
  <2>2. ASSUME NEW a \in Account, Reviewable(a), ApproveKyc(a) \/ RejectKyc(a),
               decided' = [decided EXCEPT ![a] = @ + 1]
        PROVE  UndecidedPending'
    <3>1. ~Reviewable(a)' /\ \A b \in Account : Reviewable(b)' => Reviewable(b)
      BY <1>0, <2>2, ReviewRecords
    <3>2. decided[a] = 0
      BY <2>2 DEF UndecidedPending
    <3> QED
      BY <1>0, <2>2, <3>1, <3>2 DEF UndecidedPending, HistoryTyped
  <2> QED
    BY <1>3, <2>1, <2>2, DecisionCases, Zenon
<1>4. CASE SubmitStep /\ ~SubmissionIncluded
  BY <1>1, <1>4 DEF SubmitStep, SubmitRequest, SubmissionRefused, Notified, NodeReadsOwn, OwnRead,
     OwnFails, residencyVars, historyVars
<1>5. CASE ReadStep \/ ListStep \/ NewHead \/ BlockTick \/ UNCHANGED kycPageVars
  BY <1>1, <1>5, ReadStepTyped, ListStepTyped, HeadTyped DEF kycPageVars, residencyVars, historyVars
<1> QED
  BY <1>2, <1>3, <1>4, <1>5, DeskSteps

\* The submission and its read, through decisions of the desk.
LEMMA StoredStep ==
    DeskTyped /\ SubmissionStored /\ [KycDeskNext]_kycPageVars => SubmissionStored'
<1> SUFFICES ASSUME DeskTyped, SubmissionStored, [KycDeskNext]_kycPageVars
             PROVE  SubmissionStored'
  OBVIOUS
<1>0. RecordsTyped /\ FilingTyped /\ HistoryTyped
  BY TypedParts
<1>1. ASSUME UNCHANGED <<kyc, since, filing>> PROVE SubmissionStored'
  BY <1>1 DEF SubmissionStored, busy
<1>2. ASSUME NEW ward \in District, SubmitRequest(ward) PROVE SubmissionStored'
  BY <1>2 DEF SubmitRequest, SubmissionStored
<1>3. CASE SubmissionIncluded
  <2>1. PICK a \in Account, w \in District : a = filing.who /\ w = filing.ward
    BY <1>0, <1>3 DEF SubmissionIncluded, FilingTyped, Filing
  <2>2. filing \in Filing /\ filing.is = None
    BY <1>0, <1>3 DEF SubmissionIncluded, FilingTyped, SubmissionStored
  <2>3. /\ SubmitKyc(a, w) /\ filing' = [filing EXCEPT !.stage = "included"]
        /\ since' = [since EXCEPT ![a] = {kyc'[a]}]
    BY <1>3, <2>1 DEF SubmissionIncluded
  <2>4. a \in DOMAIN kyc' /\ kyc'[a].ward = w
    BY <1>0, <2>3, SubmitRecords
  <2>5. filing'.who = a /\ filing'.ward = w /\ filing'.is = None
    BY <2>1, <2>2, <2>3 DEF Filing
  <2>6. since'[a] = {kyc'[a]}
    BY <1>0, <2>3 DEF HistoryTyped
  <2> QED
    BY <2>4, <2>5, <2>6 DEF SubmissionStored
<1>4. CASE Notified
  <2>1. filing \in Filing /\ filing.is = None /\ filing.stage # "sent" /\ busy
    BY <1>0, <1>4 DEF Notified, FilingTyped, SubmissionStored
  <2>2. filing' = [filing EXCEPT !.stage = "reading"] /\ UNCHANGED <<kyc, since>>
    BY <1>4 DEF Notified, residencyVars, historyVars
  <2>3. filing'.who = filing.who /\ filing'.ward = filing.ward /\ filing'.is = None
    BY <2>1, <2>2 DEF Filing
  <2> QED
    BY <2>1, <2>2, <2>3 DEF SubmissionStored
<1>5. CASE NodeReadsOwn
  <2>1. filing \in Filing /\ filing.stage = "reading" /\ busy
    BY <1>0, <1>5 DEF NodeReadsOwn, FilingTyped
  <2>2. filing.who \in DOMAIN kyc /\ kyc[filing.who] \in since[filing.who]
    BY <2>1 DEF SubmissionStored
  <2>3. filing' = [filing EXCEPT !.is = kyc[filing.who]] /\ UNCHANGED <<kyc, since>>
    BY <1>5, <2>2 DEF NodeReadsOwn, Stored, residencyVars, historyVars
  <2>4. filing'.who = filing.who /\ filing'.ward = filing.ward /\ filing'.stage = "reading"
        /\ filing'.is = kyc[filing.who]
    BY <2>1, <2>3 DEF Filing
  <2> QED
    BY <2>1, <2>2, <2>3, <2>4 DEF SubmissionStored
<1>6. CASE SubmissionRefused \/ OwnRead \/ OwnFails
  BY <1>6 DEF SubmissionRefused, OwnRead, OwnFails, SubmissionStored, busy
<1>7. ASSUME NEW i \in DOMAIN txs, DecisionIncluded(i) PROVE SubmissionStored'
  <2>1. UNCHANGED filing
    BY <1>7 DEF DecisionIncluded, submitVars
  <2>2. CASE UNCHANGED <<residencyVars, decided, since, deskReads>>
    BY <1>1, <2>1, <2>2 DEF residencyVars
  <2>3. ASSUME NEW a \in Account, ApproveKyc(a) \/ RejectKyc(a),
               since' = [since EXCEPT ![a] = @ \cup {kyc'[a]}]
        PROVE  SubmissionStored'
    <3>1. /\ DOMAIN kyc' = DOMAIN kyc /\ kyc'[a].ward = kyc[a].ward
          /\ \A b \in DOMAIN kyc : b # a => kyc'[b] = kyc[b]
      BY <1>0, <2>3, ReviewRecords
    <3>2. since'[a] = since[a] \cup {kyc'[a]} /\ \A b \in Account : b # a => since'[b] = since[b]
      BY <1>0, <2>3 DEF HistoryTyped
    <3>3. busy => filing.who \in Account
      BY <1>0 DEF FilingTyped, Filing
    <3> QED
      BY <2>1, <3>1, <3>2, <3>3 DEF SubmissionStored, busy
  <2> QED
    BY <1>7, <2>2, <2>3, DecisionCases
<1>8. CASE ReadStep \/ ListStep \/ NewHead \/ BlockTick \/ UNCHANGED kycPageVars
  BY <1>1, <1>8, ReadStepTyped, ListStepTyped, HeadTyped
     DEF kycPageVars, residencyVars, submitVars, historyVars
<1> QED
  BY <1>2, <1>3, <1>4, <1>5, <1>6, <1>7, <1>8, DeskSteps DEF SubmitStep

LEMMA DeskInit == KycDeskInit => DeskInv
<1> SUFFICES ASSUME KycDeskInit PROVE DeskInv
  OBVIOUS
<1>1. decided = [a \in Account |-> 0] /\ filing = None
  BY DEF KycDeskInit
<1>2. UndecidedPending /\ SubmissionStored
  BY <1>1 DEF UndecidedPending, SubmissionStored, busy
<1> QED
  BY <1>2, DeskTypedInit DEF DeskInv

LEMMA DeskStep == DeskInv /\ [KycDeskNext]_kycPageVars => DeskInv'
BY DeskTypedStep, DecidedStep, StoredStep, Zenon DEF DeskInv

\* The desk's two buttons can both be pressed for one request, and are: the
\* pallet's set_kyc_status lets the first decision through and no other.
THEOREM RequestsAreDecidedOnce == KycDeskSpec => []OneDecisionPerRequest
<1>1. DeskInv => OneDecisionPerRequest
  BY DEF DeskInv, UndecidedPending, OneDecisionPerRequest
<1>2. QED
  BY DeskInit, DeskStep, <1>1, PTL DEF KycDeskSpec

\* The form comes back after a submission with the record it has made, or what
\* the desk has decided of it, on the page, in whatever order reads are answered
\* (handleSubmit, useKycRecord).
THEOREM SubmissionsAreShown == KycDeskSpec => SubmissionShown
<1> DEFINE Ends == busy /\ ~busy' /\ ~error' /\ ~recordError'
           Shows == Ends => /\ record' # None
                            /\ record'.of = filing.who /\ record'.is.ward = filing.ward
                            /\ record'.is \in since[filing.who]
<1>1. DeskInv /\ [KycDeskNext]_kycPageVars => [Shows]_kycPageVars
  <2> SUFFICES ASSUME DeskInv, KycDeskNext, Ends
               PROVE  /\ record' # None
                      /\ record'.of = filing.who /\ record'.is.ward = filing.ward
                      /\ record'.is \in since[filing.who]
    OBVIOUS
  <2>0. DeskTyped /\ SubmissionStored /\ FilingTyped
    BY TypedParts DEF DeskInv
  <2>1. OwnRead
    <3>1. filing' # filing
      BY DEF busy
    <3>2. SubmitStep
      BY <2>0, <3>1, DeskSteps, ReadStepTyped, ListStepTyped, HeadTyped
         DEF submitVars, DecisionIncluded
    <3>3. \A ward \in District : ~SubmitRequest(ward)
      BY DEF SubmitRequest
    <3>4. ~SubmissionRefused /\ ~OwnFails
      BY DEF SubmissionRefused, OwnFails
    <3>5. ~SubmissionIncluded /\ ~Notified /\ ~NodeReadsOwn
      <4>1. filing \in Filing /\ filing' = None
        BY <2>0 DEF FilingTyped, busy
      <4>2. ~SubmissionIncluded /\ ~Notified
        BY <4>1, DeskAssumption DEF SubmissionIncluded, Notified, Filing
      <4>3. Stored(filing.who) \in KycRecord \cup {None}
        BY <2>0, StoredType DEF DeskTyped
      <4>4. ~NodeReadsOwn
        BY <4>1, <4>3, DeskAssumption DEF NodeReadsOwn, Filing
      <4> QED
        BY <4>2, <4>4
    <3> QED
      BY <3>2, <3>3, <3>4, <3>5 DEF SubmitStep
  <2>2. record' = [of |-> filing.who, is |-> filing.is] /\ filing.is # None
    BY <2>1 DEF OwnRead, Shown
  <2>3. filing.is \in since[filing.who] /\ filing.is.ward = filing.ward
    BY <2>0, <2>2 DEF SubmissionStored
  <2>4. record' \in KycView
    BY <2>0, <2>2 DEF FilingTyped, Filing, KycView
  <2> QED
    BY <2>2, <2>3, <2>4, DeskAssumption
<1>2. QED
  BY DeskInit, DeskStep, <1>1, PTL DEF KycDeskSpec, SubmissionShown

\* The page's isExpired never calls a verification over that the pallet's vote
\* would take, and with the last header and record it is at most a block late.
THEOREM PageAndPalletAgreeOnExpiry == KycDeskSpec => []ExpiryAgrees
<1>1. DeskInv => ExpiryAgrees
  <2> SUFFICES ASSUME DeskTyped, record # None, record.of \in DOMAIN kyc,
                      record.is = kyc[record.of], record.is.status = "Verified"
               PROVE  /\ IsExpired => ~ResidentOf(record.of, record.is.ward)
                      /\ block = now - 1 /\ ~IsExpired => now <= record.is.expires_at + 1
    BY DEF DeskInv, ExpiryAgrees
  <2>1. now \in Nat /\ (block # None => block \in 0 .. now - 1)
    BY TypedParts DEF RecordsTyped, ResidencyTypeOK, BlockTyped
  <2>2. PICK e \in Nat : e = record.is.expires_at
    BY DEF DeskTyped, RecordsTyped, Declared
  <2>3. e # None
    BY FrameAssumption
  <2>4. IsExpired <=> block # None /\ block > e
    BY <2>2, <2>3 DEF IsExpired
  <2>5. ResidentOf(record.of, record.is.ward) => now <= e
    BY <2>2, <2>3 DEF ResidentOf
  <2>6. ASSUME block = now - 1, block = None PROVE now <= e + 1
    BY <2>1, <2>2, <2>6, FrameAssumption
  <2> QED
    BY <2>1, <2>2, <2>4, <2>5, <2>6
<1>2. QED
  BY DeskInit, DeskStep, <1>1, PTL DEF KycDeskSpec

---------------------------------------------------------------------------
\* The receipt form.

\* What a post under way has done already: a file that is about to be sent is
\* kept, one that is being read is there, and it is the last click's.
UnderWay ==
    /\ post.at \in {"hash", "read", "send"} =>
           \E c \in clicked : post.file = c.file /\ post.amount = c.amount
    /\ post.at \in {"hash", "read"} => post.file # NoFile
    /\ post.at = "send" /\ post.file # NoFile =>
           cache[post.file] # NoFile \/ post.file \in refused

FormInv == FormTypeOK /\ UnderWay /\ KeptBeforePosted

LEMMA IdleType ==
    /\ Idle \in [at : {"idle", "hash", "read", "send", "refresh"},
                 file : MaybeFile, preview : MaybeFile, amount : Amounts]
    /\ Idle.at = "idle"
BY ReceiptFormAssumption DEF Idle, MaybeFile, Amounts

LEMMA FormInitInv == FormInit => FormInv
<1> SUFFICES ASSUME FormInit
             PROVE  FormInv
  OBVIOUS
<1>1. /\ attachmentFile = NoFile /\ attachmentPreviewUrl = NoFile /\ readers = {}
      /\ post = Idle /\ receiptError = FALSE /\ refused = {}
      /\ receipts = <<>> /\ listed = <<>> /\ cache = [f \in Files |-> NoFile] /\ clicked = {}
  BY DEF FormInit
<1>2. NoFile \in MaybeFile \ Large
  BY ReceiptFormAssumption DEF MaybeFile
<1>3. FormTypeOK
  <2>1. receipts \in Seq(Receipt) /\ listed \in Seq(Receipt)
    BY <1>1
  <2>2. cache \in [Files -> MaybeFile]
    BY <1>1 DEF MaybeFile
  <2>3. QED
    BY <1>1, <1>2, <2>1, <2>2, IdleType DEF FormTypeOK
<1>4. UnderWay
  BY <1>1, IdleType DEF UnderWay
<1>5. KeptBeforePosted
  <2>1. DOMAIN receipts = {}
    BY <1>1
  <2>2. QED
    BY <2>1 DEF KeptBeforePosted
<1>6. QED
  BY <1>3, <1>4, <1>5 DEF FormInv

\* Keeping data under a hash never loses what another receipt relies on.
LEMMA KeepKeeps ==
    ASSUME FormTypeOK, NEW f \in Files, NEW data \in Files, Keep(f, data)
    PROVE  /\ cache' \in [Files -> MaybeFile] /\ refused' \subseteq Files
           /\ cache'[f] # NoFile \/ f \in refused'
           /\ \A g \in Files : cache[g] # NoFile \/ g \in refused =>
                                   cache'[g] # NoFile \/ g \in refused'
BY ReceiptFormAssumption DEF FormTypeOK, Keep, MaybeFile

\* A step that leaves receipts and copies alone leaves their relation alone.
LEMMA KeptUnchanged ==
    ASSUME KeptBeforePosted, UNCHANGED <<receipts, cache, refused>>
    PROVE  KeptBeforePosted'
BY DEF KeptBeforePosted

\* Copies that are kept or refused stay so for the receipts there are.
LEMMA KeptStored ==
    ASSUME FormTypeOK, KeptBeforePosted, UNCHANGED receipts,
           \A g \in Files : cache[g] # NoFile \/ g \in refused =>
                               cache'[g] # NoFile \/ g \in refused'
    PROVE  KeptBeforePosted'
<1>1. ASSUME NEW i \in DOMAIN receipts', receipts'[i].own, receipts'[i].file # NoFile
      PROVE  cache'[receipts'[i].file] # NoFile \/ receipts'[i].file \in refused'
  <2>1. receipts'[i] = receipts[i] /\ i \in DOMAIN receipts
    BY <1>1
  <2>2. receipts \in Seq(Receipt)
    BY DEF FormTypeOK
  <2>3. receipts[i] \in Receipt
    BY <2>1, <2>2
  <2>4. receipts[i].file \in Files
    BY <1>1, <2>1, <2>3 DEF Receipt, MaybeFile
  <2>5. cache[receipts[i].file] # NoFile \/ receipts[i].file \in refused
    BY <1>1, <2>1 DEF KeptBeforePosted
  <2>6. QED
    BY <2>1, <2>4, <2>5
<1>2. QED
  BY <1>1 DEF KeptBeforePosted

\* One receipt more, which is kept or another browser's.
LEMMA KeptAppended ==
    ASSUME FormTypeOK, KeptBeforePosted, NEW r \in Receipt,
           receipts' = Append(receipts, r), UNCHANGED <<cache, refused>>,
           r.own /\ r.file # NoFile => cache[r.file] # NoFile \/ r.file \in refused
    PROVE  KeptBeforePosted' /\ receipts' \in Seq(Receipt)
<1>1. receipts \in Seq(Receipt)
  BY DEF FormTypeOK
<1>2. ASSUME NEW i \in DOMAIN receipts'
      PROVE  \/ i \in DOMAIN receipts /\ receipts'[i] = receipts[i]
             \/ receipts'[i] = r
  BY <1>1, <1>2
<1>3. QED
  BY <1>1, <1>2 DEF KeptBeforePosted

LEMMA FormStepInv == FormInv /\ [FormNext]_receiptFormVars => FormInv'
<1> SUFFICES ASSUME FormInv, [FormNext]_receiptFormVars
             PROVE  FormInv'
  OBVIOUS
<1> USE ReceiptFormAssumption
<1>0. FormTypeOK /\ UnderWay /\ KeptBeforePosted
  BY DEF FormInv
<1>1. CASE UNCHANGED receiptFormVars
  BY <1>0, <1>1 DEF FormInv, FormTypeOK, UnderWay, KeptBeforePosted,
     receiptFormVars, formVars, formFilesVars
<1>2. ASSUME NEW f \in MaybeFile, Choose(f)
      PROVE  FormInv'
  <2>1. UNCHANGED <<post, receipts, listed, cache, refused, clicked>>
    BY <1>2 DEF Choose, formFilesVars
  <2>2. FormTypeOK'
    BY <1>0, <1>2, <2>1 DEF Choose, FormTypeOK, MaybeFile, formVars
  <2>3. QED
    BY <1>0, <2>1, <2>2, KeptUnchanged DEF FormInv, UnderWay
<1>3. CASE Detach
  <2>1. UNCHANGED <<post, receipts, listed, cache, refused, clicked>>
    BY <1>3 DEF Detach, formFilesVars
  <2>2. FormTypeOK'
    BY <1>0, <1>3, <2>1 DEF Detach, FormTypeOK, MaybeFile
  <2>3. QED
    BY <1>0, <2>1, <2>2, KeptUnchanged DEF FormInv, UnderWay
<1>4. ASSUME NEW f \in readers, Previewed(f)
      PROVE  FormInv'
  <2>1. UNCHANGED <<post, receipts, listed, cache, refused, clicked>>
    BY <1>4 DEF Previewed, formFilesVars
  <2>2. FormTypeOK'
    BY <1>0, <1>4, <2>1 DEF Previewed, FormTypeOK, MaybeFile
  <2>3. QED
    BY <1>0, <2>1, <2>2, KeptUnchanged DEF FormInv, UnderWay
<1>5. ASSUME NEW a \in Amounts, Submit(a)
      PROVE  FormInv'
  <2>1. UNCHANGED <<receipts, listed, cache, refused>>
    BY <1>5 DEF Submit, formFilesVars
  <2>2. \/ post' = Idle
        \/ post' = [at |-> IF attachmentFile = NoFile THEN "send" ELSE "hash",
                    file |-> attachmentFile, preview |-> attachmentPreviewUrl, amount |-> a]
    BY <1>5 DEF Submit
  <2>3. FormTypeOK' /\ UnderWay'
    <3>1. PICK c \in Click : c = [file |-> attachmentFile, amount |-> a]
      BY <1>0 DEF FormTypeOK, Click
    <3>2. receiptError' \in BOOLEAN /\ UNCHANGED formVars /\ clicked' = {c}
      BY <1>5, <3>1 DEF Submit
    <3>3. c.file = attachmentFile /\ c.amount = a
      BY <3>1
    <3> QED
      BY <1>0, <2>1, <2>2, <3>2, <3>3, IdleType DEF FormTypeOK, UnderWay, MaybeFile, formVars
  <2>4. QED
    BY <1>0, <2>1, <2>3, KeptUnchanged DEF FormInv
<1>6. CASE Hashed
  <2>0. UNCHANGED <<formVars, receiptError, receipts, listed, clicked>>
    BY <1>6 DEF Hashed
  <2>1. CASE post.preview = NoFile
    <3>1. post' = [post EXCEPT !.at = "read"] /\ UNCHANGED <<cache, refused>>
      BY <1>6, <2>1 DEF Hashed, formFilesVars
    <3>2. post.at = "hash"
      BY <1>6 DEF Hashed
    <3>3. FormTypeOK' /\ UnderWay'
      BY <1>0, <2>0, <3>1, <3>2 DEF FormTypeOK, UnderWay, formVars
    <3>4. QED
      BY <1>0, <2>0, <3>1, <3>3, KeptUnchanged DEF FormInv
  <2>2. CASE post.preview # NoFile
    <3>1. post' = [post EXCEPT !.at = "send"] /\ Keep(post.file, post.preview)
      BY <1>6, <2>2 DEF Hashed
    <3>2. post.file \in Files /\ post.preview \in Files
      BY <1>0, <1>6, <2>2 DEF Hashed, FormTypeOK, UnderWay, MaybeFile
    <3>3. /\ cache' \in [Files -> MaybeFile] /\ refused' \subseteq Files
          /\ cache'[post.file] # NoFile \/ post.file \in refused'
          /\ \A g \in Files : cache[g] # NoFile \/ g \in refused =>
                                  cache'[g] # NoFile \/ g \in refused'
      BY <1>0, <3>1, <3>2, KeepKeeps
    <3>4. FormTypeOK'
      BY <1>0, <2>0, <3>1, <3>3 DEF FormTypeOK, formVars
    <3>7. /\ post'.at = "send" /\ post'.file = post.file /\ post'.amount = post.amount
          /\ \E c \in clicked : post.file = c.file /\ post.amount = c.amount
      BY <1>0, <1>6, <3>1 DEF FormTypeOK, Hashed, UnderWay
    <3>8. UnderWay'
      BY <2>0, <3>3, <3>7 DEF UnderWay
    <3>5. KeptBeforePosted'
      BY <1>0, <2>0, <3>3, KeptStored
    <3>6. QED
      BY <3>4, <3>5, <3>8 DEF FormInv
  <2>3. QED
    BY <2>1, <2>2
<1>7. CASE Read
  <2>1. post' = [post EXCEPT !.at = "send"] /\ Keep(post.file, post.file)
        /\ UNCHANGED <<formVars, receiptError, receipts, listed, clicked>>
    BY <1>7 DEF Read
  <2>2. post.file \in Files
    BY <1>0, <1>7 DEF Read, FormTypeOK, UnderWay, MaybeFile
  <2>3. /\ cache' \in [Files -> MaybeFile] /\ refused' \subseteq Files
        /\ cache'[post.file] # NoFile \/ post.file \in refused'
        /\ \A g \in Files : cache[g] # NoFile \/ g \in refused =>
                                cache'[g] # NoFile \/ g \in refused'
    BY <1>0, <2>1, <2>2, KeepKeeps
  <2>4. FormTypeOK'
    BY <1>0, <2>1, <2>3 DEF FormTypeOK, formVars
  <2>7. /\ post'.at = "send" /\ post'.file = post.file /\ post'.amount = post.amount
        /\ \E c \in clicked : post.file = c.file /\ post.amount = c.amount
    BY <1>0, <1>7, <2>1 DEF FormTypeOK, Read, UnderWay
  <2>8. UnderWay'
    BY <2>1, <2>3, <2>7 DEF UnderWay
  <2>5. KeptBeforePosted'
    BY <1>0, <2>1, <2>3, KeptStored
  <2>6. QED
    BY <2>4, <2>5, <2>8 DEF FormInv
<1>8. CASE Unreadable \/ NotSent \/ Refreshed
  <2>1. /\ post' = Idle /\ receiptError' \in {TRUE, receiptError}
        /\ listed' \in {receipts, listed}
        /\ UNCHANGED <<attachmentFile, attachmentPreviewUrl, readers, receipts, cache, refused,
                       clicked>>
    BY <1>8 DEF Unreadable, NotSent, Refreshed, formVars, formFilesVars
  <2>2. FormTypeOK' /\ UnderWay'
    BY <1>0, <2>1, IdleType DEF FormTypeOK, UnderWay
  <2>3. QED
    BY <1>0, <2>1, <2>2, KeptUnchanged DEF FormInv
<1>9. CASE Sent
  <2> DEFINE r == [file |-> post.file, amount |-> post.amount, own |-> TRUE]
  <2>1. /\ receipts' = Append(receipts, r)
        /\ post' = [post EXCEPT !.at = "refresh"] /\ clicked' = {}
        /\ attachmentFile' = NoFile /\ attachmentPreviewUrl' = NoFile
        /\ UNCHANGED <<readers, receiptError, listed, cache, refused>>
    BY <1>9 DEF Sent, formFilesVars
  <2>2. r \in Receipt
    BY <1>0 DEF FormTypeOK, Receipt
  <2>3. r.own /\ r.file # NoFile => cache[r.file] # NoFile \/ r.file \in refused
    BY <1>0, <1>9 DEF Sent, UnderWay
  <2>4. KeptBeforePosted' /\ receipts' \in Seq(Receipt)
    BY <1>0, <2>1, <2>2, <2>3, KeptAppended
  <2>5. FormTypeOK' /\ UnderWay'
    BY <1>0, <2>1, <2>4 DEF FormTypeOK, UnderWay, MaybeFile
  <2>6. QED
    BY <2>4, <2>5 DEF FormInv
<1>10. CASE Listed
  <2>1. listed' = receipts /\ UNCHANGED <<formVars, post, receiptError, receipts, cache, refused, clicked>>
    BY <1>10 DEF Listed, formFilesVars
  <2>2. FormTypeOK' /\ UnderWay'
    BY <1>0, <2>1 DEF FormTypeOK, UnderWay, formVars
  <2>3. QED
    BY <1>0, <2>1, <2>2, KeptUnchanged DEF FormInv
<1>11. ASSUME NEW a \in Amounts, PostsElsewhere(a)
       PROVE  FormInv'
  <2> DEFINE r == [file |-> NoFile, amount |-> a, own |-> FALSE]
  <2>1. receipts' = Append(receipts, r)
        /\ UNCHANGED <<formVars, post, receiptError, listed, cache, refused, clicked>>
    BY <1>11 DEF PostsElsewhere, formFilesVars
  <2>2. r \in Receipt /\ ~r.own
    BY DEF Receipt, MaybeFile
  <2>3. KeptBeforePosted' /\ receipts' \in Seq(Receipt)
    BY <1>0, <2>1, <2>2, KeptAppended
  <2>4. FormTypeOK' /\ UnderWay'
    BY <1>0, <2>1, <2>3 DEF FormTypeOK, UnderWay, formVars
  <2>5. QED
    BY <2>3, <2>4 DEF FormInv
<1>12. QED
  BY <1>1, <1>2, <1>3, <1>4, <1>5, <1>6, <1>7, <1>8, <1>9, <1>10, <1>11 DEF FormNext

\* The form keeps to its types: an attachment over the limit is never held,
\* and only images are read for a preview (handleAttachmentChange).
THEOREM FormTyped == FormSpec => []FormTypeOK
<1>1. FormInv => FormTypeOK
  BY DEF FormInv
<1>2. QED
  BY FormInitInv, FormStepInv, <1>1, PTL DEF FormSpec

\* Whoever posts a receipt finds its attachment in this browser, whatever was
\* chosen, replaced or refused before (handlePostReceipt, cacheAttachment).
THEOREM AlwaysKeptBeforePosted == FormSpec => []KeptBeforePosted
<1>1. FormInv => KeptBeforePosted
  BY DEF FormInv
<1>2. QED
  BY FormInitInv, FormStepInv, <1>1, PTL DEF FormSpec

\* A receipt has the file and the amount of its click, and no click posts twice:
\* handlePostReceipt works on what it closed over, not on what the form holds
\* when the wallet answers.
THEOREM PostsAreAsClicked == FormSpec => PostedAsClicked
<1> DEFINE Posts == Len(receipts') > Len(receipts) /\ Last(receipts').own =>
                        /\ \E c \in clicked :
                               Last(receipts') = [file |-> c.file, amount |-> c.amount, own |-> TRUE]
                        /\ clicked' = {}
<1>1. FormInv /\ [FormNext]_receiptFormVars => [Posts]_receiptFormVars
  <2> SUFFICES ASSUME FormInv, FormNext
               PROVE  Posts
    OBVIOUS
  <2>0. receipts \in Seq(Receipt) /\ UnderWay
    BY DEF FormInv, FormTypeOK
  <2>1. CASE receipts' = receipts
    BY <2>0, <2>1
  <2>2. CASE Sent
    <3> DEFINE r == [file |-> post.file, amount |-> post.amount, own |-> TRUE]
    <3>1. receipts' = Append(receipts, r) /\ clicked' = {}
      BY <2>2 DEF Sent
    <3>2. r \in Receipt
      BY DEF FormInv, FormTypeOK, Receipt
    <3>3. Last(receipts') = r
      BY <2>0, <3>1, <3>2 DEF Last
    <3>4. \E c \in clicked : post.file = c.file /\ post.amount = c.amount
      BY <2>0, <2>2 DEF Sent, UnderWay
    <3> QED
      BY <3>1, <3>3, <3>4
  <2>3. ASSUME NEW a \in Amounts, PostsElsewhere(a)
        PROVE  Posts
    <3> DEFINE r == [file |-> NoFile, amount |-> a, own |-> FALSE]
    <3>1. receipts' = Append(receipts, r)
      BY <2>3 DEF PostsElsewhere
    <3>2. r \in Receipt
      BY DEF Receipt, MaybeFile
    <3>3. Last(receipts') = r
      BY <2>0, <3>1, <3>2 DEF Last
    <3> QED
      BY <3>3
  <2> QED
    BY <2>1, <2>2, <2>3 DEF FormNext, Choose, Detach, Previewed, Submit, Hashed, Read,
       Unreadable, NotSent, Refreshed, Listed
<1>2. QED
  BY FormInitInv, FormStepInv, <1>1, PTL DEF FormSpec, PostedAsClicked
=============================================================================

------------------------------ MODULE KycDesk ------------------------------
(***************************************************************************)
(* The KYC page over the pallet's records: a resident's browser, which     *)
(* changes accounts, reads the selected one's record and offers the form   *)
(* to file a request, and the city's, which lists the pending requests and *)
(* decides them.  Extrinsics enter blocks, and the node answers reads, in  *)
(* any order.  Both are off demo mode and connected (module ClientShell).  *)
(***************************************************************************)
EXTENDS Residency, Sequences, SequencesExt

CONSTANTS
    Applicants,    \* the accounts of the resident's wallet
    MaxSubmits, MaxDecisions, MaxFailures, MaxReads  \* bounds

VARIABLES
    selected,     \* the resident's account
    record,       \* useKycRecord's record, with the account it was read for
    recordError,  \* its error
    block,        \* useCurrentBlock
    filing,       \* handleSubmit: the request it sends, then its own read
    error,        \* the form's error
    reads,        \* the effect's reads of records that have not ended
    requests,     \* the desk's list: what it shows of each request
    deskReads,    \* the desk's reads that have not ended
    txs,          \* the desk's extrinsics that are not in a block
    decided,      \* history: decisions on each account's last request
    since,        \* history: the records each account has had since that request
    submits, decisions, failures  \* how often, for the bounds

readVars == <<record, recordError, reads>>
submitVars == <<filing, error>>
deskVars == <<requests, deskReads>>
historyVars == <<decided, since>>
countVars == <<submits, decisions, failures>>
kycPageVars == <<residencyVars, selected, block, submitVars, txs, readVars, deskVars,
                 historyVars, countVars>>

Request == [who : Account, ward : District]
Extrinsic == [call : {"approve", "reject"}, who : Account]
KycRead == [of : Account, done : BOOLEAN, is : KycRecord \cup {None}]
KycView == [of : Account, is : KycRecord]
Filing == [who : Account, ward : District, stage : {"sent", "included", "reading"},
           is : KycRecord \cup {None}]
DeskRead == [done : BOOLEAN, list : SUBSET Request]

ASSUME DeskAssumption ==
    /\ Applicants \subseteq Account
    /\ None \notin Filing /\ None \notin KycView
    /\ {MaxSubmits, MaxDecisions, MaxFailures, MaxReads} \subseteq Nat

\* The form's button is disabled while handleSubmit waits for something.
busy == filing # None

KycDeskTypeOK ==
    /\ ResidencyTypeOK
    /\ selected \in Applicants
    /\ record = None \/ record \in KycView
    /\ {recordError, error} \subseteq BOOLEAN
    /\ block # None => block \in 0 .. now - 1
    /\ busy => filing \in Filing
    /\ reads \in Seq(KycRead) /\ deskReads \in Seq(DeskRead)
    /\ requests \subseteq Request /\ txs \in Seq(Extrinsic)
    /\ decided \in [Account -> Nat]
    /\ since \in [Account -> SUBSET KycRecord]

ReadOf(a) == [of |-> a, done |-> FALSE, is |-> None]
Listing == [done |-> FALSE, list |-> {}]

KycDeskInit ==
    /\ ResidencyInit
    /\ selected \in Applicants
    /\ record = None /\ recordError = FALSE
    /\ reads = <<ReadOf(selected)>>
    /\ block = None /\ filing = None /\ error = FALSE
    /\ requests = {} /\ deskReads = <<Listing>> /\ txs = <<>>
    /\ decided = [a \in Account |-> 0]
    /\ since = [a \in Account |-> {}]
    /\ submits = 0 /\ decisions = 0 /\ failures = 0

\* Another account: its record is read, and the last one's stays until then.
Select(a) ==
    /\ a # selected
    /\ Len(reads) < MaxReads
    /\ selected' = a
    /\ reads' = Append(reads, ReadOf(a))
    /\ recordError' = FALSE
    /\ UNCHANGED <<residencyVars, record, block, submitVars, txs, deskVars,
                   historyVars, countVars>>

\* What the node says of an account when it reads its record.
Stored(a) == IF a \in DOMAIN kyc THEN kyc[a] ELSE None

NodeReads(i) ==
    /\ ~reads[i].done
    /\ reads' = [reads EXCEPT ![i] = [@ EXCEPT !.done = TRUE, !.is = Stored(reads[i].of)]]
    /\ UNCHANGED <<residencyVars, selected, record, recordError, block, submitVars,
                   txs, deskVars, historyVars, countVars>>

\* What is shown when a read for an account succeeds.
Shown(a, is) == IF is = None THEN None ELSE [of |-> a, is |-> is]

\* A read of the effect ends, in whichever order the answers come.
RecordRead(i) ==
    /\ reads[i].done
    /\ reads' = RemoveAt(reads, i)
    /\ record' = Shown(reads[i].of, reads[i].is)
    /\ UNCHANGED <<residencyVars, selected, recordError, block, submitVars, txs,
                   deskVars, historyVars, countVars>>

RecordFails(i) ==
    /\ failures < MaxFailures
    /\ failures' = failures + 1
    /\ reads' = RemoveAt(reads, i)
    /\ recordError' = TRUE
    /\ UNCHANGED <<residencyVars, selected, record, block, submitVars, txs,
                   deskVars, historyVars, submits, decisions>>

\* A header reaches the page: that of a block which is sealed, and only the
\* extrinsics of later ones can still be sent.
NewHead ==
    /\ \E n \in 0 .. now - 1 : (block # None => n > block) /\ block' = n
    /\ UNCHANGED <<residencyVars, selected, submitVars, txs, readVars, deskVars,
                   historyVars, countVars>>

\* Mutant of IsExpired: the page allows for the block that is being made, and
\* then counts the last one of the validity as expired.
IsExpiredEarly ==
    /\ record # None
    /\ record.is.status = "Verified"
    /\ record.is.expires_at # None /\ block # None
    /\ block + 1 >= record.is.expires_at

IsExpired ==
    /\ record # None
    /\ record.is.status = "Verified"
    /\ record.is.expires_at # None /\ block # None
    /\ block > record.is.expires_at

FormShown == record # None => record.is.status = "Rejected" \/ IsExpired

\* handleSubmit: the document is hashed and the request signed.
SubmitRequest(ward) ==
    /\ FormShown /\ ~busy
    /\ submits < MaxSubmits
    /\ submits' = submits + 1
    /\ filing' = [who |-> selected, ward |-> ward, stage |-> "sent", is |-> None]
    /\ error' = FALSE
    /\ UNCHANGED <<residencyVars, selected, block, txs, readVars, deskVars,
                   historyVars, decisions, failures>>

\* The request is in a block.
SubmissionIncluded ==
    /\ busy /\ filing.stage = "sent"
    /\ SubmitKyc(filing.who, filing.ward)
    /\ filing' = [filing EXCEPT !.stage = "included"]
    /\ decided' = [decided EXCEPT ![filing.who] = 0]
    /\ since' = [since EXCEPT ![filing.who] = {kyc'[filing.who]}]
    /\ UNCHANGED <<selected, block, error, txs, readVars, deskVars, countVars>>

\* The wallet or the node refuses it.
SubmissionRefused ==
    /\ busy /\ filing.stage = "sent"
    /\ filing' = None
    /\ error' = TRUE
    /\ UNCHANGED <<residencyVars, selected, block, txs, readVars, deskVars,
                   historyVars, countVars>>

\* Mutant of Notified: handleSubmit ends without reading the record.
NotifiedOnly ==
    /\ busy /\ filing.stage = "included"
    /\ filing' = None
    /\ recordError' = FALSE
    /\ UNCHANGED <<residencyVars, selected, record, reads, block, error, txs, deskVars,
                   historyVars, countVars>>

\* The page hears of it and reads the record of the account that it was sent
\* for, whichever is selected by now.
Notified ==
    /\ busy /\ filing.stage = "included"
    /\ filing' = [filing EXCEPT !.stage = "reading"]
    /\ recordError' = FALSE
    /\ UNCHANGED <<residencyVars, selected, record, reads, block, error, txs, deskVars,
                   historyVars, countVars>>

NodeReadsOwn ==
    /\ busy /\ filing.stage = "reading" /\ filing.is = None
    /\ filing' = [filing EXCEPT !.is = Stored(filing.who)]
    /\ UNCHANGED <<residencyVars, selected, block, error, txs, readVars, deskVars,
                   historyVars, countVars>>

\* The end of handleSubmit's read, and of handleSubmit.
OwnRead ==
    /\ busy /\ filing.is # None
    /\ record' = Shown(filing.who, filing.is)
    /\ filing' = None
    /\ UNCHANGED <<residencyVars, selected, recordError, reads, block, error, txs,
                   deskVars, historyVars, countVars>>

OwnFails ==
    /\ busy /\ filing.stage = "reading"
    /\ failures < MaxFailures
    /\ failures' = failures + 1
    /\ recordError' = TRUE
    /\ filing' = None
    /\ UNCHANGED <<residencyVars, selected, record, reads, block, error, txs, deskVars,
                   historyVars, submits, decisions>>

\* The node lists the pending requests for a read of the desk.
NodeLists(i) ==
    /\ ~deskReads[i].done
    /\ deskReads' = [deskReads EXCEPT ![i] =
           [done |-> TRUE,
            list |-> {[who |-> a, ward |-> kyc[a].ward] :
                          a \in {b \in DOMAIN kyc : kyc[b].status = "Pending"}}]]
    /\ UNCHANGED <<residencyVars, selected, block, submitVars, txs, readVars, requests,
                   historyVars, countVars>>

\* The answer reaches the desk; or the read fails and the list stays.
DeskListed(i) ==
    /\ deskReads[i].done
    /\ deskReads' = RemoveAt(deskReads, i)
    /\ requests' \in {deskReads[i].list, requests}
    /\ UNCHANGED <<residencyVars, selected, block, submitVars, txs, readVars,
                   historyVars, countVars>>

\* Its buttons, which nothing greys out while a decision is under way.
Decide(request, call) ==
    /\ decisions < MaxDecisions
    /\ decisions' = decisions + 1
    /\ txs' = Append(txs, [call |-> call, who |-> request.who])
    /\ UNCHANGED <<residencyVars, selected, block, submitVars, readVars, deskVars,
                   historyVars, submits, failures>>

\* A decision is in a block; if the pallet refuses it the list is not read.
DecisionIncluded(i) ==
    LET who == txs[i].who
    IN  /\ txs' = RemoveAt(txs, i)
        /\ IF Reviewable(who)
           THEN /\ IF txs[i].call = "approve" THEN ApproveKyc(who) ELSE RejectKyc(who)
                /\ decided' = [decided EXCEPT ![who] = @ + 1]
                /\ since' = [since EXCEPT ![who] = @ \cup {kyc'[who]}]
                /\ deskReads' = Append(deskReads, Listing)
           ELSE UNCHANGED <<residencyVars, historyVars, deskReads>>
        /\ UNCHANGED <<selected, block, submitVars, readVars, requests, countVars>>

\* The wallet or the node refuses it.
DecisionRefused(i) ==
    /\ txs' = RemoveAt(txs, i)
    /\ UNCHANGED <<residencyVars, selected, block, submitVars, readVars, deskVars,
                   historyVars, countVars>>

BlockTick ==
    /\ Tick
    /\ UNCHANGED <<selected, block, submitVars, txs, readVars, deskVars,
                   historyVars, countVars>>

KycDeskNext ==
    \/ \E a \in Applicants : Select(a)
    \/ \E i \in DOMAIN reads : NodeReads(i) \/ RecordRead(i) \/ RecordFails(i)
    \/ NewHead \/ BlockTick
    \/ \E ward \in District : SubmitRequest(ward)
    \/ SubmissionIncluded \/ SubmissionRefused \/ Notified
    \/ NodeReadsOwn \/ OwnRead \/ OwnFails
    \/ \E i \in DOMAIN deskReads : NodeLists(i) \/ DeskListed(i)
    \/ \E request \in requests, call \in {"approve", "reject"} : Decide(request, call)
    \/ \E i \in DOMAIN txs : DecisionIncluded(i) \/ DecisionRefused(i)

KycDeskSpec == KycDeskInit /\ [][KycDeskNext]_kycPageVars
-----------------------------------------------------------------------------
\* A request is decided once, however often the desk's buttons are clicked and
\* however old its list is: of an approval and a rejection that were both
\* sent, the one that is in a block first counts.
OneDecisionPerRequest == \A a \in Account : decided[a] <= 1

\* When the form comes back after a submission, and nothing has failed, the
\* page shows the record that the submission made, or one that the desk has
\* made of it since, through any changes of account, other reads and blocks:
\* never what the account had before.
SubmissionShown ==
    [][busy /\ ~busy' /\ ~error' /\ ~recordError' =>
           /\ record' # None
           /\ record'.of = filing.who /\ record'.is.ward = filing.ward
           /\ record'.is \in since[filing.who]]_kycPageVars

\* Page and pallet agree on the end of a verification as well as headers allow:
\* with the record up to date the page never says "expired" of what vote takes,
\* and with the last header it says so at most one block late.
ExpiryAgrees ==
    record # None /\ record.of \in DOMAIN kyc /\ record.is = kyc[record.of]
        /\ record.is.status = "Verified"
    => /\ IsExpired => ~ResidentOf(record.of, record.is.ward)
       /\ block = now - 1 /\ ~IsExpired => now <= record.is.expires_at + 1
=============================================================================

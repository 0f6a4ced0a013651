----------------------------- MODULE Residency -----------------------------
(***************************************************************************)
(* Identity verification: the block clock and each account's KYC record.   *)
(* A record names the declared ward; the document's type and hash, and the *)
(* texts, are left out.                                                    *)
(***************************************************************************)
EXTENDS Frame

CONSTANTS
    District,           \* the wards a resident can live in
    Citywide,           \* Ward::Citywide
    KycValidityPeriod,  \* Config::KycValidityPeriod, in blocks
    MaxBlock,           \* bound on the block number
    MaxReviews          \* bound on the approvals of one account's requests

Ward == District \cup {Citywide}

ASSUME ResidencyAssumption ==
    /\ Citywide \notin District
    /\ KycValidityPeriod \in Nat
    /\ MaxBlock \in Nat
    /\ MaxReviews \in Nat

VARIABLES
    now,       \* frame_system's block number
    kyc,       \* KycRecords: account -> its record
    approvals  \* history: how often an account's request was approved

residencyVars == <<now, kyc, approvals>>

KycStatus == {"Pending", "Verified", "Rejected"}

KycRecord ==
    [ward : Ward, status : KycStatus, verified_at : Nat \cup {None},
     expires_at : Nat \cup {None}]

ResidencyInit ==
    /\ now = 0
    /\ kyc = EmptyMap
    /\ approvals = [a \in Account |-> 0]

\* A block is produced; the calls between two ticks are its extrinsics.
Tick ==
    /\ now < MaxBlock
    /\ now' = now + 1
    /\ UNCHANGED <<kyc, approvals>>

\* Mutant of SubmitKyc: a resubmission edits the ward of the record it finds.
SubmitKycEditsWard(who, ward) ==
    /\ kyc' = IF who \in DOMAIN kyc
              THEN [kyc EXCEPT ![who].ward = ward]
              ELSE Put(kyc, who, [ward |-> ward, status |-> "Pending",
                                  verified_at |-> None, expires_at |-> None])
    /\ UNCHANGED <<now, approvals>>

SubmitKyc(who, ward) ==
    /\ kyc' = Put(kyc, who, [ward |-> ward, status |-> "Pending",
                             verified_at |-> None, expires_at |-> None])
    /\ UNCHANGED <<now, approvals>>

\* Mutant of Reviewable: a request can be decided again.
ReviewableAgain(who) == who \in DOMAIN kyc

\* set_kyc_status up to its branch on approve.
Reviewable(who) == who \in DOMAIN kyc /\ kyc[who].status = "Pending"

ApproveKyc(who) ==
    /\ approvals[who] < MaxReviews
    /\ Reviewable(who)
    /\ kyc' = Put(kyc, who, [ward |-> kyc[who].ward, status |-> "Verified",
                             verified_at |-> now,
                             expires_at |-> now + KycValidityPeriod])
    /\ approvals' = [approvals EXCEPT ![who] = @ + 1]
    /\ UNCHANGED now

RejectKyc(who) ==
    /\ Reviewable(who)
    /\ kyc' = Put(kyc, who, [ward |-> kyc[who].ward, status |-> "Rejected",
                             verified_at |-> None, expires_at |-> None])
    /\ UNCHANGED <<now, approvals>>

\* The residency test of vote: a verified, unexpired record for this ward.
ResidentOf(who, ward) ==
    /\ who \in DOMAIN kyc
    /\ kyc[who].status = "Verified"
    /\ kyc[who].ward = ward
    /\ kyc[who].expires_at # None => now <= kyc[who].expires_at
----------------------------------------------------------------------------
ResidencyTypeOK ==
    /\ now \in Nat
    /\ IsMap(kyc, Account, KycRecord)
    /\ approvals \in [Account -> Nat]

\* A record carries the two blocks of its approval exactly while it is
\* verified, one validity period apart and never in the future: neither a
\* rejection nor a resubmission leaves an old approval's dates behind.
ApprovalDated ==
    \A a \in DOMAIN kyc :
        IF kyc[a].status = "Verified"
        THEN /\ kyc[a].verified_at # None
             /\ kyc[a].verified_at <= now
             /\ kyc[a].expires_at = kyc[a].verified_at + KycValidityPeriod
        ELSE kyc[a].verified_at = None /\ kyc[a].expires_at = None
============================================================================

--------------------------- MODULE VendorDaoTypes ---------------------------
(***************************************************************************)
(* What every step keeps of the pallet's records, for every value of the   *)
(* constants.  Types; the terms of a proposal (whom it pays, how much, for *)
(* which ward and under which RFP), which are settled when it is           *)
(* submitted; and the ids under which records are stored, which are handed *)
(* out densely, so that no record is ever written over another.            *)
(***************************************************************************)
EXTENDS VendorDao, MapLemmas

\* Every state the pallet starts from is well-typed.
LEMMA InitType == Init => TypeOK
<1> SUFFICES ASSUME Init PROVE TypeOK
  OBVIOUS
<1>1. TreasuryTypeOK
  BY EmptyMapType, BalancesAssumption
     DEF Init, TreasuryInit, BalancesInit, TreasuryTypeOK, BalancesTypeOK, Holder
<1>2. ResidencyTypeOK
  BY EmptyMapType DEF Init, ResidencyInit, ResidencyTypeOK
<1>3. RegistryTypeOK
  BY EmptyMapType DEF Init, RegistryInit, RegistryTypeOK
<1>4. ProposalsTypeOK
  BY EmptyMapType DEF Init, ProposalsInit, ProposalsTypeOK
<1>5. /\ IsMap(receiptCount, ProposalId, Nat)
      /\ IsMap(receipts, ProposalId \X ReceiptId, Receipt)
      /\ IsMap(updateCount, Account, Nat)
      /\ IsMap(updates, Account \X UpdateId, ProposalId \cup {None})
  BY EmptyMapType DEF Init
<1> QED
  BY <1>1, <1>2, <1>3, <1>4, <1>5 DEF TypeOK

\* A transfer keeps the balances well-typed.
LEMMA MoveType ==
    ASSUME BalancesTypeOK, NEW from \in Holder, NEW to \in Holder, from # to,
           NEW amount \in Nat, CanTransfer(from, to, amount), Move(from, to, amount)
    PROVE  BalancesTypeOK'
<1>1. ExistentialDeposit \in Nat
  BY BalancesAssumption
<1>2. /\ balance[from] \in Nat /\ balance[to] \in Nat
      /\ balance[from] - amount \in Nat
  BY DEF BalancesTypeOK, CanTransfer
<1>3. Kept(balance[from] - amount) \in Nat /\ Kept(balance[from] - amount) <= balance[from] - amount
  BY <1>1, <1>2 DEF Kept
<1>4. balance' \in [Holder -> Nat]
  BY <1>2, <1>3 DEF Move, BalancesTypeOK
<1>5. potDust' \in Nat
  BY <1>2, <1>3 DEF Move, BalancesTypeOK
<1> QED
  BY <1>4, <1>5 DEF Move, BalancesTypeOK

\* Assigning well-typed values to fields of one record of a map.
LEMMA MutateStatus ==
    ASSUME NEW K, NEW f \in [K -> Proposal], NEW k \in K, NEW s \in ProposalStatus
    PROVE  [f EXCEPT ![k].status = s] \in [K -> Proposal]
BY DEF Proposal

LEMMA MutateDeadline ==
    ASSUME NEW K, NEW f \in [K -> Proposal], NEW k \in K, NEW s \in ProposalStatus,
           NEW e \in Nat
    PROVE  [f EXCEPT ![k].status = s, ![k].voting_end = e] \in [K -> Proposal]
BY DEF Proposal

\* The money calls keep the treasury well-typed.
LEMMA ContributeType ==
    ASSUME TreasuryTypeOK, NEW from \in Account, NEW amount \in Nat,
           Contribute(from, amount)
    PROVE  BalancesTypeOK' /\ totalReceived' \in Nat
<1>1. BalancesTypeOK'
  BY MoveType, BalancesAssumption DEF Contribute, TreasuryTypeOK, Holder
<1> QED
  BY <1>1 DEF Contribute, TreasuryTypeOK

LEMMA SubmitGrantType ==
    ASSUME TreasuryTypeOK, NEW donor \in Account, NEW amount \in Nat,
           SubmitGrant(donor, amount)
    PROVE  TreasuryTypeOK'
<1>1. BalancesTypeOK' /\ totalReceived' \in Nat
  BY ContributeType DEF SubmitGrant
<1>2. IsMap(grants', GrantId, Grant) /\ grantCount' \in Nat
  <2>1. grantCount \in GrantId /\ [donor |-> donor, amount |-> amount] \in Grant
    BY DEF TreasuryTypeOK, Grant, GrantId
  <2>2. IsMap(grants, GrantId, Grant)
    BY DEF TreasuryTypeOK
  <2>3. IsMap(Put(grants, grantCount, [donor |-> donor, amount |-> amount]), GrantId, Grant)
    BY <2>1, <2>2, PutMap
  <2> QED
    BY <2>3 DEF SubmitGrant, TreasuryTypeOK
<1>3. IsMap(donors', Account, DonorInfo)
  <2>1. /\ donor \in DOMAIN donors /\ donors \in [DOMAIN donors -> DonorInfo]
        /\ DOMAIN donors \subseteq Account
    BY DEF SubmitGrant, TreasuryTypeOK, IsMap
  <2>2. WithGrant(donors[donor], amount) \in DonorInfo
    BY <2>1 DEF DonorInfo, WithGrant
  <2> QED
    BY <2>1, <2>2, MutateMap DEF SubmitGrant, TreasuryTypeOK
<1> QED
  BY <1>1, <1>2, <1>3 DEF SubmitGrant, TreasuryTypeOK

LEMMA MoneyStepType == TypeOK /\ MoneyStep => TreasuryTypeOK'
<1> SUFFICES ASSUME TypeOK, MoneyStep PROVE TreasuryTypeOK'
  OBVIOUS
<1> USE DEF TypeOK
<1>1. ASSUME NEW a \in Contributor, NEW x \in Contributions, FundTreasury(a, x)
      PROVE  TreasuryTypeOK'
  <2>1. a \in Account /\ x \in Nat
    BY TreasuryAssumption, VendorDaoAssumption
  <2> QED
    BY <1>1, <2>1, ContributeType DEF FundTreasury, TreasuryTypeOK
<1>2. ASSUME NEW a \in Contributor, RegisterDonor(a)
      PROVE  TreasuryTypeOK'
  <2>1. a \in Account /\ [total_contributed |-> 0, grants_made |-> 0] \in DonorInfo
    BY VendorDaoAssumption DEF DonorInfo
  <2>2. IsMap(donors', Account, DonorInfo)
    BY <1>2, <2>1, PutMap DEF RegisterDonor, TreasuryTypeOK
  <2> QED
    BY <1>2, <2>2 DEF RegisterDonor, TreasuryTypeOK, BalancesTypeOK
<1>3. ASSUME NEW a \in Contributor, NEW x \in Contributions, SubmitGrant(a, x)
      PROVE  TreasuryTypeOK'
  <2>1. a \in Account /\ x \in Nat
    BY TreasuryAssumption, VendorDaoAssumption
  <2> QED
    BY <1>3, <2>1, SubmitGrantType
<1>4. ASSUME NEW h \in Holder, NEW x \in Mints, StakeMint(h, x)
      PROVE  TreasuryTypeOK'
  <2>1. x \in Nat /\ ToPot(h, x) \in Nat
    BY TreasuryAssumption DEF ToPot
  <2>2. BalancesTypeOK'
    BY <1>4, <2>1 DEF StakeMint, MintInto, TreasuryTypeOK, BalancesTypeOK
  <2> QED
    BY <1>4, <2>1, <2>2 DEF StakeMint, TreasuryTypeOK
<1>5. ASSUME NEW a \in Contributor, NEW h \in Holder, NEW x \in Transfers,
             PlainTransfer(a, h, x)
      PROVE  TreasuryTypeOK'
  <2>1. a \in Holder /\ x \in Nat /\ ToPot(h, x) \in Nat
    BY TreasuryAssumption, VendorDaoAssumption DEF ToPot, Holder
  <2>2. BalancesTypeOK'
    BY <1>5, <2>1, MoveType DEF PlainTransfer, TreasuryTypeOK
  <2> QED
    BY <1>5, <2>1, <2>2 DEF PlainTransfer, TreasuryTypeOK
<1> QED
  BY <1>1, <1>2, <1>3, <1>4, <1>5 DEF MoneyStep

\* The clock and the KYC calls keep the residency records well-typed.
LEMMA ResidencyStepType == TypeOK /\ ResidencyStep => ResidencyTypeOK'
<1> SUFFICES ASSUME TypeOK, ResidencyStep PROVE ResidencyTypeOK'
  OBVIOUS
<1> USE DEF TypeOK
<1>1. CASE Tick
  BY <1>1 DEF Tick, ResidencyTypeOK
<1>2. ASSUME NEW a \in Resident, NEW w \in Ward, SubmitKyc(a, w)
      PROVE  ResidencyTypeOK'
  <2>1. a \in Account
    BY VendorDaoAssumption
  <2>2. [ward |-> w, status |-> "Pending", verified_at |-> None,
         expires_at |-> None] \in KycRecord
    BY DEF KycRecord, KycStatus
  <2> QED
    BY <1>2, <2>1, <2>2, PutMap DEF SubmitKyc, ResidencyTypeOK
<1>3. ASSUME NEW a \in Resident, ApproveKyc(a)
      PROVE  ResidencyTypeOK'
  <2>1. a \in Account /\ kyc[a] \in KycRecord
    BY <1>3, MapValue DEF ApproveKyc, Reviewable, ResidencyTypeOK
  <2>2. [ward |-> kyc[a].ward, status |-> "Verified", verified_at |-> now,
         expires_at |-> now + KycValidityPeriod] \in KycRecord
    BY <2>1, ResidencyAssumption DEF KycRecord, KycStatus, ResidencyTypeOK
  <2>3. IsMap(kyc', Account, KycRecord)
    BY <1>3, <2>1, <2>2, PutMap DEF ApproveKyc, ResidencyTypeOK
  <2> QED
    BY <1>3, <2>1, <2>3 DEF ApproveKyc, ResidencyTypeOK
<1>4. ASSUME NEW a \in Resident, RejectKyc(a)
      PROVE  ResidencyTypeOK'
  <2>1. a \in Account /\ kyc[a] \in KycRecord
    BY <1>4, MapValue DEF RejectKyc, Reviewable, ResidencyTypeOK
  <2>2. [ward |-> kyc[a].ward, status |-> "Rejected", verified_at |-> None,
         expires_at |-> None] \in KycRecord
    BY <2>1 DEF KycRecord, KycStatus
  <2>3. IsMap(kyc', Account, KycRecord)
    BY <1>4, <2>1, <2>2, PutMap DEF RejectKyc, ResidencyTypeOK
  <2> QED
    BY <1>4, <2>3 DEF RejectKyc, ResidencyTypeOK
<1> QED
  BY <1>1, <1>2, <1>3, <1>4 DEF ResidencyStep

\* The registry calls keep the vendors well-typed.
LEMMA RegistryStepType == TypeOK /\ RegistryStep => RegistryTypeOK'
<1> SUFFICES ASSUME TypeOK, RegistryStep PROVE RegistryTypeOK'
  OBVIOUS
<1> USE DEF TypeOK
<1>1. ASSUME NEW a \in Candidate, NEW p \in Profile, RegisterVendor(a, p)
      PROVE  RegistryTypeOK'
  <2>1. a \in Account
    BY VendorDaoAssumption
  <2>2. [profile |-> p, verified |-> FALSE, total_received |-> 0,
         proposals_funded |-> 0] \in VendorInfo
    BY DEF VendorInfo
  <2> QED
    BY <1>1, <2>1, <2>2, PutMap DEF RegisterVendor, RegistryTypeOK
<1>2. ASSUME NEW a \in Candidate, NEW p \in Profile, UpdateVendorProfile(a, p)
      PROVE  RegistryTypeOK'
  <2>1. a \in DOMAIN vendors /\ vendors[a] \in VendorInfo
    BY <1>2, MapValue DEF UpdateVendorProfile, RegistryTypeOK
  <2>2. [vendors[a] EXCEPT !.profile = p] \in VendorInfo
    BY <2>1 DEF VendorInfo
  <2> QED
    BY <1>2, <2>1, <2>2, MutateMap DEF UpdateVendorProfile, RegistryTypeOK
<1>3. ASSUME NEW a \in Candidate, NEW b \in BOOLEAN, SetVendorVerified(a, b)
      PROVE  RegistryTypeOK'
  <2>1. a \in DOMAIN vendors /\ vendors[a] \in VendorInfo
    BY <1>3, MapValue DEF SetVendorVerified, RegistryTypeOK
  <2>2. [vendors[a] EXCEPT !.verified = b] \in VendorInfo
    BY <2>1 DEF VendorInfo
  <2> QED
    BY <1>3, <2>1, <2>2, MutateMap DEF SetVendorVerified, RegistryTypeOK
<1> QED
  BY <1>1, <1>2, <1>3 DEF RegistryStep

\* The records the proposal calls insert.
LEMMA NewRfpType ==
    ASSUME NEW w \in Ward, NEW x \in Nat
    PROVE  [ward |-> w, max_amount |-> x, status |-> "Open"] \in Rfp
BY DEF Rfp

LEMMA NewProposalType ==
    ASSUME NEW a \in Account, NEW v \in Account, NEW x \in Nat, NEW w \in Ward,
           NEW r \in RfpId \cup {None}, NEW e \in Nat
    PROVE  [proposer |-> a, vendor |-> v, amount |-> x, status |-> "PendingReview",
            ayes |-> 0, nays |-> 0, voting_end |-> e, ward |-> w, rfp_id |-> r]
              \in Proposal
BY DEF Proposal, ProposalStatus

\* try_disburse keeps the pot, the vendors and the proposals well-typed.
LEMMA SettleType ==
    ASSUME TypeOK, NEW id \in DOMAIN proposals, Settle(id, proposals[id])
    PROVE  /\ TreasuryTypeOK' /\ RegistryTypeOK'
           /\ IsMap(proposals', ProposalId, Proposal)
<1> DEFINE v == proposals[id].vendor
           x == proposals[id].amount
<1>1. /\ proposals \in [DOMAIN proposals -> Proposal]
      /\ DOMAIN proposals \subseteq ProposalId
      /\ v \in Account /\ x \in Nat
  BY DEF TypeOK, ProposalsTypeOK, IsMap, Proposal
<1>2. IsMap(proposals', ProposalId, Proposal)
  <2>1. "Funded" \in ProposalStatus /\ "Approved" \in ProposalStatus
    BY DEF ProposalStatus
  <2>2. proposals' \in [DOMAIN proposals -> Proposal]
    BY <1>1, <2>1, MutateStatus DEF Settle
  <2> QED
    BY <1>1, <2>2 DEF IsMap
<1>3. CASE CanPay(v, x)
  <2>1. PayOut(v, x) /\ CreditVendor(v, x)
    BY <1>3 DEF Settle
  <2>2. BalancesTypeOK'
    BY <1>1, <1>3, <2>1, MoveType, BalancesAssumption
       DEF CanPay, PayOut, TypeOK, TreasuryTypeOK, Holder
  <2>3. TreasuryTypeOK'
    BY <1>1, <2>1, <2>2 DEF PayOut, TypeOK, TreasuryTypeOK
  <2>4. RegistryTypeOK'
    <3>1. CASE v \in DOMAIN vendors
      <4>1. vendors[v] \in VendorInfo
        BY <3>1, MapValue DEF TypeOK, RegistryTypeOK
      <4>2. WithPayout(vendors[v], x) \in VendorInfo
        BY <1>1, <4>1 DEF WithPayout, VendorInfo
      <4> QED
        BY <2>1, <3>1, <4>2, MutateMap DEF CreditVendor, TypeOK, RegistryTypeOK
    <3>2. CASE v \notin DOMAIN vendors
      BY <2>1, <3>2 DEF CreditVendor, TypeOK, RegistryTypeOK
    <3> QED
      BY <3>1, <3>2
  <2> QED
    BY <1>2, <2>3, <2>4
<1>4. CASE ~CanPay(v, x)
  <2>1. UNCHANGED <<treasuryVars, vendors>>
    BY <1>4 DEF Settle
  <2> QED
    BY <1>2, <2>1 DEF TypeOK, TreasuryTypeOK, BalancesTypeOK, RegistryTypeOK, treasuryVars
<1> QED
  BY <1>3, <1>4

\* A vote keeps proposals and vote records well-typed.
LEMMA CountType ==
    ASSUME TypeOK, NEW a \in Account, NEW id \in DOMAIN proposals, NEW b \in BOOLEAN,
           Count(a, id, b)
    PROVE  ProposalsTypeOK'
<1>1. /\ proposals \in [DOMAIN proposals -> Proposal]
      /\ DOMAIN proposals \subseteq ProposalId
      /\ proposals[id] \in Proposal
  BY DEF TypeOK, ProposalsTypeOK, IsMap
<1>2. /\ proposals[id].ayes + 1 \in Nat /\ proposals[id].nays + 1 \in Nat
      /\ proposals[id].ward \in Ward
  BY <1>1 DEF Proposal
<1>3. IsMap(proposals', ProposalId, Proposal)
  <2>1. CASE b
    <3>1. proposals' = [proposals EXCEPT ![id].ayes = proposals[id].ayes + 1]
      BY <2>1 DEF Count
    <3> QED
      BY <1>1, <1>2, <3>1 DEF IsMap, Proposal
  <2>2. CASE ~b
    <3>1. proposals' = [proposals EXCEPT ![id].nays = proposals[id].nays + 1]
      BY <2>2 DEF Count
    <3> QED
      BY <1>1, <1>2, <3>1 DEF IsMap, Proposal
  <2> QED
    BY <2>1, <2>2
<1>4. IsMap(voteOf', ProposalId \X Account, BOOLEAN)
  BY <1>1, PutMap DEF Count, TypeOK, ProposalsTypeOK
<1>5. wardBallots' \subseteq WardBallot
  <2>1. approvals[a] \in Nat
    BY DEF TypeOK, ResidencyTypeOK
  <2> QED
    BY <1>2, <2>1 DEF Count, TypeOK, ProposalsTypeOK, WardBallot, Ward
<1> QED
  BY <1>3, <1>4, <1>5 DEF Count, TypeOK, ProposalsTypeOK, rfpVars

LEMMA ProposalStepType ==
    TypeOK /\ ProposalStep => TreasuryTypeOK' /\ RegistryTypeOK' /\ ProposalsTypeOK'
<1> SUFFICES ASSUME TypeOK, ProposalStep
             PROVE  TreasuryTypeOK' /\ RegistryTypeOK' /\ ProposalsTypeOK'
  OBVIOUS
<1>0. /\ proposals \in [DOMAIN proposals -> Proposal]
      /\ DOMAIN proposals \subseteq ProposalId
      /\ ProposalStatus = {"PendingReview", "Proposed", "Approved", "Rejected",
                           "Funded", "Cancelled", "Vetoed"}
  BY DEF TypeOK, ProposalsTypeOK, IsMap, ProposalStatus
<1>a. ASSUME UNCHANGED treasuryVars PROVE TreasuryTypeOK'
  BY <1>a DEF TypeOK, TreasuryTypeOK, BalancesTypeOK, treasuryVars
<1>b. ASSUME UNCHANGED vendors PROVE RegistryTypeOK'
  BY <1>b DEF TypeOK, RegistryTypeOK
<1>c. ASSUME UNCHANGED <<rfpVars, proposalCount, voteOf, wardBallots>>,
             IsMap(proposals', ProposalId, Proposal)
      PROVE  ProposalsTypeOK'
  BY <1>c DEF TypeOK, ProposalsTypeOK, rfpVars
<1>1. ASSUME NEW w \in Ward, NEW x \in Amounts, PostRfp(w, x)
      PROVE  TreasuryTypeOK' /\ RegistryTypeOK' /\ ProposalsTypeOK'
  <2>1. x \in Nat /\ rfpCount \in RfpId
    BY ProposalsAssumption DEF TypeOK, ProposalsTypeOK, RfpId
  <2>2. IsMap(rfps', RfpId, Rfp)
    BY <1>1, <2>1, PutMap, NewRfpType DEF PostRfp, TypeOK, ProposalsTypeOK
  <2>3. ProposalsTypeOK'
    BY <1>1, <2>1, <2>2 DEF PostRfp, TypeOK, ProposalsTypeOK, ballotVars, RfpId
  <2> QED
    BY <1>1, <1>a, <1>b, <2>3 DEF PostRfp
<1>2. ASSUME NEW id \in DOMAIN rfps, CloseRfp(id)
      PROVE  TreasuryTypeOK' /\ RegistryTypeOK' /\ ProposalsTypeOK'
  <2>1. rfps \in [DOMAIN rfps -> Rfp] /\ DOMAIN rfps \subseteq RfpId
    BY DEF TypeOK, ProposalsTypeOK, IsMap
  <2>2. rfps' \in [DOMAIN rfps -> Rfp]
    BY <1>2, <2>1 DEF CloseRfp, Rfp
  <2>3. ProposalsTypeOK'
    BY <1>2, <2>1, <2>2 DEF CloseRfp, TypeOK, ProposalsTypeOK, ballotVars, IsMap
  <2> QED
    BY <1>2, <1>a, <1>b, <2>3 DEF CloseRfp
<1>3. ASSUME NEW a \in Proposer, NEW v \in Candidate, NEW x \in Amounts, NEW w \in Ward,
             NEW r \in DOMAIN rfps \cup {None}, SubmitProposal(a, v, x, w, r)
      PROVE  TreasuryTypeOK' /\ RegistryTypeOK' /\ ProposalsTypeOK'
  <2>1. /\ a \in Account /\ v \in Account /\ x \in Nat /\ now \in Nat
        /\ r \in RfpId \cup {None} /\ proposalCount \in ProposalId
    BY ProposalsAssumption, VendorDaoAssumption
       DEF TypeOK, ProposalsTypeOK, ResidencyTypeOK, IsMap, ProposalId
  <2>2. IsMap(proposals', ProposalId, Proposal)
    BY <1>3, <2>1, PutMap, NewProposalType DEF SubmitProposal, TypeOK, ProposalsTypeOK
  <2>3. ProposalsTypeOK'
    BY <1>3, <2>1, <2>2 DEF SubmitProposal, TypeOK, ProposalsTypeOK, rfpVars, ProposalId
  <2> QED
    BY <1>3, <1>a, <1>b, <2>3 DEF SubmitProposal
<1>4. ASSUME NEW id \in DOMAIN proposals, NEW b \in BOOLEAN, VetProposal(id, b)
      PROVE  TreasuryTypeOK' /\ RegistryTypeOK' /\ ProposalsTypeOK'
  <2>1. now + VotingPeriod \in Nat
    BY ProposalsAssumption DEF TypeOK, ResidencyTypeOK
  <2>2. CASE b
    <3> DEFINE e == now + VotingPeriod
    <3>1. proposals' = [proposals EXCEPT ![id].status = "Proposed", ![id].voting_end = e]
      BY <1>4, <2>2 DEF VetProposal
    <3>2. e \in Nat
      BY <2>1
    <3> HIDE DEF e
    <3>3. proposals' \in [DOMAIN proposals -> Proposal]
      BY <1>0, <3>1, <3>2, MutateDeadline
    <3>4. ProposalsTypeOK'
      BY <1>0, <1>4, <3>3, <1>c DEF VetProposal, IsMap
    <3> QED
      BY <1>4, <1>a, <1>b, <3>4 DEF VetProposal
  <2>3. CASE ~b
    <3>1. proposals' \in [DOMAIN proposals -> Proposal]
      BY <1>0, <1>4, <2>3, MutateStatus DEF VetProposal
    <3>2. ProposalsTypeOK'
      BY <1>0, <1>4, <3>1, <1>c DEF VetProposal, IsMap
    <3> QED
      BY <1>4, <1>a, <1>b, <3>2 DEF VetProposal
  <2> QED
    BY <2>2, <2>3
<1>5. ASSUME NEW a \in Voter, NEW id \in DOMAIN proposals, NEW b \in BOOLEAN, Vote(a, id, b)
      PROVE  TreasuryTypeOK' /\ RegistryTypeOK' /\ ProposalsTypeOK'
  <2>1. a \in Account /\ Count(a, id, b)
    BY <1>5, VendorDaoAssumption DEF Vote
  <2> QED
    BY <2>1, <1>a, <1>b, CountType DEF Count
<1>6. ASSUME NEW id \in DOMAIN proposals, CloseProposal(id)
      PROVE  TreasuryTypeOK' /\ RegistryTypeOK' /\ ProposalsTypeOK'
  <2>1. CASE Passes(proposals[id].ayes, proposals[id].nays)
    BY <1>6, <2>1, <1>c, SettleType DEF CloseProposal
  <2>2. CASE ~Passes(proposals[id].ayes, proposals[id].nays)
    <3>0. proposals' = [proposals EXCEPT ![id].status = "Rejected"]
      BY <1>6, <2>2 DEF CloseProposal
    <3>1. proposals' \in [DOMAIN proposals -> Proposal]
      BY <1>0, <3>0, MutateStatus
    <3>2. ProposalsTypeOK'
      BY <1>0, <1>6, <3>1, <1>c DEF CloseProposal, IsMap
    <3> QED
      BY <1>6, <2>2, <1>a, <1>b, <3>2 DEF CloseProposal
  <2> QED
    BY <2>1, <2>2
<1>7. ASSUME NEW id \in DOMAIN proposals, Disburse(id)
      PROVE  TreasuryTypeOK' /\ RegistryTypeOK' /\ ProposalsTypeOK'
  BY <1>7, <1>c, SettleType DEF Disburse
<1>8. ASSUME NEW a \in Proposer, NEW id \in DOMAIN proposals, CancelProposal(a, id)
      PROVE  TreasuryTypeOK' /\ RegistryTypeOK' /\ ProposalsTypeOK'
  <2>1. proposals' \in [DOMAIN proposals -> Proposal]
    BY <1>0, <1>8, MutateStatus DEF CancelProposal
  <2>2. ProposalsTypeOK'
    BY <1>0, <1>8, <2>1, <1>c DEF CancelProposal, IsMap
  <2> QED
    BY <1>8, <1>a, <1>b, <2>2 DEF CancelProposal
<1> QED
  BY <1>1, <1>2, <1>3, <1>4, <1>5, <1>6, <1>7, <1>8 DEF ProposalStep

\* The vendor's accounting calls keep receipts and updates well-typed.
LEMMA AccountingStepType ==
    TypeOK /\ AccountingStep =>
        /\ IsMap(receiptCount', ProposalId, Nat)
        /\ IsMap(receipts', ProposalId \X ReceiptId, Receipt)
        /\ IsMap(updateCount', Account, Nat)
        /\ IsMap(updates', Account \X UpdateId, ProposalId \cup {None})
<1> DEFINE Goal ==
        /\ IsMap(receiptCount', ProposalId, Nat)
        /\ IsMap(receipts', ProposalId \X ReceiptId, Receipt)
        /\ IsMap(updateCount', Account, Nat)
        /\ IsMap(updates', Account \X UpdateId, ProposalId \cup {None})
<1> SUFFICES ASSUME TypeOK, AccountingStep PROVE Goal
  OBVIOUS
<1>0. ASSUME NEW K, NEW c, IsMap(c, K, Nat), NEW k \in K PROVE CountAt(c, k) \in Nat
  BY <1>0 DEF CountAt, IsMap
<1>1. ASSUME NEW a \in Candidate, NEW id \in DOMAIN proposals, NEW x \in ReceiptAmounts,
             PostSpendingReceipt(a, id, x)
      PROVE  Goal
  <2> DEFINE n == CountAt(receiptCount, id)
  <2>1. id \in ProposalId /\ [vendor |-> a, amount |-> x] \in Receipt
    BY VendorDaoAssumption DEF TypeOK, ProposalsTypeOK, IsMap, Receipt
  <2>2. n \in Nat
    BY <2>1, <1>0 DEF TypeOK
  <2>3. /\ receipts' = Put(receipts, <<id, n>>, [vendor |-> a, amount |-> x])
        /\ receiptCount' = Put(receiptCount, id, n + 1)
    BY <1>1 DEF PostSpendingReceipt
  <2> HIDE DEF n
  <2>4. n + 1 \in Nat /\ <<id, n>> \in ProposalId \X ReceiptId
    BY <2>1, <2>2 DEF ReceiptId
  <2>5. IsMap(receiptCount', ProposalId, Nat)
    BY <2>1, <2>3, <2>4, PutMap DEF TypeOK
  <2>6. IsMap(receipts', ProposalId \X ReceiptId, Receipt)
    BY <2>1, <2>3, <2>4, PutMap DEF TypeOK
  <2> QED
    BY <1>1, <2>5, <2>6 DEF PostSpendingReceipt, updateVars, TypeOK
<1>2. ASSUME NEW a \in Candidate, NEW id \in DOMAIN proposals \cup {None},
             PostVendorUpdate(a, id)
      PROVE  Goal
  <2> DEFINE n == CountAt(updateCount, a)
  <2>1. a \in Account /\ id \in ProposalId \cup {None}
    BY VendorDaoAssumption DEF TypeOK, ProposalsTypeOK, IsMap
  <2>2. n \in Nat
    BY <2>1, <1>0 DEF TypeOK
  <2>3. updates' = Put(updates, <<a, n>>, id) /\ updateCount' = Put(updateCount, a, n + 1)
    BY <1>2 DEF PostVendorUpdate
  <2> HIDE DEF n
  <2>4. n + 1 \in Nat /\ <<a, n>> \in Account \X UpdateId
    BY <2>1, <2>2 DEF UpdateId
  <2>5. IsMap(updateCount', Account, Nat)
    BY <2>1, <2>3, <2>4, PutMap DEF TypeOK
  <2>6. IsMap(updates', Account \X UpdateId, ProposalId \cup {None})
    BY <2>1, <2>3, <2>4, PutMap DEF TypeOK
  <2> QED
    BY <1>2, <2>5, <2>6 DEF PostVendorUpdate, receiptVars, TypeOK
<1> QED
  BY <1>1, <1>2 DEF AccountingStep

\* Every step keeps the whole storage well-typed.
LEMMA NextType == TypeOK /\ [Next]_vars => TypeOK'
<1> SUFFICES ASSUME TypeOK, [Next]_vars PROVE TypeOK'
  OBVIOUS
<1> USE DEF TypeOK
<1>a. ASSUME UNCHANGED treasuryVars PROVE TreasuryTypeOK'
  BY <1>a DEF TreasuryTypeOK, BalancesTypeOK, treasuryVars
<1>b. ASSUME UNCHANGED residencyVars PROVE ResidencyTypeOK'
  BY <1>b DEF ResidencyTypeOK, residencyVars
<1>c. ASSUME UNCHANGED vendors PROVE RegistryTypeOK'
  BY <1>c DEF RegistryTypeOK
<1>d. ASSUME UNCHANGED <<rfpVars, ballotVars>> PROVE ProposalsTypeOK'
  BY <1>d DEF ProposalsTypeOK, rfpVars, ballotVars
<1>1. CASE MoneyStep
  BY <1>1, <1>b, <1>c, <1>d, MoneyStepType DEF MoneyStep, receiptVars, updateVars
<1>2. CASE ResidencyStep
  BY <1>2, <1>a, <1>c, <1>d, ResidencyStepType DEF ResidencyStep, receiptVars, updateVars
<1>3. CASE RegistryStep
  BY <1>3, <1>a, <1>b, <1>d, RegistryStepType DEF RegistryStep, receiptVars, updateVars
<1>4. CASE ProposalStep
  BY <1>4, <1>b, ProposalStepType DEF ProposalStep, receiptVars, updateVars
<1>5. CASE AccountingStep
  BY <1>5, <1>a, <1>b, <1>c, <1>d, AccountingStepType DEF AccountingStep
<1>6. CASE UNCHANGED vars
  BY <1>6, <1>a, <1>b, <1>c, <1>d DEF vars, receiptVars, updateVars
<1> QED
  BY <1>1, <1>2, <1>3, <1>4, <1>5, <1>6 DEF Next

\* The pallet's storage always has the types its declarations give it: no
\* subtraction goes below zero, no status, ward or option outside its enum is
\* ever stored, however many accounts, proposals and blocks there are.
THEOREM TypeCorrect == Spec => []TypeOK
<1> QED
  BY InitType, NextType, PTL DEF Spec

-----------------------------------------------------------------------------
\* Terms and ids.

\* The next ids are unused.
CountsAhead ==
    /\ \A r \in DOMAIN rfps : r < rfpCount
    /\ \A id \in DOMAIN proposals : id < proposalCount

TermsInv == TypeOK /\ CountsAhead /\ RfpTermsHold

SameProposalTerms(p, q) ==
    q.vendor = p.vendor /\ q.amount = p.amount /\ q.ward = p.ward /\ q.rfp_id = p.rfp_id

\* No record disappears and no term of one changes.
KeepsTerms ==
    /\ DOMAIN vendors \subseteq DOMAIN vendors'
    /\ \A r \in DOMAIN rfps :
        /\ r \in DOMAIN rfps'
        /\ rfps'[r].ward = rfps[r].ward /\ rfps'[r].max_amount = rfps[r].max_amount
    /\ \A id \in DOMAIN proposals :
        /\ id \in DOMAIN proposals'
        /\ SameProposalTerms(proposals[id], proposals'[id])

\* What each step does to the ids in use.
IdSteps ==
    \/ UNCHANGED <<rfpCount, proposalCount>>
         /\ DOMAIN rfps' = DOMAIN rfps /\ DOMAIN proposals' = DOMAIN proposals
    \/ \E w \in Ward, x \in Amounts : PostRfp(w, x)
    \/ \E a \in Proposer, v \in Candidate, x \in Amounts, w \in Ward,
          r \in DOMAIN rfps \cup {None} : SubmitProposal(a, v, x, w, r)

LEMMA RegistryStepKeeps ==
    ASSUME TypeOK, RegistryStep PROVE KeepsTerms /\ IdSteps
<1>1. DOMAIN vendors \subseteq DOMAIN vendors'
  BY DEF RegistryStep, RegisterVendor, UpdateVendorProfile, SetVendorVerified, Put
<1> QED
  BY <1>1 DEF RegistryStep, rfpVars, ballotVars, KeepsTerms, IdSteps, SameProposalTerms

\* try_disburse, and every other write of one proposal's fields.
LEMMA SettleKeeps ==
    ASSUME TypeOK, NEW id \in DOMAIN proposals, Settle(id, proposals[id])
    PROVE  /\ DOMAIN vendors' = DOMAIN vendors
           /\ \E s \in ProposalStatus : proposals' = [proposals EXCEPT ![id].status = s]
<1>1. "Funded" \in ProposalStatus /\ "Approved" \in ProposalStatus
  BY DEF ProposalStatus
<1>2. CASE CanPay(proposals[id].vendor, proposals[id].amount)
  BY <1>1, <1>2 DEF Settle, CreditVendor
<1>3. CASE ~CanPay(proposals[id].vendor, proposals[id].amount)
  BY <1>1, <1>3 DEF Settle
<1> QED
  BY <1>2, <1>3

LEMMA StatusKeeps ==
    ASSUME TypeOK, NEW id \in DOMAIN proposals, NEW s,
           proposals' = [proposals EXCEPT ![id].status = s],
           DOMAIN vendors' = DOMAIN vendors, UNCHANGED <<proposalCount, rfpVars>>
    PROVE  KeepsTerms /\ IdSteps
<1>1. proposals \in [DOMAIN proposals -> Proposal]
  BY DEF TypeOK, ProposalsTypeOK, IsMap
<1>2. \A x \in DOMAIN proposals :
        x \in DOMAIN proposals' /\ SameProposalTerms(proposals[x], proposals'[x])
  BY <1>1 DEF SameProposalTerms, Proposal
<1> QED
  BY <1>1, <1>2 DEF KeepsTerms, IdSteps, rfpVars

LEMMA ProposalStepKeeps ==
    ASSUME TypeOK, CountsAhead, ProposalStep PROVE KeepsTerms /\ IdSteps
<1>0. /\ proposals \in [DOMAIN proposals -> Proposal]
      /\ rfps \in [DOMAIN rfps -> Rfp]
      /\ DOMAIN rfps \subseteq Nat /\ DOMAIN proposals \subseteq Nat
      /\ rfpCount \in Nat /\ proposalCount \in Nat
  BY DEF TypeOK, ProposalsTypeOK, IsMap, RfpId, ProposalId
<1>1. ASSUME NEW w \in Ward, NEW x \in Amounts, PostRfp(w, x) PROVE KeepsTerms /\ IdSteps
  <2>1. rfpCount \notin DOMAIN rfps
    BY <1>0 DEF CountsAhead
  <2>2. \A r \in DOMAIN rfps : r \in DOMAIN rfps' /\ rfps'[r] = rfps[r]
    BY <1>1, <2>1 DEF PostRfp, Put
  <2> QED
    BY <1>1, <2>2 DEF PostRfp, ballotVars, KeepsTerms, IdSteps, SameProposalTerms
<1>2. ASSUME NEW id \in DOMAIN rfps, CloseRfp(id) PROVE KeepsTerms /\ IdSteps
  <2>1. /\ DOMAIN rfps' = DOMAIN rfps
        /\ \A r \in DOMAIN rfps :
            rfps'[r].ward = rfps[r].ward /\ rfps'[r].max_amount = rfps[r].max_amount
    BY <1>0, <1>2 DEF CloseRfp, Rfp
  <2> QED
    BY <1>2, <2>1 DEF CloseRfp, ballotVars, KeepsTerms, IdSteps, SameProposalTerms
<1>3. ASSUME NEW a \in Proposer, NEW v \in Candidate, NEW x \in Amounts, NEW w \in Ward,
             NEW r \in DOMAIN rfps \cup {None}, SubmitProposal(a, v, x, w, r)
      PROVE  KeepsTerms /\ IdSteps
  <2>1. proposalCount \notin DOMAIN proposals
    BY <1>0 DEF CountsAhead
  <2>2. \A id \in DOMAIN proposals : id \in DOMAIN proposals' /\ proposals'[id] = proposals[id]
    BY <1>3, <2>1 DEF SubmitProposal, Put
  <2> QED
    BY <1>3, <2>2 DEF SubmitProposal, rfpVars, KeepsTerms, IdSteps, SameProposalTerms
<1>4. ASSUME NEW id \in DOMAIN proposals, NEW b \in BOOLEAN, VetProposal(id, b)
      PROVE  KeepsTerms /\ IdSteps
  <2> DEFINE e == now + VotingPeriod
  <2>1. CASE b
    <3>1. proposals' = [proposals EXCEPT ![id].status = "Proposed", ![id].voting_end = e]
      BY <1>4, <2>1 DEF VetProposal
    <3> HIDE DEF e
    <3>2. \A x \in DOMAIN proposals :
            x \in DOMAIN proposals' /\ SameProposalTerms(proposals[x], proposals'[x])
      BY <1>0, <3>1 DEF SameProposalTerms, Proposal
    <3>3. DOMAIN proposals' = DOMAIN proposals
      BY <3>1
    <3> QED
      BY <1>4, <3>2, <3>3 DEF VetProposal, rfpVars, KeepsTerms, IdSteps
  <2>2. CASE ~b
    BY <1>4, <2>2, StatusKeeps DEF VetProposal
  <2> QED
    BY <2>1, <2>2
<1>5. ASSUME NEW a \in Voter, NEW id \in DOMAIN proposals, NEW b \in BOOLEAN, Vote(a, id, b)
      PROVE  KeepsTerms /\ IdSteps
  <2>1. /\ DOMAIN proposals' = DOMAIN proposals
        /\ \A x \in DOMAIN proposals : SameProposalTerms(proposals[x], proposals'[x])
    <3>1. CASE b
      BY <1>0, <1>5, <3>1 DEF Vote, Count, SameProposalTerms, Proposal
    <3>2. CASE ~b
      BY <1>0, <1>5, <3>2 DEF Vote, Count, SameProposalTerms, Proposal
    <3> QED
      BY <3>1, <3>2
  <2> QED
    BY <1>5, <2>1 DEF Vote, Count, rfpVars, KeepsTerms, IdSteps
<1>6. ASSUME NEW id \in DOMAIN proposals, CloseProposal(id) PROVE KeepsTerms /\ IdSteps
  <2>1. CASE Passes(proposals[id].ayes, proposals[id].nays)
    BY <1>6, <2>1, SettleKeeps, StatusKeeps DEF CloseProposal
  <2>2. CASE ~Passes(proposals[id].ayes, proposals[id].nays)
    BY <1>6, <2>2, StatusKeeps DEF CloseProposal
  <2> QED
    BY <2>1, <2>2
<1>7. ASSUME NEW id \in DOMAIN proposals, Disburse(id) PROVE KeepsTerms /\ IdSteps
  BY <1>7, SettleKeeps, StatusKeeps DEF Disburse
<1>8. ASSUME NEW a \in Proposer, NEW id \in DOMAIN proposals, CancelProposal(a, id)
      PROVE  KeepsTerms /\ IdSteps
  BY <1>8, StatusKeeps DEF CancelProposal
<1> QED
  BY <1>1, <1>2, <1>3, <1>4, <1>5, <1>6, <1>7, <1>8 DEF ProposalStep

\* No step changes the terms of what is there.
LEMMA StepKeepsTerms ==
    ASSUME TypeOK, CountsAhead, [Next]_vars PROVE KeepsTerms /\ IdSteps
<1>1. CASE MoneyStep \/ ResidencyStep \/ AccountingStep \/ UNCHANGED vars
  BY <1>1 DEF MoneyStep, ResidencyStep, AccountingStep, vars, rfpVars, ballotVars,
              KeepsTerms, IdSteps, SameProposalTerms
<1> QED
  BY <1>1, RegistryStepKeeps, ProposalStepKeeps DEF Next

LEMMA TermsInit == Init => TermsInv
<1> SUFFICES ASSUME Init PROVE TermsInv
  OBVIOUS
<1>1. DOMAIN proposals = {} /\ DOMAIN rfps = {}
  BY DEF Init, ProposalsInit, EmptyMap
<1> QED
  BY <1>1, InitType DEF TermsInv, CountsAhead, RfpTermsHold

\* Every step keeps the terms that hold, and a submission is checked for them.
LEMMA TermsNext == TermsInv /\ [Next]_vars => TermsInv'
<1> SUFFICES ASSUME TermsInv, [Next]_vars PROVE TermsInv'
  OBVIOUS
<1> USE DEF TermsInv
<1>0. TypeOK' /\ KeepsTerms /\ IdSteps
  BY NextType, StepKeepsTerms
<1>t. /\ DOMAIN rfps \subseteq Nat /\ DOMAIN proposals \subseteq Nat
      /\ rfpCount \in Nat /\ proposalCount \in Nat
  BY DEF TypeOK, ProposalsTypeOK, IsMap, RfpId, ProposalId
<1> DEFINE Good(p) == /\ p.vendor \in DOMAIN vendors'
                      /\ p.rfp_id # None =>
                            /\ p.rfp_id \in DOMAIN rfps'
                            /\ p.ward = rfps'[p.rfp_id].ward
                            /\ p.amount <= rfps'[p.rfp_id].max_amount
<1>1. \A id \in DOMAIN proposals : Good(proposals'[id])
  BY <1>0 DEF KeepsTerms, SameProposalTerms, RfpTermsHold
<1>2. CASE /\ UNCHANGED <<rfpCount, proposalCount>>
           /\ DOMAIN rfps' = DOMAIN rfps /\ DOMAIN proposals' = DOMAIN proposals
  BY <1>0, <1>1, <1>2 DEF CountsAhead, RfpTermsHold
<1>3. ASSUME NEW w \in Ward, NEW x \in Amounts, PostRfp(w, x) PROVE TermsInv'
  <2>1. /\ DOMAIN rfps' = DOMAIN rfps \cup {rfpCount} /\ rfpCount' = rfpCount + 1
        /\ proposals' = proposals /\ proposalCount' = proposalCount
    BY <1>3 DEF PostRfp, Put, ballotVars
  <2>2. CountsAhead'
    BY <1>t, <2>1 DEF CountsAhead
  <2>3. RfpTermsHold'
    BY <1>1, <2>1 DEF RfpTermsHold
  <2> QED
    BY <1>0, <2>2, <2>3
<1>4. ASSUME NEW a \in Proposer, NEW v \in Candidate, NEW x \in Amounts, NEW w \in Ward,
             NEW r \in DOMAIN rfps \cup {None}, SubmitProposal(a, v, x, w, r)
      PROVE  TermsInv'
  <2> DEFINE p == [proposer |-> a, vendor |-> v, amount |-> x,
                   status |-> "PendingReview", ayes |-> 0, nays |-> 0,
                   voting_end |-> now, ward |-> w, rfp_id |-> r]
  <2>1. /\ proposals' = Put(proposals, proposalCount, p)
        /\ proposalCount' = proposalCount + 1 /\ UNCHANGED <<rfps, rfpCount, vendors>>
        /\ v \in DOMAIN vendors
        /\ r # None => MeetsRfp(r, w, x)
    BY <1>4 DEF SubmitProposal, rfpVars
  <2>2. p.vendor = v /\ p.amount = x /\ p.ward = w /\ p.rfp_id = r
    OBVIOUS
  <2> HIDE DEF p
  <2>3. DOMAIN proposals' = DOMAIN proposals \cup {proposalCount}
        /\ proposals'[proposalCount] = p
    BY <2>1 DEF Put
  <2>4. Good(p)
    BY <2>1, <2>2 DEF MeetsRfp
  <2>5. CountsAhead'
    BY <1>t, <2>1, <2>3 DEF CountsAhead
  <2>6. RfpTermsHold'
    BY <1>1, <2>3, <2>4 DEF RfpTermsHold
  <2> QED
    BY <1>0, <2>5, <2>6
<1> QED
  BY <1>0, <1>2, <1>3, <1>4 DEF IdSteps

\* What a proposal was submitted under holds of it for ever.
THEOREM TermsHold == Spec => []RfpTermsHold
<1>1. TermsInv => RfpTermsHold
  BY DEF TermsInv
<1> QED
  BY <1>1, TermsInit, TermsNext, PTL DEF Spec
-----------------------------------------------------------------------------
\* Ids and the records under them.

\* The only steps that add a grant, a receipt, an update or a vote.
RecordSteps ==
    /\ \/ UNCHANGED <<grantCount, grants>>
       \/ \E a \in Contributor, x \in Contributions : SubmitGrant(a, x)
    /\ \/ UNCHANGED <<receiptCount, receipts>>
       \/ \E a \in Candidate, id \in DOMAIN proposals, x \in ReceiptAmounts :
             PostSpendingReceipt(a, id, x)
    /\ \/ UNCHANGED <<updateCount, updates>>
       \/ \E a \in Candidate, id \in DOMAIN proposals \cup {None} : PostVendorUpdate(a, id)
    /\ \/ UNCHANGED voteOf
       \/ \E a \in Voter, id \in DOMAIN proposals, b \in BOOLEAN : Vote(a, id, b)

LEMMA StepIsRecordStep == ASSUME [Next]_vars PROVE RecordSteps
<1>1. CASE MoneyStep
  BY <1>1 DEF MoneyStep, FundTreasury, RegisterDonor, StakeMint, PlainTransfer,
              ballotVars, receiptVars, updateVars, RecordSteps
<1>2. CASE ResidencyStep \/ RegistryStep \/ UNCHANGED vars
  BY <1>2 DEF ResidencyStep, RegistryStep, vars, treasuryVars, ballotVars, receiptVars,
              updateVars, RecordSteps
<1>3. CASE ProposalStep
  <2>1. ASSUME NEW id, Settle(id, proposals[id]) PROVE UNCHANGED <<grantCount, grants>>
    BY <2>1 DEF Settle, PayOut, treasuryVars
  <2>2. UNCHANGED <<grantCount, grants>>
    BY <1>3, <2>1 DEF ProposalStep, PostRfp, CloseRfp, SubmitProposal, VetProposal, Vote,
                      Count, CloseProposal, Disburse, CancelProposal, treasuryVars
  <2>3. \/ UNCHANGED voteOf
        \/ \E a \in Voter, id \in DOMAIN proposals, b \in BOOLEAN : Vote(a, id, b)
    BY <1>3 DEF ProposalStep, PostRfp, CloseRfp, SubmitProposal, VetProposal,
                CloseProposal, Disburse, CancelProposal, ballotVars
  <2> QED
    BY <1>3, <2>2, <2>3 DEF ProposalStep, receiptVars, updateVars, RecordSteps
<1>4. CASE AccountingStep
  BY <1>4 DEF AccountingStep, PostSpendingReceipt, PostVendorUpdate, treasuryVars,
              ballotVars, receiptVars, updateVars, RecordSteps
<1> QED
  BY <1>1, <1>2, <1>3, <1>4 DEF Next

IdsInv == TypeOK /\ IdsDense

LEMMA IdsAhead == ASSUME IdsInv PROVE CountsAhead
BY DEF IdsInv, TypeOK, ProposalsTypeOK, IdsDense, CountsAhead

\* A counter one ahead of the ids in use stays so with each new entry.
LEMMA DenseGrows ==
    ASSUME NEW n \in Nat, NEW S, S = 0 .. n - 1
    PROVE  S \cup {n} = 0 .. n + 1 - 1 /\ n \notin S
OBVIOUS

LEMMA GrantsStayDense ==
    ASSUME IdsInv, RecordSteps PROVE DOMAIN grants' = 0 .. grantCount' - 1
<1>1. grantCount \in Nat /\ DOMAIN grants = 0 .. grantCount - 1
  BY DEF IdsInv, TypeOK, TreasuryTypeOK, IdsDense
<1>2. ASSUME NEW a \in Contributor, NEW x \in Contributions, SubmitGrant(a, x)
      PROVE  DOMAIN grants' = 0 .. grantCount' - 1
  <2>1. DOMAIN grants' = DOMAIN grants \cup {grantCount} /\ grantCount' = grantCount + 1
    BY <1>2 DEF SubmitGrant, Put
  <2> QED
    BY <1>1, <2>1, DenseGrows
<1> QED
  BY <1>1, <1>2 DEF RecordSteps

LEMMA ProposalsStayDense ==
    ASSUME IdsInv, [Next]_vars
    PROVE  DOMAIN proposals' = 0 .. proposalCount' - 1 /\ DOMAIN rfps' = 0 .. rfpCount' - 1
<1>1. /\ proposalCount \in Nat /\ DOMAIN proposals = 0 .. proposalCount - 1
      /\ rfpCount \in Nat /\ DOMAIN rfps = 0 .. rfpCount - 1
  BY DEF IdsInv, TypeOK, ProposalsTypeOK, IdsDense
<1>2. IdSteps
  BY IdsAhead, StepKeepsTerms DEF IdsInv
<1> DEFINE Goal == /\ DOMAIN proposals' = 0 .. proposalCount' - 1
                   /\ DOMAIN rfps' = 0 .. rfpCount' - 1
<1>3. ASSUME NEW w \in Ward, NEW x \in Amounts, PostRfp(w, x) PROVE Goal
  <2>1. /\ DOMAIN rfps' = DOMAIN rfps \cup {rfpCount} /\ rfpCount' = rfpCount + 1
        /\ UNCHANGED <<proposals, proposalCount>>
    BY <1>3 DEF PostRfp, Put, ballotVars
  <2>2. DOMAIN rfps \cup {rfpCount} = 0 .. rfpCount + 1 - 1
    BY <1>1, DenseGrows
  <2> QED
    BY <1>1, <2>1, <2>2
<1>4. ASSUME NEW a \in Proposer, NEW v \in Candidate, NEW x \in Amounts, NEW w \in Ward,
             NEW r \in DOMAIN rfps \cup {None}, SubmitProposal(a, v, x, w, r)
      PROVE  Goal
  <2>1. /\ DOMAIN proposals' = DOMAIN proposals \cup {proposalCount}
        /\ proposalCount' = proposalCount + 1 /\ UNCHANGED <<rfps, rfpCount>>
    BY <1>4 DEF SubmitProposal, Put, rfpVars
  <2>2. DOMAIN proposals \cup {proposalCount} = 0 .. proposalCount + 1 - 1
    BY <1>1, DenseGrows
  <2> QED
    BY <1>1, <2>1, <2>2
<1>5. CASE /\ UNCHANGED <<rfpCount, proposalCount>>
           /\ DOMAIN rfps' = DOMAIN rfps /\ DOMAIN proposals' = DOMAIN proposals
  BY <1>1, <1>5
<1>6. CASE \E w \in Ward, x \in Amounts : PostRfp(w, x)
  BY <1>3, <1>6
<1>7. CASE \E a \in Proposer, v \in Candidate, x \in Amounts, w \in Ward,
              r \in DOMAIN rfps \cup {None} : SubmitProposal(a, v, x, w, r)
  BY <1>4, <1>7
<1> QED
  BY <1>2, <1>5, <1>6, <1>7 DEF IdSteps

\* The ids of one proposal's receipts, and what the counters say of them.
ReceiptIds(id) == {k[2] : k \in ReceiptsOf(id)}

ReceiptsDense ==
    /\ \A k \in DOMAIN receipts : k[2] < CountAt(receiptCount, k[1])
    /\ \A id \in DOMAIN receiptCount : ReceiptIds(id) = 0 .. receiptCount[id] - 1

\* Also of a proposal that has no counter yet.
LEMMA ReceiptsBelow ==
    ASSUME IdsInv, NEW id \in ProposalId
    PROVE  /\ CountAt(receiptCount, id) \in Nat
           /\ ReceiptIds(id) = 0 .. CountAt(receiptCount, id) - 1
<1>1. /\ receiptCount \in [DOMAIN receiptCount -> Nat]
      /\ DOMAIN receipts \subseteq ProposalId \X Nat
  BY DEF IdsInv, TypeOK, IsMap, ReceiptId
<1>2. ReceiptsDense
  BY DEF IdsInv, IdsDense, ReceiptsDense, ReceiptIds
<1>3. CASE id \in DOMAIN receiptCount
  BY <1>1, <1>2, <1>3 DEF ReceiptsDense, CountAt
<1>4. CASE id \notin DOMAIN receiptCount
  <2>1. ReceiptsOf(id) = {}
    <3> SUFFICES ASSUME NEW k \in DOMAIN receipts, k[1] = id PROVE FALSE
      BY DEF ReceiptsOf
    <3>1. k[2] \in Nat /\ k[2] < 0
      BY <1>1, <1>2, <1>4 DEF ReceiptsDense, CountAt
    <3> QED
      BY <3>1
  <2>2. ReceiptIds(id) = {}
    BY <2>1 DEF ReceiptIds
  <2> QED
    BY <1>4, <2>2 DEF CountAt
<1> QED
  BY <1>3, <1>4

LEMMA ReceiptsStayDense == ASSUME IdsInv, RecordSteps PROVE ReceiptsDense'
<1>1. /\ receiptCount \in [DOMAIN receiptCount -> Nat]
      /\ DOMAIN receipts \subseteq ProposalId \X Nat
      /\ DOMAIN proposals \subseteq ProposalId
  BY DEF IdsInv, TypeOK, ProposalsTypeOK, IsMap, ReceiptId
<1>2. ReceiptsDense
  BY DEF IdsInv, IdsDense, ReceiptsDense, ReceiptIds
<1>3. CASE UNCHANGED <<receiptCount, receipts>>
  BY <1>2, <1>3 DEF ReceiptsDense, ReceiptIds, ReceiptsOf, CountAt
<1>4. ASSUME NEW a \in Candidate, NEW id \in DOMAIN proposals, NEW x \in ReceiptAmounts,
             PostSpendingReceipt(a, id, x)
      PROVE  ReceiptsDense'
  <2> DEFINE n == CountAt(receiptCount, id)
  <2>1. n \in Nat /\ ReceiptIds(id) = 0 .. n - 1
    BY <1>1, ReceiptsBelow
  <2>2. /\ DOMAIN receipts' = DOMAIN receipts \cup {<<id, n>>}
        /\ receiptCount' = Put(receiptCount, id, n + 1)
    BY <1>4 DEF PostSpendingReceipt, Put
  <2> HIDE DEF n
  <2>3. /\ DOMAIN receiptCount' = DOMAIN receiptCount \cup {id}
        /\ receiptCount'[id] = n + 1
        /\ \A i \in DOMAIN receiptCount : i # id => receiptCount'[i] = receiptCount[i]
    BY <2>2 DEF Put
  <2>4. n = CountAt(receiptCount, id)
    BY DEF n
  <2>5. ASSUME NEW k \in DOMAIN receipts' PROVE k[2] < CountAt(receiptCount', k[1])
    <3>1. CASE k = <<id, n>>
      BY <2>1, <2>3, <3>1 DEF CountAt
    <3>2. CASE k # <<id, n>> /\ k[1] = id
      <4>1. k \in DOMAIN receipts /\ k[2] \in Nat /\ k[2] < n
        BY <1>1, <1>2, <2>2, <2>4, <3>2 DEF ReceiptsDense
      <4> QED
        BY <2>1, <2>3, <3>2, <4>1 DEF CountAt
    <3>3. CASE k[1] # id
      <4>1. k \in DOMAIN receipts /\ k[2] < CountAt(receiptCount, k[1])
        BY <1>2, <2>2, <3>3 DEF ReceiptsDense
      <4>2. CountAt(receiptCount', k[1]) = CountAt(receiptCount, k[1])
        BY <2>3, <3>3 DEF CountAt
      <4> QED
        BY <4>1, <4>2
    <3> QED
      BY <3>1, <3>2, <3>3
  <2>6. ReceiptIds(id)' = 0 .. receiptCount'[id] - 1
    <3>1. ReceiptsOf(id)' = ReceiptsOf(id) \cup {<<id, n>>}
      BY <2>2 DEF ReceiptsOf
    <3>2. ReceiptIds(id)' = ReceiptIds(id) \cup {n}
      <4>1. <<id, n>>[2] = n
        OBVIOUS
      <4> QED
        BY <3>1, <4>1, Zenon DEF ReceiptIds
    <3> QED
      BY <2>1, <2>3, <3>2, DenseGrows
  <2>7. ASSUME NEW i \in DOMAIN receiptCount, i # id
        PROVE  ReceiptIds(i)' = 0 .. receiptCount'[i] - 1
    <3>1. ReceiptsOf(i)' = ReceiptsOf(i)
      BY <2>2, <2>7 DEF ReceiptsOf
    <3>2. ReceiptIds(i)' = ReceiptIds(i)
      BY <3>1 DEF ReceiptIds
    <3> QED
      BY <1>2, <2>3, <2>7, <3>2 DEF ReceiptsDense
  <2> QED
    BY <2>3, <2>5, <2>6, <2>7 DEF ReceiptsDense
<1> QED
  BY <1>3, <1>4 DEF RecordSteps

UpdatesAhead == \A k \in DOMAIN updates : k[2] < CountAt(updateCount, k[1])

LEMMA UpdatesStayAhead == ASSUME IdsInv, RecordSteps PROVE UpdatesAhead'
<1>1. /\ updateCount \in [DOMAIN updateCount -> Nat]
      /\ DOMAIN updates \subseteq Account \X Nat
  BY DEF IdsInv, TypeOK, IsMap, UpdateId
<1>2. UpdatesAhead
  BY DEF IdsInv, IdsDense, UpdatesAhead
<1>3. CASE UNCHANGED <<updateCount, updates>>
  BY <1>2, <1>3 DEF UpdatesAhead, CountAt
<1>4. ASSUME NEW a \in Candidate, NEW id \in DOMAIN proposals \cup {None},
             PostVendorUpdate(a, id)
      PROVE  UpdatesAhead'
  <2> DEFINE n == CountAt(updateCount, a)
  <2>1. n \in Nat
    BY <1>1 DEF CountAt
  <2>2. /\ DOMAIN updates' = DOMAIN updates \cup {<<a, n>>}
        /\ DOMAIN updateCount' = DOMAIN updateCount \cup {a}
        /\ updateCount'[a] = n + 1
        /\ \A i \in DOMAIN updateCount : i # a => updateCount'[i] = updateCount[i]
    BY <1>4 DEF PostVendorUpdate, Put
  <2>3. ASSUME NEW k \in DOMAIN updates' PROVE k[2] < CountAt(updateCount', k[1])
    <3>1. CASE k = <<a, n>>
      <4> HIDE DEF n
      <4> QED
        BY <2>1, <2>2, <3>1 DEF CountAt
    <3>2. CASE k # <<a, n>> /\ k[1] = a
      <4>1. k[2] \in Nat /\ k[2] < n
        BY <1>1, <1>2, <2>2, <3>2 DEF UpdatesAhead
      <4> HIDE DEF n
      <4> QED
        BY <2>1, <2>2, <3>2, <4>1 DEF CountAt
    <3>3. CASE k[1] # a
      <4>1. k \in DOMAIN updates
        BY <2>2, <3>3
      <4>2. CountAt(updateCount', k[1]) = CountAt(updateCount, k[1])
        BY <2>2, <3>3 DEF CountAt
      <4> QED
        BY <1>2, <4>1, <4>2 DEF UpdatesAhead
    <3> QED
      BY <3>1, <3>2, <3>3
  <2> QED
    BY <2>3 DEF UpdatesAhead
<1> QED
  BY <1>3, <1>4 DEF RecordSteps

LEMMA IdsInit == Init => IdsInv
<1> SUFFICES ASSUME Init PROVE IdsInv
  OBVIOUS
<1>1. /\ DOMAIN proposals = {} /\ DOMAIN rfps = {} /\ DOMAIN grants = {}
      /\ DOMAIN receipts = {} /\ DOMAIN receiptCount = {} /\ DOMAIN updates = {}
      /\ proposalCount = 0 /\ rfpCount = 0 /\ grantCount = 0
  BY DEF Init, TreasuryInit, ProposalsInit, EmptyMap
<1> QED
  BY <1>1, InitType DEF IdsInv, IdsDense

LEMMA IdsNext == IdsInv /\ [Next]_vars => IdsInv'
<1> SUFFICES ASSUME IdsInv, [Next]_vars PROVE IdsInv'
  OBVIOUS
<1>1. TypeOK' /\ RecordSteps
  BY NextType, StepIsRecordStep DEF IdsInv
<1>2. /\ DOMAIN grants' = 0 .. grantCount' - 1
      /\ DOMAIN proposals' = 0 .. proposalCount' - 1
      /\ DOMAIN rfps' = 0 .. rfpCount' - 1
  BY <1>1, GrantsStayDense, ProposalsStayDense
<1>3. ReceiptsDense' /\ UpdatesAhead'
  BY <1>1, ReceiptsStayDense, UpdatesStayAhead
<1> QED
  BY <1>1, <1>2, <1>3 DEF IdsInv, IdsDense, ReceiptsDense, ReceiptIds, UpdatesAhead

\* Ids are handed out densely, in any order of the calls that take one.
THEOREM IdsAreDense == Spec => []IdsDense
<1>1. IdsInv => IdsDense
  BY DEF IdsInv
<1> QED
  BY <1>1, IdsInit, IdsNext, PTL DEF Spec

\* A new entry under an unused key leaves the others as they are.
LEMMA PutKeeps == ASSUME NEW f, NEW k, k \notin DOMAIN f, NEW v PROVE Keeps(f, Put(f, k, v))
BY DEF Keeps, Put

LEMMA StepKeepsRecords == ASSUME IdsInv, [Next]_vars PROVE KeepsRecords
<1>1. RecordSteps
  BY StepIsRecordStep
<1>2. Keeps(grants, grants')
  <2>1. grantCount \notin DOMAIN grants
    BY DEF IdsInv, TypeOK, TreasuryTypeOK, IdsDense
  <2>2. ASSUME NEW a \in Contributor, NEW x \in Contributions, SubmitGrant(a, x)
        PROVE  Keeps(grants, grants')
    BY <2>1, <2>2, PutKeeps DEF SubmitGrant
  <2> QED
    BY <1>1, <2>2 DEF RecordSteps, Keeps
<1>3. Keeps(receipts, receipts')
  <2>1. \A k \in DOMAIN receipts : k[2] < CountAt(receiptCount, k[1])
    BY DEF IdsInv, IdsDense
  <2>2. ASSUME NEW id \in DOMAIN proposals
        PROVE  <<id, CountAt(receiptCount, id)>> \notin DOMAIN receipts
    <3>1. CountAt(receiptCount, id) \in Nat
      BY ReceiptsBelow DEF IdsInv, TypeOK, ProposalsTypeOK, IsMap
    <3> QED
      BY <2>1, <3>1
  <2>3. ASSUME NEW a \in Candidate, NEW id \in DOMAIN proposals, NEW x \in ReceiptAmounts,
               PostSpendingReceipt(a, id, x)
        PROVE  Keeps(receipts, receipts')
    BY <2>2, <2>3, PutKeeps DEF PostSpendingReceipt
  <2> QED
    BY <1>1, <2>3 DEF RecordSteps, Keeps
<1>4. Keeps(updates, updates')
  <2>1. \A k \in DOMAIN updates : k[2] < CountAt(updateCount, k[1])
    BY DEF IdsInv, IdsDense
  <2>2. ASSUME NEW a PROVE <<a, CountAt(updateCount, a)>> \notin DOMAIN updates
    <3>1. CountAt(updateCount, a) \in Nat
      BY DEF IdsInv, TypeOK, IsMap, CountAt
    <3> QED
      BY <2>1, <3>1
  <2>3. ASSUME NEW a \in Candidate, NEW id \in DOMAIN proposals \cup {None},
               PostVendorUpdate(a, id)
        PROVE  Keeps(updates, updates')
    BY <2>2, <2>3, PutKeeps DEF PostVendorUpdate
  <2> QED
    BY <1>1, <2>3 DEF RecordSteps, Keeps
<1>5. Keeps(voteOf, voteOf')
  <2>1. ASSUME NEW a \in Voter, NEW id \in DOMAIN proposals, NEW b \in BOOLEAN,
               Vote(a, id, b)
        PROVE  Keeps(voteOf, voteOf')
    BY <2>1, PutKeeps DEF Vote, Count
  <2> QED
    BY <1>1, <2>1 DEF RecordSteps, Keeps
<1> QED
  BY <1>2, <1>3, <1>4, <1>5 DEF KeepsRecords
=============================================================================

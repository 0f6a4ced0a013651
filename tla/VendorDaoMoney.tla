-------------------------- MODULE VendorDaoMoney --------------------------
(***************************************************************************)
(* The theorems about money: the public totals explain the pot's balance,  *)
(* three sets of books kept separately from the records they count agree   *)
(* with them (what donors gave, what vendors were paid, what receipts      *)
(* account for), and so do the lists that the pages load of the records.   *)
(* They hold for every existential deposit and every interleaving of       *)
(* contributions, gifts, mints, payouts and receipts.                      *)
(***************************************************************************)
EXTENDS ChainViews, VendorDaoTypes

MoneyInv == TypeOK /\ PotAccounted

\* The four scalars of the equation are numbers.
LEMMA PotNumbers ==
    ASSUME TypeOK
    PROVE  /\ balance \in [Holder -> Nat] /\ Pot \in Holder /\ balance[Pot] \in Nat
           /\ totalReceived \in Nat /\ totalDisbursed \in Nat
           /\ potDust \in Nat /\ offLedger \in Nat
BY DEF TypeOK, TreasuryTypeOK, BalancesTypeOK, Holder

\* What a transfer does to the pot.
LEMMA MoveFromAccount ==
    ASSUME TypeOK, NEW from \in Account, NEW to \in Holder, NEW amount \in Nat,
           from # to, Move(from, to, amount)
    PROVE  /\ balance'[Pot] = balance[Pot] + ToPot(to, amount)
           /\ potDust' = potDust
<1>1. from # Pot /\ from \in Holder
  BY BalancesAssumption DEF Holder
<1>2. potDust' = potDust + 0
  BY <1>1 DEF Move
<1>3. CASE to = Pot
  BY <1>1, <1>2, <1>3, PotNumbers DEF Move, ToPot
<1>4. CASE to # Pot
  <2>1. balance'[Pot] = balance[Pot] /\ ToPot(to, amount) = 0
    BY <1>1, <1>4, PotNumbers DEF Move, ToPot
  <2> QED
    BY <1>2, <2>1, PotNumbers
<1> QED
  BY <1>3, <1>4

\* A payout takes its amount and the dust from the pot, and nothing more.
LEMMA MoveFromPot ==
    ASSUME TypeOK, NEW to \in Account, NEW amount \in Nat,
           CanTransfer(Pot, to, amount), Move(Pot, to, amount)
    PROVE  balance'[Pot] + (potDust' - potDust) = balance[Pot] - amount
<1> DEFINE rest == balance[Pot] - amount
<1>1. rest \in Nat /\ to # Pot /\ to \in Holder
  BY PotNumbers, BalancesAssumption DEF CanTransfer, Holder
<1>2. balance'[Pot] = Kept(rest)
  BY <1>1, PotNumbers DEF Move
<1>3. potDust' = potDust + (rest - Kept(rest))
  BY DEF Move
<1>4. Kept(rest) \in Nat
  BY <1>1 DEF Kept
<1> HIDE DEF rest
<1>5. balance'[Pot] + (potDust' - potDust) = rest
  BY <1>1, <1>2, <1>3, <1>4, PotNumbers
<1> QED
  BY <1>5 DEF rest

\* A step that leaves the money alone.
LEMMA MoneyUntouched ==
    ASSUME PotAccounted, UNCHANGED treasuryVars PROVE PotAccounted'
BY DEF PotAccounted, treasuryVars

LEMMA MoneyStepAccounted ==
    ASSUME MoneyInv, MoneyStep PROVE PotAccounted'
<1> USE DEF MoneyInv
<1>1. ASSUME NEW a \in Contributor, NEW x \in Contributions, Contribute(a, x),
             UNCHANGED <<totalDisbursed, offLedger>>
      PROVE  PotAccounted'
  <2>1. a \in Account /\ a # Pot /\ x \in Nat /\ Pot \in Holder
    BY VendorDaoAssumption, TreasuryAssumption, BalancesAssumption DEF Holder
  <2>2. Move(a, Pot, x) /\ totalReceived' = totalReceived + x
    BY <1>1 DEF Contribute
  <2>3. balance'[Pot] = balance[Pot] + x /\ potDust' = potDust
    BY <2>1, <2>2, MoveFromAccount DEF ToPot
  <2> QED
    BY <1>1, <2>1, <2>2, <2>3, PotNumbers DEF PotAccounted
<1>2. ASSUME NEW a \in Contributor, NEW x \in Contributions, FundTreasury(a, x)
      PROVE  PotAccounted'
  BY <1>1, <1>2 DEF FundTreasury
<1>3. ASSUME NEW a \in Contributor, RegisterDonor(a)
      PROVE  PotAccounted'
  BY <1>3 DEF RegisterDonor, PotAccounted
<1>4. ASSUME NEW a \in Contributor, NEW x \in Contributions, SubmitGrant(a, x)
      PROVE  PotAccounted'
  BY <1>1, <1>4 DEF SubmitGrant
<1>5. ASSUME NEW h \in Holder, NEW x \in Mints, StakeMint(h, x)
      PROVE  PotAccounted'
  <2>1. x \in Nat /\ ToPot(h, x) \in Nat
    BY TreasuryAssumption DEF ToPot
  <2>2. balance'[Pot] = balance[Pot] + ToPot(h, x) /\ potDust' = potDust
    BY <1>5, <2>1, PotNumbers DEF StakeMint, MintInto, ToPot
  <2>3. offLedger' = offLedger + ToPot(h, x) /\ UNCHANGED <<totalReceived, totalDisbursed>>
    BY <1>5 DEF StakeMint
  <2> QED
    BY <2>1, <2>2, <2>3, PotNumbers DEF PotAccounted
<1>6. ASSUME NEW a \in Contributor, NEW h \in Holder, NEW x \in Transfers,
             PlainTransfer(a, h, x)
      PROVE  PotAccounted'
  <2>1. a \in Account /\ x \in Nat /\ ToPot(h, x) \in Nat
    BY TreasuryAssumption, VendorDaoAssumption DEF ToPot
  <2>2. balance'[Pot] = balance[Pot] + ToPot(h, x) /\ potDust' = potDust
    BY <1>6, <2>1, MoveFromAccount DEF PlainTransfer
  <2>3. offLedger' = offLedger + ToPot(h, x) /\ UNCHANGED <<totalReceived, totalDisbursed>>
    BY <1>6 DEF PlainTransfer
  <2> QED
    BY <2>1, <2>2, <2>3, PotNumbers DEF PotAccounted
<1> QED
  BY <1>2, <1>3, <1>4, <1>5, <1>6 DEF MoneyStep

LEMMA SettleAccounted ==
    ASSUME MoneyInv, NEW id \in DOMAIN proposals, Settle(id, proposals[id])
    PROVE  PotAccounted'
<1> USE DEF MoneyInv
<1> DEFINE v == proposals[id].vendor
           x == proposals[id].amount
<1>1. v \in Account /\ x \in Nat
  BY DEF TypeOK, ProposalsTypeOK, IsMap, Proposal
<1>2. CASE CanPay(v, x)
  <2>1. CanTransfer(Pot, v, x) /\ PayOut(v, x)
    BY <1>2 DEF Settle, CanPay
  <2> HIDE DEF v, x
  <2>2. Move(Pot, v, x) /\ totalDisbursed' = totalDisbursed + x
        /\ UNCHANGED <<totalReceived, offLedger>>
    BY <2>1 DEF PayOut
  <2>3. balance'[Pot] + (potDust' - potDust) = balance[Pot] - x
    BY <1>1, <2>1, <2>2, MoveFromPot
  <2>4. balance'[Pot] \in Nat /\ potDust' \in Nat
    <3>1. BalancesTypeOK'
      BY <1>1, <2>1, <2>2, MoveType, BalancesAssumption
         DEF TypeOK, TreasuryTypeOK, Holder
    <3> QED
      BY <3>1 DEF BalancesTypeOK, Holder
  <2> QED
    BY <1>1, <2>2, <2>3, <2>4, PotNumbers DEF PotAccounted
<1>3. CASE ~CanPay(v, x)
  BY <1>3, MoneyUntouched DEF Settle
<1> QED
  BY <1>2, <1>3

LEMMA MoneyInit == Init => MoneyInv
<1> SUFFICES ASSUME Init PROVE MoneyInv
  OBVIOUS
<1>1. Genesis[Pot] \in Nat
  BY BalancesAssumption DEF Holder
<1> QED
  BY <1>1, InitType DEF Init, TreasuryInit, BalancesInit, MoneyInv, PotAccounted

LEMMA MoneyNext == MoneyInv /\ [Next]_vars => MoneyInv'
<1> SUFFICES ASSUME MoneyInv, [Next]_vars PROVE MoneyInv'
  OBVIOUS
<1> USE DEF MoneyInv
<1>0. TypeOK'
  BY NextType
<1>1. CASE MoneyStep
  BY <1>0, <1>1, MoneyStepAccounted
<1>2. CASE ResidencyStep \/ RegistryStep \/ AccountingStep \/ UNCHANGED vars
  BY <1>0, <1>2, MoneyUntouched DEF ResidencyStep, RegistryStep, AccountingStep, vars
<1>3. CASE ProposalStep
  <2>1. ASSUME NEW id \in DOMAIN proposals, CloseProposal(id) PROVE PotAccounted'
    BY <2>1, SettleAccounted, MoneyUntouched DEF CloseProposal
  <2>2. ASSUME NEW id \in DOMAIN proposals, Disburse(id) PROVE PotAccounted'
    BY <2>2, SettleAccounted DEF Disburse
  <2> QED
    BY <1>0, <1>3, <2>1, <2>2, MoneyUntouched
       DEF ProposalStep, PostRfp, CloseRfp, SubmitProposal, VetProposal, Vote, Count,
           CancelProposal
<1> QED
  BY <1>1, <1>2, <1>3 DEF Next

\* Every unit that ever reached the pot is there, was paid out, or was dust.
THEOREM PotIsAccountedFor == Spec => []PotAccounted
<1>1. MoneyInv => PotAccounted
  BY DEF MoneyInv
<1> QED
  BY <1>1, MoneyInit, MoneyNext, PTL DEF Spec
-----------------------------------------------------------------------------
\* Donors: a donor's profile counts and adds up the grants under its name.

DonorsInv == IdsInv /\ DonorBooksBalance

\* The steps that touch a donor's profile or a grant.
DonorSteps ==
    \/ UNCHANGED <<donors, grants, grantCount>>
    \/ \E a \in Contributor : RegisterDonor(a)
    \/ \E a \in Contributor, x \in Contributions : SubmitGrant(a, x)

LEMMA StepIsDonorStep == ASSUME [Next]_vars PROVE DonorSteps
<1>1. CASE MoneyStep
  BY <1>1 DEF MoneyStep, FundTreasury, StakeMint, PlainTransfer, DonorSteps
<1>2. CASE ResidencyStep \/ RegistryStep \/ AccountingStep \/ UNCHANGED vars
  BY <1>2 DEF ResidencyStep, RegistryStep, AccountingStep, vars, treasuryVars, DonorSteps
<1>3. CASE ProposalStep
  <2>1. ASSUME NEW id, Settle(id, proposals[id]) PROVE UNCHANGED <<donors, grants, grantCount>>
    BY <2>1 DEF Settle, PayOut, treasuryVars
  <2>2. UNCHANGED <<donors, grants, grantCount>>
    BY <1>3, <2>1 DEF ProposalStep, PostRfp, CloseRfp, SubmitProposal, VetProposal, Vote,
                      Count, CloseProposal, Disburse, CancelProposal, treasuryVars
  <2> QED
    BY <2>2 DEF DonorSteps
<1> QED
  BY <1>1, <1>2, <1>3 DEF Next

\* What is known of the grants of one account.
LEMMA GrantsAmounting ==
    ASSUME IdsInv, NEW a
    PROVE  Amounting(grants, GrantsOf(a)) /\ GrantsOf(a) \subseteq DOMAIN grants
<1>1. /\ grants \in [DOMAIN grants -> Grant] /\ grantCount \in Nat
      /\ DOMAIN grants = 0 .. grantCount - 1
  BY DEF IdsInv, TypeOK, TreasuryTypeOK, IsMap, IdsDense
<1>2. IsFiniteSet(DOMAIN grants)
  <2>1. 0 \in Int /\ grantCount - 1 \in Int
    BY <1>1
  <2> QED
    BY <1>1, <2>1, FS_Interval
<1> QED
  BY <1>1, <1>2, FS_Subset DEF Amounting, AmountOf, GrantsOf, Grant

LEMMA GrantBooked ==
    ASSUME DonorsInv, NEW d \in Account, NEW x \in Nat, SubmitGrant(d, x)
    PROVE  DonorBooksBalance'
<1> USE DEF DonorsInv
<1> DEFINE g == [donor |-> d, amount |-> x]
           n == grantCount
<1>1. /\ donors \in [DOMAIN donors -> DonorInfo] /\ n \in Nat /\ n \notin DOMAIN grants
      /\ d \in DOMAIN donors
  BY DEF IdsInv, TypeOK, TreasuryTypeOK, IsMap, IdsDense, SubmitGrant
<1>2. g.donor = d /\ g.amount = x /\ grants' = Put(grants, n, g)
  BY DEF SubmitGrant
<1>3. donors' = [donors EXCEPT ![d] = WithGrant(donors[d], x)]
  BY DEF SubmitGrant
<1> HIDE DEF g, n
<1>4. /\ DOMAIN grants' = DOMAIN grants \cup {n} /\ grants'[n] = g
      /\ \A k \in DOMAIN grants : grants'[k] = grants[k]
  BY <1>1, <1>2 DEF Put
<1>5. GrantsOf(d)' = GrantsOf(d) \cup {n} /\ n \notin GrantsOf(d)
  BY <1>1, <1>2, <1>4 DEF GrantsOf
<1>6. \A a : a # d => GrantsOf(a)' = GrantsOf(a)
  BY <1>1, <1>2, <1>4 DEF GrantsOf
<1>7. ASSUME NEW a \in Account, GrantsOf(a)' # {} PROVE a \in DOMAIN donors'
  BY <1>1, <1>3, <1>6, <1>7 DEF DonorBooksBalance
<1>8. /\ donors[d].grants_made = Cardinality(GrantsOf(d))
      /\ donors[d].total_contributed = TotalOf(grants, GrantsOf(d))
  BY <1>1 DEF DonorBooksBalance, TotalOf
<1>9. /\ donors'[d].grants_made = donors[d].grants_made + 1
      /\ donors'[d].total_contributed = donors[d].total_contributed + x
  BY <1>1, <1>3 DEF WithGrant
<1>10. Cardinality(GrantsOf(d)') = Cardinality(GrantsOf(d)) + 1
  BY <1>5, GrantsAmounting, FS_AddElement DEF Amounting
<1>11. TotalOf(grants', GrantsOf(d)') = TotalOf(grants, GrantsOf(d)) + x
  BY <1>1, <1>2, <1>5, GrantsAmounting, TotalOfPut
<1>12. ASSUME NEW a \in DOMAIN donors, a # d
       PROVE  /\ donors'[a].grants_made = Cardinality(GrantsOf(a)')
              /\ donors'[a].total_contributed = TotalOf(grants', GrantsOf(a)')
  <2>1. donors'[a] = donors[a] /\ GrantsOf(a)' = GrantsOf(a)
    BY <1>3, <1>6, <1>12
  <2>2. TotalOf(grants', GrantsOf(a)) = TotalOf(grants, GrantsOf(a))
    BY <1>4, GrantsAmounting, TotalSame DEF SameAmounts
  <2> QED
    BY <2>1, <2>2, <1>12 DEF DonorBooksBalance, TotalOf
<1>13. DOMAIN donors' = DOMAIN donors
  BY <1>3
<1> QED
  BY <1>7, <1>8, <1>9, <1>10, <1>11, <1>12, <1>13 DEF DonorBooksBalance, TotalOf

LEMMA DonorsInit == Init => DonorsInv
<1> SUFFICES ASSUME Init PROVE DonorsInv
  OBVIOUS
<1>1. DOMAIN donors = {} /\ DOMAIN grants = {}
  BY DEF Init, TreasuryInit, EmptyMap
<1> QED
  BY <1>1, IdsInit DEF DonorsInv, DonorBooksBalance, GrantsOf

LEMMA DonorsNext == DonorsInv /\ [Next]_vars => DonorsInv'
<1> SUFFICES ASSUME DonorsInv, [Next]_vars PROVE DonorsInv'
  OBVIOUS
<1>0. IdsInv'
  BY IdsNext DEF DonorsInv
<1>1. CASE UNCHANGED <<donors, grants, grantCount>>
  BY <1>0, <1>1 DEF DonorsInv, DonorBooksBalance, GrantsOf
<1>2. ASSUME NEW a \in Contributor, RegisterDonor(a) PROVE DonorBooksBalance'
  <2>1. a \in Account /\ a \notin DOMAIN donors /\ grants' = grants
    BY <1>2, VendorDaoAssumption DEF RegisterDonor
  <2>2. /\ DOMAIN donors' = DOMAIN donors \cup {a}
        /\ donors'[a].total_contributed = 0 /\ donors'[a].grants_made = 0
        /\ \A d \in DOMAIN donors : donors'[d] = donors[d]
    BY <1>2 DEF RegisterDonor, Put
  <2>3. GrantsOf(a) = {}
    BY <2>1 DEF DonorsInv, DonorBooksBalance
  <2>4. Cardinality(GrantsOf(a)) = 0 /\ TotalOf(grants, GrantsOf(a)) = 0
    BY <2>3, TotalOfNone, FS_EmptySet
  <2>5. \A d : GrantsOf(d)' = GrantsOf(d)
    BY <2>1 DEF GrantsOf
  <2>6. ASSUME NEW d \in Account, GrantsOf(d)' # {} PROVE d \in DOMAIN donors'
    BY <2>2, <2>5, <2>6 DEF DonorsInv, DonorBooksBalance
  <2>7. ASSUME NEW d \in DOMAIN donors'
        PROVE  /\ donors'[d].grants_made = Cardinality(GrantsOf(d))
               /\ donors'[d].total_contributed = TotalOf(grants, GrantsOf(d))
    <3>1. CASE d = a
      BY <2>2, <2>4, <3>1
    <3>2. CASE d \in DOMAIN donors
      <4>1. donors'[d] = donors[d]
        BY <2>2, <3>2
      <4> QED
        BY <3>2, <4>1 DEF DonorsInv, DonorBooksBalance, TotalOf
    <3> QED
      BY <2>2, <3>1, <3>2
  <2> QED
    BY <2>1, <2>5, <2>6, <2>7 DEF DonorBooksBalance, TotalOf
<1>3. ASSUME NEW a \in Contributor, NEW x \in Contributions, SubmitGrant(a, x)
      PROVE  DonorBooksBalance'
  <2>1. a \in Account /\ x \in Nat
    BY TreasuryAssumption, VendorDaoAssumption
  <2> QED
    BY <1>3, <2>1, GrantBooked
<1> QED
  BY <1>0, <1>1, <1>2, <1>3, StepIsDonorStep DEF DonorSteps, DonorsInv

\* The grants registry and the donors' profiles tell the same story.
THEOREM DonorsAreBooked == Spec => []DonorBooksBalance
<1>1. DonorsInv => DonorBooksBalance
  BY DEF DonorsInv
<1> QED
  BY <1>1, DonorsInit, DonorsNext, PTL DEF Spec
-----------------------------------------------------------------------------
\* Payouts: the running total and the vendors' records are the totals of the
\* funded proposals.

PayoutsInv == IdsInv /\ RfpTermsHold /\ PayoutsBooked

\* A vendor's record shows the same payouts as before, none for a new one.
SameRecordOf(a) ==
    IF a \in DOMAIN vendors
    THEN /\ vendors'[a].total_received = vendors[a].total_received
         /\ vendors'[a].proposals_funded = vendors[a].proposals_funded
    ELSE vendors'[a].total_received = 0 /\ vendors'[a].proposals_funded = 0

NothingPaid ==
    /\ UNCHANGED totalDisbursed
    /\ Funded' = Funded
    /\ DOMAIN vendors \subseteq DOMAIN vendors'
    /\ \A a \in DOMAIN vendors' : SameRecordOf(a)

PaidNow(id) ==
    /\ id \notin Funded
    /\ Funded' = Funded \cup {id}
    /\ totalDisbursed' = totalDisbursed + proposals[id].amount
    /\ vendors' = [vendors EXCEPT ![proposals[id].vendor] = WithPayout(@, proposals[id].amount)]

\* A write of one proposal that does not make it, or leave it, funded.
LEMMA StatusUnpaid ==
    ASSUME TypeOK, NEW id \in DOMAIN proposals, proposals[id].status # "Funded",
           NEW s, s # "Funded", proposals' = [proposals EXCEPT ![id].status = s]
    PROVE  Funded' = Funded
<1>1. proposals \in [DOMAIN proposals -> Proposal]
  BY DEF TypeOK, ProposalsTypeOK, IsMap
<1>2. /\ DOMAIN proposals' = DOMAIN proposals /\ proposals'[id].status = s
      /\ \A x \in DOMAIN proposals : x # id => proposals'[x] = proposals[x]
  BY <1>1 DEF Proposal
<1> QED
  BY <1>2 DEF Funded

\* try_disburse pays or leaves the proposal approved.
LEMMA SettlePays ==
    ASSUME TypeOK, RfpTermsHold, NEW id \in DOMAIN proposals,
           proposals[id].status # "Funded", Settle(id, proposals[id])
    PROVE  NothingPaid \/ PaidNow(id)
<1> DEFINE v == proposals[id].vendor
           x == proposals[id].amount
<1>1. proposals \in [DOMAIN proposals -> Proposal] /\ v \in DOMAIN vendors
  BY DEF TypeOK, ProposalsTypeOK, IsMap, RfpTermsHold
<1>2. CASE CanPay(v, x)
  <2>1. /\ proposals' = [proposals EXCEPT ![id].status = "Funded"]
        /\ PayOut(v, x) /\ CreditVendor(v, x)
    BY <1>2 DEF Settle
  <2>2. /\ DOMAIN proposals' = DOMAIN proposals /\ proposals'[id].status = "Funded"
        /\ \A i \in DOMAIN proposals : i # id => proposals'[i] = proposals[i]
    BY <1>1, <2>1 DEF Proposal
  <2>3. Funded' = Funded \cup {id} /\ id \notin Funded
    BY <2>2 DEF Funded
  <2>4. totalDisbursed' = totalDisbursed + x
    BY <2>1 DEF PayOut
  <2>5. vendors' = [vendors EXCEPT ![v] = WithPayout(@, x)]
    BY <1>1, <2>1 DEF CreditVendor
  <2> QED
    BY <2>3, <2>4, <2>5 DEF PaidNow
<1>3. CASE ~CanPay(v, x)
  <2>1. /\ proposals' = [proposals EXCEPT ![id].status = "Approved"]
        /\ UNCHANGED <<vendors, totalDisbursed>>
    BY <1>3 DEF Settle, treasuryVars
  <2>2. Funded' = Funded
    BY <2>1, StatusUnpaid
  <2> QED
    BY <2>1, <2>2 DEF NothingPaid, SameRecordOf
<1> QED
  BY <1>2, <1>3

\* Every step pays one proposal that was not paid before, or nothing.
LEMMA StepPays ==
    ASSUME IdsInv, RfpTermsHold, [Next]_vars
    PROVE  NothingPaid \/ \E id \in DOMAIN proposals : PaidNow(id)
<1>t. /\ TypeOK /\ proposals \in [DOMAIN proposals -> Proposal]
      /\ proposalCount \notin DOMAIN proposals
      /\ vendors \in [DOMAIN vendors -> VendorInfo]
  BY DEF IdsInv, IdsDense, TypeOK, ProposalsTypeOK, RegistryTypeOK, IsMap
<1>1. CASE MoneyStep \/ ResidencyStep \/ AccountingStep \/ UNCHANGED vars
  <2>1. UNCHANGED <<vendors, proposals, totalDisbursed>>
    BY <1>1 DEF MoneyStep, FundTreasury, RegisterDonor, SubmitGrant, StakeMint, PlainTransfer,
                ResidencyStep, AccountingStep, vars, treasuryVars, ballotVars
  <2> QED
    BY <2>1 DEF NothingPaid, SameRecordOf, Funded
<1>2. CASE RegistryStep
  <2>1. UNCHANGED <<proposals, totalDisbursed>>
    BY <1>2 DEF RegistryStep, treasuryVars, ballotVars
  <2>2. DOMAIN vendors \subseteq DOMAIN vendors' /\ \A a \in DOMAIN vendors' : SameRecordOf(a)
    <3>1. ASSUME NEW a \in Candidate, NEW p \in Profile, RegisterVendor(a, p)
          PROVE  DOMAIN vendors \subseteq DOMAIN vendors'
                 /\ \A b \in DOMAIN vendors' : SameRecordOf(b)
      BY <3>1 DEF RegisterVendor, Put, SameRecordOf
    <3>2. ASSUME NEW a \in Candidate, NEW p \in Profile, UpdateVendorProfile(a, p)
          PROVE  DOMAIN vendors \subseteq DOMAIN vendors'
                 /\ \A b \in DOMAIN vendors' : SameRecordOf(b)
      BY <1>t, <3>2 DEF UpdateVendorProfile, SameRecordOf, VendorInfo
    <3>3. ASSUME NEW a \in Candidate, NEW b \in BOOLEAN, SetVendorVerified(a, b)
          PROVE  DOMAIN vendors \subseteq DOMAIN vendors'
                 /\ \A c \in DOMAIN vendors' : SameRecordOf(c)
      BY <1>t, <3>3 DEF SetVendorVerified, SameRecordOf, VendorInfo
    <3> QED
      BY <1>2, <3>1, <3>2, <3>3 DEF RegistryStep
  <2> QED
    BY <2>1, <2>2 DEF NothingPaid, Funded
<1>3. CASE ProposalStep
  <2> DEFINE Goal == NothingPaid \/ \E id \in DOMAIN proposals : PaidNow(id)
  <2>1. ASSUME UNCHANGED <<vendors, treasuryVars>>, Funded' = Funded PROVE Goal
    BY <2>1 DEF NothingPaid, SameRecordOf, treasuryVars
  <2>2. ASSUME NEW w \in Ward, NEW x \in Amounts, PostRfp(w, x) PROVE Goal
    BY <2>1, <2>2 DEF PostRfp, ballotVars, Funded
  <2>3. ASSUME NEW id \in DOMAIN rfps, CloseRfp(id) PROVE Goal
    BY <2>1, <2>3 DEF CloseRfp, ballotVars, Funded
  <2>4. ASSUME NEW a \in Proposer, NEW v \in Candidate, NEW x \in Amounts, NEW w \in Ward,
               NEW r \in DOMAIN rfps \cup {None}, SubmitProposal(a, v, x, w, r)
        PROVE  Goal
    <3>1. /\ DOMAIN proposals' = DOMAIN proposals \cup {proposalCount}
          /\ proposals'[proposalCount].status = "PendingReview"
          /\ \A i \in DOMAIN proposals : proposals'[i] = proposals[i]
      BY <1>t, <2>4 DEF SubmitProposal, Put
    <3>2. Funded' = Funded
      BY <1>t, <3>1 DEF Funded
    <3> QED
      BY <2>1, <2>4, <3>2 DEF SubmitProposal
  <2>5. ASSUME NEW id \in DOMAIN proposals, NEW b \in BOOLEAN, VetProposal(id, b) PROVE Goal
    <3>1. proposals[id].status # "Funded" /\ UNCHANGED <<vendors, treasuryVars>>
      BY <2>5 DEF VetProposal, InStatus
    <3>2. CASE b
      <4> DEFINE e == now + VotingPeriod
      <4>1. proposals' = [proposals EXCEPT ![id].status = "Proposed", ![id].voting_end = e]
        BY <2>5, <3>2 DEF VetProposal
      <4> HIDE DEF e
      <4>2. /\ DOMAIN proposals' = DOMAIN proposals /\ proposals'[id].status = "Proposed"
            /\ \A i \in DOMAIN proposals : i # id => proposals'[i] = proposals[i]
        BY <1>t, <4>1 DEF Proposal
      <4>3. Funded' = Funded
        BY <3>1, <4>2 DEF Funded
      <4> QED
        BY <2>1, <3>1, <4>3
    <3>3. CASE ~b
      <4>1. Funded' = Funded
        BY <1>t, <2>5, <3>1, <3>3, StatusUnpaid DEF VetProposal
      <4> QED
        BY <2>1, <3>1, <4>1
    <3> QED
      BY <3>2, <3>3
  <2>6. ASSUME NEW a \in Voter, NEW id \in DOMAIN proposals, NEW b \in BOOLEAN, Vote(a, id, b)
        PROVE  Goal
    <3>1. /\ DOMAIN proposals' = DOMAIN proposals
          /\ \A i \in DOMAIN proposals : proposals'[i].status = proposals[i].status
      BY <1>t, <2>6 DEF Vote, Count, Proposal
    <3>2. Funded' = Funded
      BY <3>1 DEF Funded
    <3> QED
      BY <2>1, <2>6, <3>2 DEF Vote, Count
  <2>7. ASSUME NEW id \in DOMAIN proposals, CloseProposal(id) PROVE Goal
    <3>1. proposals[id].status # "Funded"
      BY <2>7 DEF CloseProposal, InStatus
    <3>2. CASE Passes(proposals[id].ayes, proposals[id].nays)
      BY <1>t, <2>7, <3>1, <3>2, SettlePays DEF CloseProposal
    <3>3. CASE ~Passes(proposals[id].ayes, proposals[id].nays)
      <4>1. Funded' = Funded
        BY <1>t, <2>7, <3>1, <3>3, StatusUnpaid DEF CloseProposal
      <4> QED
        BY <2>1, <2>7, <3>3, <4>1 DEF CloseProposal
    <3> QED
      BY <3>2, <3>3
  <2>8. ASSUME NEW id \in DOMAIN proposals, Disburse(id) PROVE Goal
    BY <1>t, <2>8, SettlePays DEF Disburse, InStatus
  <2>9. ASSUME NEW a \in Proposer, NEW id \in DOMAIN proposals, CancelProposal(a, id)
        PROVE  Goal
    <3>1. Funded' = Funded
      BY <1>t, <2>9, StatusUnpaid DEF CancelProposal
    <3> QED
      BY <2>1, <2>9, <3>1 DEF CancelProposal
  <2> QED
    BY <1>3, <2>2, <2>3, <2>4, <2>5, <2>6, <2>7, <2>8, <2>9 DEF ProposalStep
<1> QED
  BY <1>1, <1>2, <1>3 DEF Next

\* What is known of the amounts of funded proposals.
LEMMA FundedAmounting ==
    ASSUME IdsInv, NEW S, S \subseteq DOMAIN proposals
    PROVE  IsFiniteSet(S) /\ Amounting(proposals, S)
<1>1. /\ proposals \in [DOMAIN proposals -> Proposal] /\ proposalCount \in Nat
      /\ DOMAIN proposals = 0 .. proposalCount - 1
  BY DEF IdsInv, TypeOK, ProposalsTypeOK, IsMap, IdsDense
<1>2. IsFiniteSet(DOMAIN proposals)
  <2>1. 0 \in Int /\ proposalCount - 1 \in Int
    BY <1>1
  <2> QED
    BY <1>1, <2>1, FS_Interval
<1> QED
  BY <1>1, <1>2, FS_Subset DEF Amounting, AmountOf, Proposal

LEMMA AmountsKept ==
    ASSUME KeepsTerms, NEW S, S \subseteq DOMAIN proposals
    PROVE  SameAmounts(proposals, proposals', S)
BY DEF KeepsTerms, SameProposalTerms, SameAmounts

\* The funded proposals of a vendor, when nothing or one more is funded.
LEMMA FundedForStep ==
    ASSUME KeepsTerms, NEW a
    PROVE  /\ Funded' = Funded => FundedFor(a)' = FundedFor(a)
           /\ \A id \in DOMAIN proposals : Funded' = Funded \cup {id} =>
                  FundedFor(a)' = FundedFor(a) \cup
                      (IF proposals[id].vendor = a THEN {id} ELSE {})
<1>1. \A i \in DOMAIN proposals : proposals'[i].vendor = proposals[i].vendor
  BY DEF KeepsTerms, SameProposalTerms
<1>2. Funded \subseteq DOMAIN proposals
  BY DEF Funded
<1> QED
  BY <1>1, <1>2 DEF FundedFor

LEMMA NothingPaidBooked ==
    ASSUME PayoutsInv, KeepsTerms, NothingPaid PROVE PayoutsBooked'
<1> USE DEF PayoutsInv
<1>1. Paid(Funded)' = Paid(Funded)
  <2>1. Funded' = Funded /\ SameAmounts(proposals, proposals', Funded)
    BY AmountsKept DEF NothingPaid, Funded
  <2> QED
    BY <2>1, TotalSame DEF Paid, TotalOf
<1>2. ASSUME NEW a \in DOMAIN vendors'
      PROVE  /\ vendors'[a].total_received = Paid(FundedFor(a))'
             /\ vendors'[a].proposals_funded = Cardinality(FundedFor(a)')
  <2>1. FundedFor(a)' = FundedFor(a)
    BY FundedForStep DEF NothingPaid
  <2>2. Paid(FundedFor(a))' = Paid(FundedFor(a))
    <3>1. SameAmounts(proposals, proposals', FundedFor(a))
      BY AmountsKept DEF FundedFor, Funded
    <3> QED
      BY <2>1, <3>1, TotalSame DEF Paid, TotalOf
  <2>3. SameRecordOf(a)
    BY DEF NothingPaid
  <2>4. CASE a \in DOMAIN vendors
    BY <2>1, <2>2, <2>3, <2>4 DEF SameRecordOf, PayoutsBooked
  <2>5. CASE a \notin DOMAIN vendors
    <3>1. FundedFor(a) = {}
      BY <2>5 DEF RfpTermsHold, FundedFor, Funded
    <3>2. Cardinality(FundedFor(a)) = 0 /\ Paid(FundedFor(a)) = 0
      BY <3>1, TotalOfNone, FS_EmptySet DEF Paid, TotalOf
    <3> QED
      BY <2>1, <2>2, <2>3, <2>5, <3>2 DEF SameRecordOf
  <2> QED
    BY <2>4, <2>5
<1> QED
  BY <1>1, <1>2 DEF PayoutsBooked, NothingPaid

LEMMA PaidOneMore ==
    ASSUME IdsInv, IdsInv', KeepsTerms, NEW S, S \subseteq Funded,
           NEW id \in DOMAIN proposals, id \notin Funded
    PROVE  TotalOf(proposals', S \cup {id}) = TotalOf(proposals, S) + proposals[id].amount
           /\ Cardinality(S \cup {id}) = Cardinality(S) + 1
<1>1. S \subseteq DOMAIN proposals /\ id \notin S
  BY DEF Funded
<1>2. Amounting(proposals, S) /\ IsFiniteSet(S) /\ SameAmounts(proposals, proposals', S)
  BY <1>1, FundedAmounting, AmountsKept
<1>3. S \cup {id} \subseteq DOMAIN proposals' /\ proposals'[id].amount = proposals[id].amount
  BY <1>1 DEF KeepsTerms, SameProposalTerms
<1>4. Amounting(proposals', S \cup {id})
  <2>1. IsFiniteSet(S \cup {id})
    BY <1>2, FS_AddElement
  <2>2. proposals' \in [DOMAIN proposals' -> Proposal]
    BY DEF IdsInv, TypeOK, ProposalsTypeOK, IsMap
  <2> QED
    BY <1>3, <2>1, <2>2 DEF Amounting, AmountOf, Proposal
<1>5. TotalOf(proposals', S \cup {id}) = TotalOf(proposals, S) + AmountOf(proposals', id)
  BY <1>1, <1>2, <1>4, TotalOneMore
<1>6. Cardinality(S \cup {id}) = Cardinality(S) + 1
  BY <1>1, <1>2, FS_AddElement
<1> QED
  BY <1>3, <1>5, <1>6 DEF AmountOf

LEMMA PaidNowBooked ==
    ASSUME PayoutsInv, IdsInv', KeepsTerms, NEW id \in DOMAIN proposals, PaidNow(id)
    PROVE  PayoutsBooked'
<1> USE DEF PayoutsInv
<1>p. PICK v, x : v = proposals[id].vendor /\ x = proposals[id].amount
  OBVIOUS
<1>t. /\ vendors \in [DOMAIN vendors -> VendorInfo] /\ v \in DOMAIN vendors /\ x \in Nat
  BY <1>p DEF IdsInv, TypeOK, RegistryTypeOK, ProposalsTypeOK, IsMap, RfpTermsHold, Proposal
<1>1. /\ id \notin Funded /\ Funded' = Funded \cup {id}
      /\ totalDisbursed' = totalDisbursed + x
      /\ vendors' = [vendors EXCEPT ![v] = WithPayout(vendors[v], x)]
  BY <1>p DEF PaidNow
<1>2. totalDisbursed' = Paid(Funded)'
  <2>1. TotalOf(proposals', Funded \cup {id}) = TotalOf(proposals, Funded) + x
    BY <1>1, PaidOneMore, <1>p
  <2> QED
    BY <1>1, <2>1 DEF Paid, TotalOf, PayoutsBooked
<1>3. /\ vendors'[v].total_received = Paid(FundedFor(v))'
      /\ vendors'[v].proposals_funded = Cardinality(FundedFor(v)')
  <2>1. FundedFor(v)' = FundedFor(v) \cup {id}
    BY <1>1, <1>p, FundedForStep
  <2>2. FundedFor(v) \subseteq Funded
    BY DEF FundedFor
  <2>3. /\ TotalOf(proposals', FundedFor(v) \cup {id}) = TotalOf(proposals, FundedFor(v)) + x
        /\ Cardinality(FundedFor(v) \cup {id}) = Cardinality(FundedFor(v)) + 1
    BY <1>1, <2>2, PaidOneMore, <1>p
  <2>4. /\ vendors'[v].total_received = vendors[v].total_received + x
        /\ vendors'[v].proposals_funded = vendors[v].proposals_funded + 1
    BY <1>t, <1>1 DEF WithPayout
  <2>5. /\ vendors[v].total_received = Paid(FundedFor(v))
        /\ vendors[v].proposals_funded = Cardinality(FundedFor(v))
    BY <1>t DEF PayoutsBooked
  <2> QED
    BY <2>1, <2>3, <2>4, <2>5 DEF Paid, TotalOf
<1>4. ASSUME NEW a \in DOMAIN vendors, a # v
      PROVE  /\ vendors'[a].total_received = Paid(FundedFor(a))'
             /\ vendors'[a].proposals_funded = Cardinality(FundedFor(a)')
  <2>1. FundedFor(a)' = FundedFor(a)
    BY <1>1, <1>4, FundedForStep, <1>p
  <2>2. Paid(FundedFor(a))' = Paid(FundedFor(a))
    <3>1. SameAmounts(proposals, proposals', FundedFor(a))
      BY AmountsKept DEF FundedFor, Funded
    <3> QED
      BY <2>1, <3>1, TotalSame DEF Paid, TotalOf
  <2>3. vendors'[a] = vendors[a]
    BY <1>1, <1>4
  <2> QED
    BY <2>1, <2>2, <2>3 DEF PayoutsBooked
<1>5. DOMAIN vendors' = DOMAIN vendors
  BY <1>1
<1>6. ASSUME NEW a \in DOMAIN vendors'
      PROVE  /\ vendors'[a].total_received = Paid(FundedFor(a))'
             /\ vendors'[a].proposals_funded = Cardinality(FundedFor(a)')
  BY <1>3, <1>4, <1>5
<1> QED
  BY <1>2, <1>6 DEF PayoutsBooked

LEMMA PayoutsInit == Init => PayoutsInv
<1> SUFFICES ASSUME Init PROVE PayoutsInv
  OBVIOUS
<1>1. DOMAIN vendors = {} /\ DOMAIN proposals = {} /\ totalDisbursed = 0
  BY DEF Init, RegistryInit, ProposalsInit, TreasuryInit, EmptyMap
<1>2. Funded = {}
  BY <1>1 DEF Funded
<1>3. Paid(Funded) = 0
  BY <1>2, TotalOfNone DEF Paid, TotalOf
<1> QED
  BY <1>1, <1>3, IdsInit, TermsInit DEF PayoutsInv, PayoutsBooked, TermsInv

LEMMA PayoutsNext == PayoutsInv /\ [Next]_vars => PayoutsInv'
<1> SUFFICES ASSUME PayoutsInv, [Next]_vars PROVE PayoutsInv'
  OBVIOUS
<1> USE DEF PayoutsInv
<1>1. TermsInv
  BY IdsAhead DEF TermsInv, IdsInv
<1>2. IdsInv' /\ RfpTermsHold'
  BY <1>1, IdsNext, TermsNext DEF TermsInv
<1>3. KeepsTerms
  BY <1>1, StepKeepsTerms DEF TermsInv
<1> QED
  BY <1>2, <1>3, StepPays, NothingPaidBooked, PaidNowBooked

\* The public totals are exactly what the funded proposals add up to.
THEOREM PayoutsAreBooked == Spec => []PayoutsBooked
<1>1. PayoutsInv => PayoutsBooked
  BY DEF PayoutsInv
<1> QED
  BY <1>1, PayoutsInit, PayoutsNext, PTL DEF Spec
-----------------------------------------------------------------------------
\* Receipts: together they never exceed the payout they account for.

ReceiptsInv == IdsInv /\ RfpTermsHold /\ ReceiptsCovered

\* What ReceiptsCovered says of one proposal.
Covered(id) ==
    /\ id \in Funded
    /\ TotalOf(receipts, ReceiptsOf(id)) <= proposals[id].amount
    /\ \A k \in ReceiptsOf(id) : receipts[k].vendor = proposals[id].vendor

LEMMA CoveredIsThat ==
    /\ ReceiptsCovered <=> \A id : ReceiptsOf(id) # {} => Covered(id)
    /\ ReceiptsCovered' <=> \A id : ReceiptsOf(id)' # {} => Covered(id)'
<1>1. /\ \A id : ReceiptsOf(id) # {} <=> id \in {k[1] : k \in DOMAIN receipts}
      /\ \A id : ReceiptsOf(id)' # {} <=> id \in {k[1] : k \in DOMAIN receipts'}
  BY DEF ReceiptsOf
<1> QED
  BY <1>1 DEF ReceiptsCovered, Covered, InStatus, Funded, TotalOf

\* The receipts of a proposal are finitely many, and their amounts numbers.
LEMMA ReceiptsAmounting ==
    ASSUME IdsInv, NEW id \in DOMAIN proposals
    PROVE  Amounting(receipts, ReceiptsOf(id))
<1> DEFINE n == CountAt(receiptCount, id)
<1>1. /\ receipts \in [DOMAIN receipts -> Receipt] /\ id \in ProposalId
      /\ DOMAIN receipts \subseteq ProposalId \X Nat
  BY DEF IdsInv, TypeOK, ProposalsTypeOK, IsMap, ReceiptId
<1>2. n \in Nat /\ ReceiptIds(id) = 0 .. n - 1
  BY <1>1, ReceiptsBelow
<1> HIDE DEF n
<1>3. ReceiptsOf(id) \subseteq {id} \X (0 .. n - 1)
  <2>1. ASSUME NEW k \in ReceiptsOf(id) PROVE k \in {id} \X (0 .. n - 1)
    <3>1. k \in ProposalId \X Nat /\ k[1] = id /\ k[2] \in ReceiptIds(id)
      BY <1>1 DEF ReceiptsOf, ReceiptIds
    <3> QED
      BY <1>2, <3>1
  <2> QED
    BY <2>1
<1>4. IsFiniteSet({id} \X (0 .. n - 1))
  <2>1. 0 \in Int /\ n - 1 \in Int
    BY <1>2
  <2> QED
    BY <2>1, FS_Interval, FS_Singleton, FS_Product
<1>5. IsFiniteSet(ReceiptsOf(id))
  BY <1>3, <1>4, FS_Subset
<1> QED
  BY <1>1, <1>5 DEF Amounting, AmountOf, ReceiptsOf, Receipt

\* Nothing that was funded stops being so.
LEMMA StaysFunded == ASSUME NothingPaid \/ \E id \in DOMAIN proposals : PaidNow(id)
                     PROVE  Funded \subseteq Funded'
BY DEF NothingPaid, PaidNow

LEMMA ReceiptsUntouched ==
    ASSUME ReceiptsInv, KeepsTerms, Funded \subseteq Funded', NEW id,
           ReceiptsOf(id)' = ReceiptsOf(id), ReceiptsOf(id) # {},
           \A k \in ReceiptsOf(id) : receipts'[k] = receipts[k]
    PROVE  Covered(id)'
<1>1. Covered(id)
  BY CoveredIsThat DEF ReceiptsInv
<1>2. TotalOf(receipts', ReceiptsOf(id)) = TotalOf(receipts, ReceiptsOf(id))
  BY TotalSame DEF SameAmounts
<1>3. id \in DOMAIN proposals /\ id \in Funded'
  BY <1>1 DEF Covered, Funded
<1>4. proposals'[id].amount = proposals[id].amount /\ proposals'[id].vendor = proposals[id].vendor
  BY <1>3 DEF KeepsTerms, SameProposalTerms
<1> QED
  BY <1>1, <1>2, <1>3, <1>4 DEF Covered

LEMMA ReceiptCovered ==
    ASSUME ReceiptsInv, IdsInv', NEW a \in Account, NEW id \in DOMAIN proposals, NEW x \in Nat,
           PostSpendingReceipt(a, id, x), UNCHANGED proposals
    PROVE  Covered(id)'
<1>p. PICK n, r, k : /\ n = CountAt(receiptCount, id) /\ k = <<id, n>>
                     /\ r = [vendor |-> a, amount |-> x]
  OBVIOUS
<1>1. /\ receipts' = Put(receipts, k, r)
      /\ id \in Funded /\ proposals[id].vendor = a
      /\ TotalOf(receipts, ReceiptsOf(id)) + x <= proposals[id].amount
  BY <1>p DEF PostSpendingReceipt, InStatus, Funded, AlreadyReceipted, TotalOf
<1>2. k \notin DOMAIN receipts /\ k[1] = id
  <2>1. n \in Nat /\ \A j \in DOMAIN receipts : j[2] < CountAt(receiptCount, j[1])
    BY <1>p, ReceiptsBelow DEF ReceiptsInv, IdsInv, IdsDense, TypeOK, ProposalsTypeOK, IsMap
  <2> QED
    BY <1>p, <2>1
<1>3. r.vendor = a /\ r.amount = x
  BY <1>p
<1>4. /\ DOMAIN receipts' = DOMAIN receipts \cup {k} /\ receipts'[k] = r
      /\ \A j \in DOMAIN receipts : receipts'[j] = receipts[j]
  BY <1>1, <1>2 DEF Put
<1>5. ReceiptsOf(id)' = ReceiptsOf(id) \cup {k} /\ k \notin ReceiptsOf(id)
      /\ ReceiptsOf(id) \subseteq DOMAIN receipts
  BY <1>2, <1>4 DEF ReceiptsOf
<1>6. TotalOf(receipts', ReceiptsOf(id)') = TotalOf(receipts, ReceiptsOf(id)) + x
  <2>1. Amounting(receipts, ReceiptsOf(id))
    BY ReceiptsAmounting DEF ReceiptsInv
  <2> QED
    BY <1>1, <1>2, <1>3, <1>5, <2>1, TotalOfPut
<1>7. \A j \in ReceiptsOf(id)' : receipts'[j].vendor = a
  <2>1. ASSUME NEW j \in ReceiptsOf(id) PROVE receipts'[j].vendor = a
    <3>1. Covered(id)
      BY CoveredIsThat DEF ReceiptsInv
    <3> QED
      BY <1>1, <1>4, <1>5, <3>1 DEF Covered
  <2> QED
    BY <1>3, <1>4, <1>5, <2>1
<1>8. id \in Funded'
  BY <1>1 DEF Funded
<1> QED
  BY <1>1, <1>6, <1>7, <1>8 DEF Covered

LEMMA ReceiptsNext == ReceiptsInv /\ [Next]_vars => ReceiptsInv'
<1> SUFFICES ASSUME ReceiptsInv, [Next]_vars PROVE ReceiptsInv'
  OBVIOUS
<1> USE DEF ReceiptsInv
<1>1. TermsInv
  BY IdsAhead DEF TermsInv, IdsInv
<1>2. IdsInv' /\ RfpTermsHold'
  BY <1>1, IdsNext, TermsNext DEF TermsInv
<1>3. KeepsTerms /\ Funded \subseteq Funded'
  BY <1>1, StepKeepsTerms, StepPays, StaysFunded DEF TermsInv
<1>4. CASE UNCHANGED <<receiptCount, receipts>>
  <2>1. \A id : ReceiptsOf(id)' = ReceiptsOf(id)
    BY <1>4 DEF ReceiptsOf
  <2>2. ASSUME NEW id, ReceiptsOf(id)' # {} PROVE Covered(id)'
    BY <1>3, <1>4, <2>1, <2>2, ReceiptsUntouched
  <2> QED
    BY <1>2, <2>2, CoveredIsThat
<1>5. ASSUME NEW a \in Candidate, NEW id \in DOMAIN proposals, NEW x \in ReceiptAmounts,
             PostSpendingReceipt(a, id, x)
      PROVE  ReceiptsInv'
  <2>1. a \in Account /\ x \in Nat
    BY VendorDaoAssumption
  <2>2. CASE UNCHANGED proposals
    <3>1. Covered(id)'
      BY <1>2, <1>5, <2>1, <2>2, ReceiptCovered
    <3>2. ASSUME NEW i, i # id, ReceiptsOf(i)' # {} PROVE Covered(i)'
      <4>1. /\ ReceiptsOf(i)' = ReceiptsOf(i)
            /\ \A k \in ReceiptsOf(i) : receipts'[k] = receipts[k]
        BY <1>5, <3>2 DEF PostSpendingReceipt, Put, ReceiptsOf
      <4> QED
        BY <1>3, <3>2, <4>1, ReceiptsUntouched
    <3> QED
      BY <1>2, <3>1, <3>2, CoveredIsThat
  <2>3. CASE ~UNCHANGED proposals
    <3>1. UNCHANGED <<receiptCount, receipts>>
      BY <2>3 DEF Next, MoneyStep, ResidencyStep, RegistryStep, ProposalStep, AccountingStep,
                  vars, ballotVars, receiptVars
    <3> QED
      BY <1>4, <3>1
  <2> QED
    BY <2>2, <2>3
<1> QED
  BY <1>4, <1>5, StepIsRecordStep DEF RecordSteps

LEMMA ReceiptsInit == Init => ReceiptsInv
<1> SUFFICES ASSUME Init PROVE ReceiptsInv
  OBVIOUS
<1>1. DOMAIN receipts = {}
  BY DEF Init, EmptyMap
<1> QED
  BY <1>1, IdsInit, TermsInit DEF ReceiptsInv, TermsInv, ReceiptsCovered

\* Only money that was paid is accounted for, by its vendor, and never twice.
THEOREM ReceiptsAreCovered == Spec => []ReceiptsCovered
<1>1. ReceiptsInv => ReceiptsCovered
  BY DEF ReceiptsInv
<1> QED
  BY <1>1, ReceiptsInit, ReceiptsNext, PTL DEF Spec

-----------------------------------------------------------------------------
\* The views: a list that a page has loaded is as old as its read, but nothing
\* it says of a payout is ever taken back.

PartFor(ps, a) == {id \in FundedIn(ps) : ps[id].vendor = a}

\* What a list of proposals says: terms never change and payouts are final.
Listed(ps) ==
    /\ \A id \in DOMAIN ps :
          /\ id \in DOMAIN proposals
          /\ ps[id].amount = proposals[id].amount /\ ps[id].vendor = proposals[id].vendor
    /\ FundedIn(ps) \subseteq Funded

\* A vendor's record is that of the payouts F to it, and of two reads one is
\* the older: F has all the payouts of the list to the vendor, or only such.
RecordShows(ps, record, a, F) ==
    /\ F \subseteq FundedFor(a)
    /\ record.totalReceived = TotalOf(proposals, F)
    /\ record.proposalsFunded = Cardinality(F)
    /\ F \subseteq PartFor(ps, a) \/ PartFor(ps, a) \subseteq F

Recorded(ps, vs) == \A a \in DOMAIN vs : \E F : RecordShows(ps, vs[a], a, F)

ListsInv ==
    /\ PayoutsInv
    /\ loaded = [proposals |-> loaded.proposals, vendors |-> loaded.vendors]
    /\ Listed(loaded.proposals)
    /\ Recorded(loaded.proposals, loaded.vendors)

LEMMA ListsInit == ViewsInit => ListsInv
<1> SUFFICES ASSUME ViewsInit PROVE ListsInv
  OBVIOUS
<1>1. /\ loaded = [proposals |-> EmptyMap, vendors |-> EmptyMap]
      /\ DOMAIN EmptyMap = {}
  BY DEF ViewsInit, EmptyMap
<1>2. PayoutsInv
  BY PayoutsInit DEF ViewsInit
<1>3. Listed(EmptyMap) /\ Recorded(EmptyMap, EmptyMap)
  BY <1>1 DEF Listed, Recorded, FundedIn
<1> QED
  BY <1>1, <1>2, <1>3 DEF ListsInv

\* A step of the pallet leaves true what the lists say.
LEMMA StepKeepsLists ==
    ASSUME KeepsTerms, Funded \subseteq Funded', NEW ps, NEW vs, Listed(ps), Recorded(ps, vs)
    PROVE  Listed(ps)' /\ Recorded(ps, vs)'
<1>1. Listed(ps)'
  BY DEF Listed, KeepsTerms, SameProposalTerms
<1>2. ASSUME NEW a \in DOMAIN vs, NEW F, RecordShows(ps, vs[a], a, F)
      PROVE  RecordShows(ps, vs[a], a, F)'
  <2>1. F \subseteq FundedFor(a) /\ F \subseteq DOMAIN proposals
    BY <1>2 DEF RecordShows, FundedFor, Funded
  <2>2. FundedFor(a) \subseteq FundedFor(a)'
    BY DEF KeepsTerms, SameProposalTerms, FundedFor, Funded
  <2>3. TotalOf(proposals', F) = TotalOf(proposals, F)
    BY <2>1, AmountsKept, TotalSame
  <2> QED
    BY <1>2, <2>1, <2>2, <2>3 DEF RecordShows
<1> QED
  BY <1>1, <1>2 DEF Recorded

\* What a read of the proposals returns.
LEMMA ProposalsRead ==
    ASSUME NEW ps, ps = [id \in DOMAIN proposals |-> decodeProposal(id)]
    PROVE  /\ Listed(ps) /\ FundedIn(ps) = Funded
           /\ \A a : PartFor(ps, a) = FundedFor(a)
<1>1. \A id \in DOMAIN proposals :
         /\ ps[id].status = proposals[id].status /\ ps[id].amount = proposals[id].amount
         /\ ps[id].vendor = proposals[id].vendor
  BY DEF decodeProposal
<1>2. DOMAIN ps = DOMAIN proposals
  OBVIOUS
<1> QED
  BY <1>1, <1>2 DEF Listed, FundedIn, Funded, PartFor, FundedFor

LEMMA ReadProposalsKeepsLists ==
    ASSUME NEW ps, ps = [id \in DOMAIN proposals |-> decodeProposal(id)],
           NEW old, NEW vs, Recorded(old, vs)
    PROVE  Listed(ps) /\ Recorded(ps, vs)
<1>1. ASSUME NEW a, NEW record, NEW F, RecordShows(old, record, a, F)
      PROVE  RecordShows(ps, record, a, F)
  BY <1>1, ProposalsRead DEF RecordShows
<1> QED
  BY <1>1, ProposalsRead DEF Recorded

LEMMA ReadVendorsKeepsLists ==
    ASSUME PayoutsInv, NEW ps, Listed(ps),
           NEW vs, vs = [a \in DOMAIN vendors |-> decodeVendor(a)]
    PROVE  Recorded(ps, vs)
<1> SUFFICES ASSUME NEW a \in DOMAIN vendors PROVE RecordShows(ps, vs[a], a, FundedFor(a))
  BY DEF Recorded
<1>1. /\ vs[a].totalReceived = vendors[a].total_received
      /\ vs[a].proposalsFunded = vendors[a].proposals_funded
  BY DEF decodeVendor
<1>2. /\ vendors[a].total_received = TotalOf(proposals, FundedFor(a))
      /\ vendors[a].proposals_funded = Cardinality(FundedFor(a))
  BY DEF PayoutsInv, PayoutsBooked, Paid, TotalOf
<1>3. PartFor(ps, a) \subseteq FundedFor(a)
  BY DEF PartFor, Listed, FundedIn, FundedFor
<1> QED
  BY <1>1, <1>2, <1>3 DEF RecordShows

LEMMA ListsNext == ListsInv /\ [ViewsNext]_viewVars => ListsInv'
<1> SUFFICES ASSUME ListsInv, [ViewsNext]_viewVars PROVE ListsInv'
  OBVIOUS
<1>1. [Next]_vars
  BY DEF ViewsNext, viewVars
<1>2. PayoutsInv'
  BY <1>1, PayoutsNext DEF ListsInv
<1>3. PICK ps, vs : ps = loaded.proposals /\ vs = loaded.vendors
  OBVIOUS
<1>4. loaded = [proposals |-> ps, vendors |-> vs] /\ Listed(ps) /\ Recorded(ps, vs)
  BY <1>3 DEF ListsInv
<1>5. CASE UNCHANGED loaded
  <2>0. IdsInv /\ RfpTermsHold
    BY DEF ListsInv, PayoutsInv
  <2>1. TermsInv
    BY <2>0, IdsAhead DEF TermsInv, IdsInv
  <2>2. KeepsTerms /\ Funded \subseteq Funded'
    BY <1>1, <2>0, <2>1, StepKeepsTerms, StepPays, StaysFunded DEF TermsInv
  <2>3. Listed(ps)' /\ Recorded(ps, vs)'
    BY <1>4, <2>2, StepKeepsLists
  <2>4. loaded' = [proposals |-> ps, vendors |-> vs]
    BY <1>4, <1>5
  <2> QED
    BY <1>2, <2>3, <2>4 DEF ListsInv
<1>6. ASSUME UNCHANGED vars, NEW new, NEW newVs, loaded' = [proposals |-> new, vendors |-> newVs],
             Listed(new), Recorded(new, newVs)
      PROVE  ListsInv'
  <2>1. UNCHANGED <<proposals, vendors>>
    BY <1>6 DEF vars, ballotVars
  <2>2. Listed(new)' /\ Recorded(new, newVs)'
    BY <1>6, <2>1 DEF Listed, Recorded, RecordShows, Funded, FundedFor
  <2> QED
    BY <1>2, <1>6, <2>2 DEF ListsInv
<1>7. CASE useProposals /\ UNCHANGED vars
  <2>1. PICK new : new = [id \in DOMAIN proposals |-> decodeProposal(id)]
    OBVIOUS
  <2>2. loaded' = [proposals |-> new, vendors |-> vs]
    BY <1>4, <1>7, <2>1 DEF useProposals
  <2> QED
    BY <1>4, <1>6, <1>7, <2>1, <2>2, ReadProposalsKeepsLists
<1>8. CASE useVendors /\ UNCHANGED vars
  <2>1. PICK new : new = [a \in DOMAIN vendors |-> decodeVendor(a)]
    OBVIOUS
  <2>2. loaded' = [proposals |-> ps, vendors |-> new]
    BY <1>4, <1>8, <2>1 DEF useVendors
  <2>3. Recorded(ps, new)
    BY <1>4, <2>1, ReadVendorsKeepsLists DEF ListsInv
  <2> QED
    BY <1>4, <1>6, <1>8, <2>2, <2>3
<1> QED
  BY <1>5, <1>7, <1>8 DEF ViewsNext, viewVars

\* The slices of a breakdown are a partition, by whatever key.
LEMMA SlicesAreParts ==
    ASSUME NEW funded, NEW K, NEW k \in [funded -> K], K = {k[id] : id \in funded}
    PROVE  Parts([x \in K |-> {id \in funded : k[id] = x}], funded)
BY DEF Parts

LEMMA WardsAreParts == ASSUME NEW ps PROVE Parts(buildWardBreakdown(ps), FundedIn(ps))
<1>1. PICK funded, K : funded = FundedIn(ps) /\ K = {ps[id].ward : id \in funded}
  OBVIOUS
<1>2. PICK k \in [funded -> K] : k = [id \in funded |-> ps[id].ward]
  BY <1>1
<1>3. buildWardBreakdown(ps) = [x \in K |-> {id \in funded : k[id] = x}]
  BY <1>1, <1>2 DEF buildWardBreakdown, FundedBy
<1>4. K = {k[id] : id \in funded}
  BY <1>1, <1>2
<1>5. Parts([x \in K |-> {id \in funded : k[id] = x}], funded)
  BY <1>4, SlicesAreParts
<1> QED
  BY <1>1, <1>3, <1>5

LEMMA CategoriesAreParts ==
    ASSUME NEW ps, NEW vs PROVE Parts(buildCategoryBreakdown(ps, vs), FundedIn(ps))
<1> DEFINE key(p) == IF p.vendor \in DOMAIN vs THEN vs[p.vendor].category ELSE "Other"
<1>1. PICK funded, K : funded = FundedIn(ps) /\ K = {key(ps[id]) : id \in funded}
  OBVIOUS
<1>2. PICK k \in [funded -> K] : k = [id \in funded |-> key(ps[id])]
  BY <1>1
<1>3. buildCategoryBreakdown(ps, vs)
      = [x \in {key(ps[id]) : id \in funded} |-> {id \in funded : key(ps[id]) = x}]
  BY <1>1 DEF buildCategoryBreakdown, FundedBy
<1> HIDE DEF key
<1>4. buildCategoryBreakdown(ps, vs) = [x \in K |-> {id \in funded : k[id] = x}]
  BY <1>1, <1>2, <1>3
<1>5. K = {k[id] : id \in funded}
  BY <1>1, <1>2
<1>6. Parts([x \in K |-> {id \in funded : k[id] = x}], funded)
  BY <1>5, SlicesAreParts
<1> QED
  BY <1>1, <1>4, <1>6

\* The bars of the vendors' chart, their payouts and how many they count.
LEMMA BarsAreParts ==
    ASSUME NEW ps, NEW vs, NEW bars, bars = buildVendorBreakdown(ps, vs)
    PROVE  /\ Parts([a \in DOMAIN bars |-> bars[a].totalFunded], FundedIn(ps))
           /\ \A a \in DOMAIN bars : /\ bars[a].totalFunded = PartFor(ps, a)
                                     /\ bars[a].proposalsFunded = Cardinality(PartFor(ps, a))
<1>1. PICK funded, K : funded = FundedIn(ps) /\ K = {ps[id].vendor : id \in funded}
  OBVIOUS
<1>2. PICK k \in [funded -> K] : k = [id \in funded |-> ps[id].vendor]
  BY <1>1
<1>3. /\ DOMAIN bars = K
      /\ \A a \in K : /\ bars[a].totalFunded = PartFor(ps, a)
                      /\ bars[a].proposalsFunded = Cardinality(PartFor(ps, a))
  BY <1>1 DEF buildVendorBreakdown, FundedBy, PartFor
<1>4. \A a \in K : PartFor(ps, a) = {id \in funded : k[id] = a}
  BY <1>1, <1>2 DEF PartFor
<1>5. [a \in DOMAIN bars |-> bars[a].totalFunded] = [a \in K |-> {id \in funded : k[id] = a}]
  BY <1>3, <1>4
<1>6. K = {k[id] : id \in funded}
  BY <1>1, <1>2
<1>7. Parts([a \in K |-> {id \in funded : k[id] = a}], funded)
  BY <1>6, SlicesAreParts
<1> QED
  BY <1>1, <1>3, <1>5, <1>7

\* Every payout of the list has its row, and no other row is of a payout.
LEMMA RowsArePayouts == {r.key : r \in PayoutRows} = FundedIn(loaded.proposals)
<1>1. PICK ps : ps = loaded.proposals
  OBVIOUS
<1>2. ASSUME NEW b, NEW t, NEW k, NEW x, NEW a
      PROVE  Row(b, t, k, x, a).type = t /\ Row(b, t, k, x, a).key = k
  BY DEF Row
<1>3. ASSUME NEW id, NEW r \in DecisionRows(ps[id], id), r.type = "ProposalFunded"
      PROVE  r.key = id /\ ps[id].status = "Funded"
  BY <1>2, <1>3 DEF DecisionRows
<1>4. ASSUME NEW id, ps[id].status = "Funded"
      PROVE  \E r \in DecisionRows(ps[id], id) : r.type = "ProposalFunded" /\ r.key = id
  BY <1>2, <1>4 DEF DecisionRows
<1> QED
  BY <1>1, <1>3, <1>4 DEF PayoutRows, FundedIn

\* Some of the payouts that were made are worth no more than all of them.
LEMMA PartWorthLess ==
    ASSUME PayoutsInv, NEW S, S \subseteq Funded PROVE TotalOf(proposals, S) <= totalDisbursed
<1>1. IsFiniteSet(Funded) /\ Amounting(proposals, Funded)
  BY FundedAmounting DEF PayoutsInv, Funded
<1>2. PICK f \in [Funded -> Nat] : f = [id \in Funded |-> proposals[id].amount]
  BY <1>1 DEF Amounting, AmountOf
<1>3. PICK g \in [S -> Nat] : g = [id \in S |-> proposals[id].amount]
  BY <1>1 DEF Amounting, AmountOf
<1>4. \A id \in S : f[id] \in Nat /\ g[id] = f[id] /\ g[id] <= f[id]
  BY <1>2, <1>3
<1>5. SumFunction(g) <= SumFunction(f)
  BY <1>1, <1>4, SumOfLess
<1> QED
  BY <1>2, <1>3, <1>5 DEF TotalOf, Paid, PayoutsInv, PayoutsBooked

\* Of two sets of as many elements, one in the other, neither is larger.
LEMMA SameSize ==
    ASSUME NEW S, NEW T, IsFiniteSet(T), S \subseteq T, Cardinality(S) = Cardinality(T)
    PROVE  S = T
<1>1. IsFiniteSet(S) /\ (S # T => Cardinality(S) < Cardinality(T))
  BY FS_Subset
<1>2. Cardinality(T) \in Nat
  BY FS_CardinalityType
<1> QED
  BY <1>1, <1>2

LEMMA ListsAddUp == ListsInv => ViewsAddUp
<1> SUFFICES ASSUME ListsInv PROVE ViewsAddUp
  OBVIOUS
<1>1. PICK ps, vs : ps = loaded.proposals /\ vs = loaded.vendors
  OBVIOUS
<1>2. PICK bars : bars = buildVendorBreakdown(ps, vs)
  OBVIOUS
<1>3. PayoutsInv /\ Listed(ps) /\ Recorded(ps, vs)
  BY <1>1 DEF ListsInv
<1>4. ASSUME NEW S, S \subseteq FundedIn(ps) PROVE Worth(ps, S) = TotalOf(proposals, S)
  <2>1. \A id \in S : ps[id].amount = proposals[id].amount
    BY <1>3, <1>4 DEF Listed, FundedIn
  <2> QED
    BY <2>1 DEF Worth, TotalOf
<1>5. Worth(ps, FundedIn(ps)) <= totalDisbursed
  BY <1>3, <1>4, PartWorthLess DEF Listed
<1>6. ASSUME NEW a \in DOMAIN bars \cap DOMAIN vs,
             bars[a].proposalsFunded = vs[a].proposalsFunded
      PROVE  Worth(ps, bars[a].totalFunded) = vs[a].totalReceived
  <2>1. PICK F : RecordShows(ps, vs[a], a, F)
    BY <1>3, <1>6 DEF Recorded
  <2>2. PICK P : P = PartFor(ps, a)
    OBVIOUS
  <2>3. Cardinality(P) = Cardinality(F) /\ bars[a].totalFunded = P
    BY <1>2, <1>6, <2>1, <2>2, BarsAreParts DEF RecordShows
  <2>4. P \subseteq FundedIn(ps) /\ P \subseteq Funded /\ F \subseteq Funded
    BY <1>3, <2>1, <2>2 DEF PartFor, Listed, RecordShows, FundedFor
  <2>5. IsFiniteSet(P) /\ IsFiniteSet(F)
    <3>1. P \subseteq DOMAIN proposals /\ F \subseteq DOMAIN proposals
      BY <2>4 DEF Funded
    <3> QED
      BY <1>3, <3>1, FundedAmounting DEF PayoutsInv
  <2>6. F \subseteq P \/ P \subseteq F
    BY <2>1, <2>2 DEF RecordShows
  <2>7. P = F
    BY <2>3, <2>5, <2>6, SameSize
  <2>8. Worth(ps, P) = TotalOf(proposals, P)
    BY <1>4, <2>4
  <2> QED
    BY <2>1, <2>3, <2>7, <2>8 DEF RecordShows
<1>7. Parts([a \in DOMAIN bars |-> bars[a].totalFunded], FundedIn(ps))
  BY <1>2, BarsAreParts
<1> QED
  BY <1>1, <1>2, <1>5, <1>6, <1>7, RowsArePayouts, CategoriesAreParts, WardsAreParts DEF ViewsAddUp

\* Whatever each list was read of, the charts of a page are partitions of the
\* payouts it lists, which are worth no more than was disbursed, and a vendor's
\* bar agrees with the vendor's record as soon as both count as many payouts.
THEOREM PagesAddUp == ViewsSpec => []ViewsAddUp
<1> QED
  BY ListsInit, ListsNext, ListsAddUp, PTL DEF ViewsSpec
=============================================================================

--------------------------- MODULE VendorDaoVotes ---------------------------
(***************************************************************************)
(* The theorems about ballots.  The tallies are recounts of the public     *)
(* vote records, decisions stand on them, and closed polls stay closed.    *)
(* An approval of residency is good for the votes of one ward, however     *)
(* often the resident resubmits, is reviewed, waits and votes.  And the    *)
(* pallet implements Mandate: initial states map to initial states and     *)
(* every step to a step of Mandate or to none.                             *)
(***************************************************************************)
EXTENDS VendorDaoMandate, VendorDaoTypes

\* Ids come from the counter, and votes are recorded on proposals only: a
\* new proposal starts without votes.
KeysKnown ==
    /\ \A id \in DOMAIN proposals : id < proposalCount
    /\ \A k \in DOMAIN voteOf : k[1] \in DOMAIN proposals

VotesInv == TypeOK /\ KeysKnown /\ TallyIsRecount /\ DecisionMatchesRecount

\* One proposal's status and deadline become s and e; all else about the
\* proposals and the votes stays.
Moved(id, s, e) ==
    /\ DOMAIN proposals' = DOMAIN proposals
    /\ \A x \in DOMAIN proposals :
        /\ proposals'[x].ayes = proposals[x].ayes
        /\ proposals'[x].nays = proposals[x].nays
        /\ x # id => proposals'[x] = proposals[x]
    /\ proposals'[id].status = s
    /\ proposals'[id].voting_end = e
    /\ UNCHANGED <<now, proposalCount, voteOf>>

\* The transitions of the life cycle, each with the reason for it.
Transition(id, s, e) ==
    LET p == proposals[id] IN
    \/ p.status = "PendingReview" /\ s \in {"Proposed", "Vetoed"}
    \/ p.status = "Proposed" /\ now > p.voting_end /\ e = p.voting_end
         /\ IF Passes(p.ayes, p.nays) THEN s \in {"Approved", "Funded"} ELSE s = "Rejected"
    \/ p.status = "Approved" /\ s \in {"Approved", "Funded"} /\ e = p.voting_end
    \/ p.status \in {"PendingReview", "Proposed"} /\ s = "Cancelled"

\* A submission inserts a proposal that is in review and has no votes.
Submitted ==
    \E p \in Proposal :
        /\ p.status = "PendingReview" /\ p.ayes = 0 /\ p.nays = 0
        /\ proposals' = Put(proposals, proposalCount, p)
        /\ proposalCount' = proposalCount + 1
        /\ UNCHANGED <<now, voteOf>>

\* Writing status and deadline moves a proposal.
LEMMA SetStatus ==
    ASSUME TypeOK, NEW id \in DOMAIN proposals, NEW s,
           proposals' = [proposals EXCEPT ![id].status = s],
           UNCHANGED <<now, proposalCount, voteOf>>
    PROVE  Moved(id, s, proposals[id].voting_end)
<1>1. proposals \in [DOMAIN proposals -> Proposal]
  BY DEF TypeOK, ProposalsTypeOK, IsMap
<1> QED
  BY <1>1 DEF Moved, Proposal

LEMMA SettleMoves ==
    ASSUME TypeOK, NEW id \in DOMAIN proposals, Settle(id, proposals[id]),
           UNCHANGED <<now, proposalCount, voteOf>>
    PROVE  \E s \in {"Approved", "Funded"} : Moved(id, s, proposals[id].voting_end)
<1>1. CASE CanPay(proposals[id].vendor, proposals[id].amount)
  BY <1>1, SetStatus DEF Settle
<1>2. CASE ~CanPay(proposals[id].vendor, proposals[id].amount)
  BY <1>2, SetStatus DEF Settle
<1> QED
  BY <1>1, <1>2

\* All that a step can do to proposals and votes.
LEMMA BallotSteps ==
    ASSUME TypeOK, [Next]_vars
    PROVE  \/ UNCHANGED <<proposalCount, proposals, voteOf>>
              /\ (now' = now \/ now' = now + 1)
           \/ Submitted
           \/ \E id \in DOMAIN proposals : \E s \in ProposalStatus, e \in Nat :
                  Moved(id, s, e) /\ Transition(id, s, e)
           \/ \E a \in Voter, id \in DOMAIN proposals, b \in BOOLEAN :
                  Vote(a, id, b) /\ UNCHANGED now
<1> DEFINE Goal ==
           \/ UNCHANGED <<proposalCount, proposals, voteOf>>
              /\ (now' = now \/ now' = now + 1)
           \/ Submitted
           \/ \E id \in DOMAIN proposals : \E s \in ProposalStatus, e \in Nat :
                  Moved(id, s, e) /\ Transition(id, s, e)
           \/ \E a \in Voter, id \in DOMAIN proposals, b \in BOOLEAN :
                  Vote(a, id, b) /\ UNCHANGED now
<1>0. /\ proposals \in [DOMAIN proposals -> Proposal]
      /\ \A id \in DOMAIN proposals : proposals[id].voting_end \in Nat
      /\ ProposalStatus = {"PendingReview", "Proposed", "Approved", "Rejected",
                           "Funded", "Cancelled", "Vetoed"}
  BY DEF TypeOK, ProposalsTypeOK, IsMap, Proposal, ProposalStatus
<1>1. CASE MoneyStep \/ RegistryStep \/ AccountingStep \/ UNCHANGED vars
  BY <1>1 DEF MoneyStep, RegistryStep, AccountingStep, vars, ballotVars, residencyVars
<1>2. CASE ResidencyStep
  BY <1>2 DEF ResidencyStep, ballotVars, Tick, SubmitKyc, ApproveKyc, RejectKyc
<1>3. CASE ProposalStep
  <2>0. now' = now
    BY <1>3 DEF ProposalStep, residencyVars
  <2>1. ASSUME NEW w \in Ward, NEW x \in Amounts, PostRfp(w, x) PROVE Goal
    BY <2>0, <2>1 DEF PostRfp, ballotVars
  <2>2. ASSUME NEW id \in DOMAIN rfps, CloseRfp(id) PROVE Goal
    BY <2>0, <2>2 DEF CloseRfp, ballotVars
  <2>3. ASSUME NEW a \in Proposer, NEW v \in Candidate, NEW x \in Amounts, NEW w \in Ward,
               NEW r \in DOMAIN rfps \cup {None}, SubmitProposal(a, v, x, w, r)
        PROVE  Goal
    <3> DEFINE p == [proposer |-> a, vendor |-> v, amount |-> x,
                     status |-> "PendingReview", ayes |-> 0, nays |-> 0,
                     voting_end |-> now, ward |-> w, rfp_id |-> r]
    <3>1. /\ a \in Account /\ v \in Account /\ x \in Nat /\ now \in Nat
          /\ r \in RfpId \cup {None}
      BY ProposalsAssumption, VendorDaoAssumption
         DEF TypeOK, ProposalsTypeOK, ResidencyTypeOK, IsMap
    <3>2. p \in Proposal
      BY <3>1, NewProposalType
    <3>3. /\ proposals' = Put(proposals, proposalCount, p)
          /\ proposalCount' = proposalCount + 1 /\ voteOf' = voteOf
      BY <2>3 DEF SubmitProposal
    <3>4. p.status = "PendingReview" /\ p.ayes = 0 /\ p.nays = 0
      OBVIOUS
    <3> HIDE DEF p
    <3>5. Submitted
      BY <2>0, <3>2, <3>3, <3>4 DEF Submitted
    <3> QED
      BY <3>5
  <2>4. ASSUME NEW id \in DOMAIN proposals, NEW b \in BOOLEAN, VetProposal(id, b)
        PROVE  Goal
    <3> DEFINE e == now + VotingPeriod
    <3>1. e \in Nat
      BY ProposalsAssumption DEF TypeOK, ResidencyTypeOK
    <3>2. proposals[id].status = "PendingReview" /\ UNCHANGED <<now, proposalCount, voteOf>>
      BY <2>0, <2>4 DEF VetProposal, InStatus
    <3>3. CASE b
      <4>1. proposals' = [proposals EXCEPT ![id].status = "Proposed", ![id].voting_end = e]
        BY <2>4, <3>3 DEF VetProposal
      <4> HIDE DEF e
      <4>2. Moved(id, "Proposed", e)
        BY <1>0, <3>2, <4>1 DEF Moved, Proposal
      <4>3. Transition(id, "Proposed", e)
        BY <3>2 DEF Transition
      <4> QED
        BY <1>0, <3>1, <4>2, <4>3
    <3>4. CASE ~b
      <4>1. Moved(id, "Vetoed", proposals[id].voting_end)
        BY <2>4, <3>2, <3>4, SetStatus DEF VetProposal
      <4>2. Transition(id, "Vetoed", proposals[id].voting_end)
        BY <3>2 DEF Transition
      <4> QED
        BY <1>0, <4>1, <4>2
    <3> QED
      BY <3>3, <3>4
  <2>5. ASSUME NEW a \in Voter, NEW id \in DOMAIN proposals, NEW b \in BOOLEAN, Vote(a, id, b)
        PROVE  Goal
    BY <2>0, <2>5
  <2>6. ASSUME NEW id \in DOMAIN proposals, CloseProposal(id) PROVE Goal
    <3> DEFINE e == proposals[id].voting_end
    <3>1. /\ proposals[id].status = "Proposed" /\ now > e
          /\ UNCHANGED <<now, proposalCount, voteOf>>
      BY <2>0, <2>6 DEF CloseProposal, InStatus
    <3>2. CASE Passes(proposals[id].ayes, proposals[id].nays)
      <4>1. PICK s \in {"Approved", "Funded"} : Moved(id, s, e)
        BY <2>6, <3>1, <3>2, SettleMoves DEF CloseProposal
      <4>2. Transition(id, s, e)
        BY <3>1, <3>2 DEF Transition
      <4> QED
        BY <1>0, <4>1, <4>2
    <3>3. CASE ~Passes(proposals[id].ayes, proposals[id].nays)
      <4>1. Moved(id, "Rejected", e)
        BY <2>6, <3>1, <3>3, SetStatus DEF CloseProposal
      <4>2. Transition(id, "Rejected", e)
        BY <3>1, <3>3 DEF Transition
      <4> QED
        BY <1>0, <4>1, <4>2
    <3> QED
      BY <3>2, <3>3
  <2>7. ASSUME NEW id \in DOMAIN proposals, Disburse(id) PROVE Goal
    <3> DEFINE e == proposals[id].voting_end
    <3>1. proposals[id].status = "Approved" /\ UNCHANGED <<now, proposalCount, voteOf>>
      BY <2>0, <2>7 DEF Disburse, InStatus
    <3>2. PICK s \in {"Approved", "Funded"} : Moved(id, s, e)
      BY <2>7, <3>1, SettleMoves DEF Disburse
    <3>3. Transition(id, s, e)
      BY <3>1 DEF Transition
    <3> QED
      BY <1>0, <3>2, <3>3
  <2>8. ASSUME NEW a \in Proposer, NEW id \in DOMAIN proposals, CancelProposal(a, id)
        PROVE  Goal
    <3>1. Moved(id, "Cancelled", proposals[id].voting_end)
      BY <2>0, <2>8, SetStatus DEF CancelProposal
    <3>2. Transition(id, "Cancelled", proposals[id].voting_end)
      BY <2>8 DEF CancelProposal, Transition
    <3> QED
      BY <1>0, <3>1, <3>2
  <2> QED
    BY <1>3, <2>1, <2>2, <2>3, <2>4, <2>5, <2>6, <2>7, <2>8 DEF ProposalStep
<1> QED
  BY <1>1, <1>2, <1>3 DEF Next

\* What Vote does to the voters of its own proposal and of others.
LEMMA VoteVoters ==
    ASSUME NEW a \in Account, NEW id, NEW b \in BOOLEAN, Vote(a, id, b)
    PROVE  /\ \A c : a \notin VotersIn(voteOf, id, c)
           /\ VotersIn(voteOf', id, b) = VotersIn(voteOf, id, b) \cup {a}
           /\ \A x, c : x # id \/ c # b =>
                  VotersIn(voteOf', x, c) = VotersIn(voteOf, x, c)
<1>1. <<id, a>> \notin DOMAIN voteOf /\ voteOf' = Put(voteOf, <<id, a>>, b)
  BY DEF Vote, Count
<1>2. /\ DOMAIN voteOf' = DOMAIN voteOf \cup {<<id, a>>}
      /\ voteOf'[<<id, a>>] = b
      /\ \A k \in DOMAIN voteOf : voteOf'[k] = voteOf[k]
  BY <1>1 DEF Put
<1> QED
  BY <1>1, <1>2 DEF VotersIn

LEMMA VoteTallies ==
    ASSUME TypeOK, NEW a \in Account, NEW id \in DOMAIN proposals, NEW b \in BOOLEAN,
           Vote(a, id, b)
    PROVE  /\ DOMAIN proposals' = DOMAIN proposals
           /\ \A x \in DOMAIN proposals : x # id => proposals'[x] = proposals[x]
           /\ proposals[id].status = "Proposed"
           /\ proposals'[id].status = "Proposed"
           /\ proposals'[id].voting_end = proposals[id].voting_end
           /\ b => /\ proposals'[id].ayes = proposals[id].ayes + 1
                   /\ proposals'[id].nays = proposals[id].nays
           /\ ~b => /\ proposals'[id].ayes = proposals[id].ayes
                    /\ proposals'[id].nays = proposals[id].nays + 1
<1>1. /\ proposals \in [DOMAIN proposals -> Proposal]
      /\ proposals[id].status = "Proposed"
  BY DEF TypeOK, ProposalsTypeOK, IsMap, Vote, InStatus
<1>2. proposals[id].ayes \in Nat /\ proposals[id].nays \in Nat
  BY <1>1 DEF Proposal
<1>3. CASE b
  <2>1. proposals' = [proposals EXCEPT ![id].ayes = proposals[id].ayes + 1]
    BY <1>3 DEF Vote, Count
  <2> QED
    BY <1>1, <1>2, <1>3, <2>1 DEF Proposal
<1>4. CASE ~b
  <2>1. proposals' = [proposals EXCEPT ![id].nays = proposals[id].nays + 1]
    BY <1>4 DEF Vote, Count
  <2> QED
    BY <1>1, <1>2, <1>4, <2>1 DEF Proposal
<1> QED
  BY <1>3, <1>4

\* The tallies of a step that records a vote.
LEMMA VoteRecounted ==
    ASSUME VotesInv, NEW a \in Account, NEW id \in DOMAIN proposals, NEW b \in BOOLEAN,
           Vote(a, id, b)
    PROVE  TallyIsRecount'
<1> USE DEF VotesInv
<1> DEFINE V(x, c) == VotersIn(voteOf, x, c)
           W(x, c) == VotersIn(voteOf', x, c)
<1>1. \A x, c : IsFiniteSet(V(x, c)) /\ Cardinality(V(x, c)) \in Nat
  <2>1. \A x, c : V(x, c) \in SUBSET Account
    BY DEF VotersIn
  <2> QED
    BY <2>1, FrameAssumption, FS_Subset, FS_CardinalityType
<1>2. /\ a \notin V(id, b) /\ W(id, b) = V(id, b) \cup {a}
      /\ \A x, c : x # id \/ c # b => W(x, c) = V(x, c)
  BY VoteVoters
<1>3. \A x \in DOMAIN proposals :
        /\ proposals[x].ayes = Cardinality(V(x, TRUE))
        /\ proposals[x].nays = Cardinality(V(x, FALSE))
  BY DEF TallyIsRecount, Voters
<1>4. /\ DOMAIN proposals' = DOMAIN proposals
      /\ \A x \in DOMAIN proposals : x # id => proposals'[x] = proposals[x]
      /\ b => /\ proposals'[id].ayes = proposals[id].ayes + 1
              /\ proposals'[id].nays = proposals[id].nays
      /\ ~b => /\ proposals'[id].ayes = proposals[id].ayes
               /\ proposals'[id].nays = proposals[id].nays + 1
  BY VoteTallies
<1> HIDE DEF V, W
<1>5. Cardinality(W(id, b)) = Cardinality(V(id, b)) + 1
  BY <1>1, <1>2, FS_AddElement
<1>6. /\ proposals'[id].ayes = Cardinality(W(id, TRUE))
      /\ proposals'[id].nays = Cardinality(W(id, FALSE))
  <2>1. CASE b = TRUE
    <3>1. Cardinality(W(id, TRUE)) = Cardinality(V(id, TRUE)) + 1 /\ W(id, FALSE) = V(id, FALSE)
      BY <1>2, <1>5, <2>1, Zenon
    <3>2. proposals'[id].ayes = proposals[id].ayes + 1 /\ proposals'[id].nays = proposals[id].nays
      BY <1>4, <2>1, Zenon
    <3> QED
      BY <1>1, <1>3, <3>1, <3>2
  <2>2. CASE b = FALSE
    <3>1. Cardinality(W(id, FALSE)) = Cardinality(V(id, FALSE)) + 1 /\ W(id, TRUE) = V(id, TRUE)
      BY <1>2, <1>5, <2>2, Zenon
    <3>2. proposals'[id].ayes = proposals[id].ayes /\ proposals'[id].nays = proposals[id].nays + 1
      BY <1>4, <2>2, Zenon
    <3> QED
      BY <1>1, <1>3, <3>1, <3>2
  <2> QED
    BY <2>1, <2>2
<1>7. \A x \in DOMAIN proposals' :
        /\ proposals'[x].ayes = Cardinality(W(x, TRUE))
        /\ proposals'[x].nays = Cardinality(W(x, FALSE))
  BY <1>2, <1>3, <1>4, <1>6
<1> QED
  BY <1>7 DEF W, TallyIsRecount, Voters

LEMMA VotesInit == Init => VotesInv
<1> SUFFICES ASSUME Init PROVE VotesInv
  OBVIOUS
<1>1. DOMAIN proposals = {} /\ DOMAIN voteOf = {}
  BY DEF Init, ProposalsInit, EmptyMap
<1> QED
  BY <1>1, InitType DEF VotesInv, KeysKnown, TallyIsRecount, DecisionMatchesRecount

\* Every step keeps tallies and decisions equal to what a recount gives.
LEMMA VotesNext == VotesInv /\ [Next]_vars => VotesInv'
<1> SUFFICES ASSUME VotesInv, [Next]_vars PROVE VotesInv'
  OBVIOUS
<1> USE DEF VotesInv, Recount, Voters
<1>0. TypeOK'
  BY NextType
<1>t. /\ now \in Nat /\ proposalCount \in Nat /\ DOMAIN proposals \subseteq Nat
      /\ \A x \in DOMAIN proposals : proposals[x].voting_end \in Nat
  BY DEF TypeOK, ResidencyTypeOK, ProposalsTypeOK, IsMap, ProposalId, Proposal
<1>1. CASE UNCHANGED <<proposalCount, proposals, voteOf>> /\ (now' = now \/ now' = now + 1)
  <2>1. KeysKnown' /\ TallyIsRecount'
    BY <1>1 DEF KeysKnown, TallyIsRecount
  <2>2. \A x \in DOMAIN proposals : now > proposals[x].voting_end => now' > proposals[x].voting_end
    BY <1>1, <1>t
  <2>3. DecisionMatchesRecount'
    BY <1>1, <2>2 DEF DecisionMatchesRecount
  <2> QED
    BY <1>0, <2>1, <2>3
<1>2. CASE Submitted
  <2>1. PICK p \in Proposal :
            /\ p.status = "PendingReview" /\ p.ayes = 0 /\ p.nays = 0
            /\ proposals' = Put(proposals, proposalCount, p)
            /\ proposalCount' = proposalCount + 1
            /\ UNCHANGED <<now, voteOf>>
    BY <1>2 DEF Submitted
  <2>2. /\ proposalCount \notin DOMAIN proposals
        /\ DOMAIN proposals' = DOMAIN proposals \cup {proposalCount}
        /\ proposals'[proposalCount] = p
        /\ \A x \in DOMAIN proposals : proposals'[x] = proposals[x]
    BY <1>t, <2>1 DEF Put, KeysKnown
  <2>3. \A c : VotersIn(voteOf, proposalCount, c) = {}
    BY <2>2 DEF VotersIn, KeysKnown
  <2>4. KeysKnown'
    BY <1>t, <2>1, <2>2 DEF KeysKnown
  <2>5. TallyIsRecount'
    BY <2>1, <2>2, <2>3, FS_EmptySet DEF TallyIsRecount
  <2>6. DecisionMatchesRecount'
    BY <2>1, <2>2, <2>3 DEF DecisionMatchesRecount
  <2> QED
    BY <1>0, <2>4, <2>5, <2>6
<1>3. ASSUME NEW id \in DOMAIN proposals, NEW s \in ProposalStatus, NEW e \in Nat,
             Moved(id, s, e), Transition(id, s, e)
      PROVE  VotesInv'
  <2>1. KeysKnown' /\ TallyIsRecount'
    BY <1>3 DEF Moved, KeysKnown, TallyIsRecount
  <2>2. /\ s \in {"Approved", "Funded"} => Recount(id) /\ now > e
        /\ s = "Rejected" => ~Recount(id) /\ now > e
        /\ s \in {"PendingReview", "Vetoed"} => Voters(id, TRUE) \cup Voters(id, FALSE) = {}
    BY <1>3 DEF Transition, TallyIsRecount, DecisionMatchesRecount
  <2>3. DecisionMatchesRecount'
    BY <1>3, <2>2 DEF Moved, DecisionMatchesRecount
  <2> QED
    BY <1>0, <2>1, <2>3
<1>4. ASSUME NEW a \in Voter, NEW id \in DOMAIN proposals, NEW b \in BOOLEAN,
             Vote(a, id, b), UNCHANGED now
      PROVE  VotesInv'
  <2>0. a \in Account
    BY VendorDaoAssumption
  <2>1. TallyIsRecount'
    BY <1>4, <2>0, VoteRecounted
  <2>2. /\ DOMAIN proposals' = DOMAIN proposals
        /\ proposals'[id].status = "Proposed"
        /\ \A x \in DOMAIN proposals : x # id => proposals'[x] = proposals[x]
    BY <1>4, <2>0, VoteTallies
  <2>3. \A x, c : x # id => VotersIn(voteOf', x, c) = VotersIn(voteOf, x, c)
    BY <1>4, <2>0, VoteVoters
  <2>4. KeysKnown'
    <3>1. DOMAIN voteOf' = DOMAIN voteOf \cup {<<id, a>>} /\ proposalCount' = proposalCount
      BY <1>4 DEF Vote, Count, Put
    <3> QED
      BY <2>2, <3>1 DEF KeysKnown
  <2>5. DecisionMatchesRecount'
    BY <1>4, <2>2, <2>3 DEF DecisionMatchesRecount
  <2> QED
    BY <1>0, <2>1, <2>4, <2>5
<1> QED
  BY <1>1, <1>2, <1>3, <1>4, BallotSteps

\* The tally a proposal carries is always the recount of the recorded votes.
THEOREM TalliesAreRecounts == Spec => []TallyIsRecount
<1>1. VotesInv => TallyIsRecount
  BY DEF VotesInv
<1> QED
  BY <1>1, VotesInit, VotesNext, PTL DEF Spec

\* Every decision stands in a recount, came after the deadline, and what was
\* never put to the vote has no votes.
THEOREM DecisionsStand == Spec => []DecisionMatchesRecount
<1>1. VotesInv => DecisionMatchesRecount
  BY DEF VotesInv
<1> QED
  BY <1>1, VotesInit, VotesNext, PTL DEF Spec

\* A step that changes who voted on a proposal finds it open and in time.
LEMMA OnlyOpenPolls ==
    ASSUME TypeOK, [Next]_vars, NEW x \in DOMAIN proposals
    PROVE  \/ proposals[x].status = "Proposed" /\ now <= proposals[x].voting_end
           \/ \A c : VotersIn(voteOf', x, c) = VotersIn(voteOf, x, c)
<1>1. CASE voteOf' = voteOf
  BY <1>1
<1>2. ASSUME NEW a \in Voter, NEW id \in DOMAIN proposals, NEW b \in BOOLEAN, Vote(a, id, b)
      PROVE  \/ proposals[x].status = "Proposed" /\ now <= proposals[x].voting_end
             \/ \A c : VotersIn(voteOf', x, c) = VotersIn(voteOf, x, c)
  <2>1. proposals[id].status = "Proposed" /\ now <= proposals[id].voting_end
    BY <1>2 DEF Vote, InStatus
  <2>2. a \in Account
    BY VendorDaoAssumption
  <2>3. x # id => \A c : VotersIn(voteOf', x, c) = VotersIn(voteOf, x, c)
    BY <1>2, <2>2, VoteVoters
  <2> QED
    BY <2>1, <2>3
<1> QED
  BY <1>1, <1>2, BallotSteps DEF Submitted, Moved

\* No step records a vote on a proposal that is not open, or after its deadline.
THEOREM ClosedPollsStayClosed == Spec => PollsStayClosed
<1>1. TypeOK /\ [Next]_vars => [BallotsOnTime]_vars
  BY OnlyOpenPolls DEF BallotsOnTime, Voters
<1> QED
  BY <1>1, TypeCorrect, PTL DEF Spec, PollsStayClosed

-----------------------------------------------------------------------------
\* Residency and wards.

\* A ward-scoped vote was cast under an approval that has happened, and while
\* that approval is the voter's last one, a verified record still names the
\* ward of the vote.
BallotsUnderApproval ==
    \A b \in wardBallots :
        /\ b.approval <= approvals[b.voter]
        /\ /\ b.approval = approvals[b.voter]
           /\ b.voter \in DOMAIN kyc
           /\ kyc[b.voter].status = "Verified"
           => b.ward = kyc[b.voter].ward

WardsInv == TypeOK /\ ApprovalDated /\ BallotsUnderApproval /\ OneWardPerApproval

\* All that a step can do to residency records and ward-scoped votes.
LEMMA ResidencySteps ==
    ASSUME [Next]_vars
    PROVE  \/ UNCHANGED <<now, kyc, approvals, wardBallots>>
           \/ Tick /\ UNCHANGED wardBallots
           \/ \E a \in Resident, w \in Ward : SubmitKyc(a, w) /\ UNCHANGED wardBallots
           \/ \E a \in Resident : ApproveKyc(a) /\ UNCHANGED wardBallots
           \/ \E a \in Resident : RejectKyc(a) /\ UNCHANGED wardBallots
           \/ \E a \in Voter, id \in DOMAIN proposals, b \in BOOLEAN :
                  Vote(a, id, b) /\ UNCHANGED <<now, kyc, approvals>>
<1>1. CASE MoneyStep \/ RegistryStep \/ AccountingStep \/ UNCHANGED vars
  BY <1>1 DEF MoneyStep, RegistryStep, AccountingStep, vars, ballotVars, residencyVars
<1>2. CASE ResidencyStep
  BY <1>2 DEF ResidencyStep, ballotVars
<1>3. CASE ProposalStep
  BY <1>3 DEF ProposalStep, residencyVars, ballotVars, PostRfp, CloseRfp, SubmitProposal,
              VetProposal, CloseProposal, Disburse, CancelProposal
<1> QED
  BY <1>1, <1>2, <1>3 DEF Next

LEMMA WardsInit == Init => WardsInv
<1> SUFFICES ASSUME Init PROVE WardsInv
  OBVIOUS
<1>1. DOMAIN kyc = {} /\ wardBallots = {}
  BY DEF Init, ResidencyInit, ProposalsInit, EmptyMap
<1> QED
  BY <1>1, InitType DEF WardsInv, ApprovalDated, BallotsUnderApproval, OneWardPerApproval

\* A vote that the residency check lets through agrees with the earlier ones.
LEMMA VoteInWard ==
    ASSUME WardsInv, NEW a \in Account, NEW id \in DOMAIN proposals, NEW b \in BOOLEAN,
           Vote(a, id, b), UNCHANGED <<now, kyc, approvals>>
    PROVE  BallotsUnderApproval' /\ OneWardPerApproval'
<1> USE DEF WardsInv
<1> DEFINE w == proposals[id].ward
           n == [voter |-> a, ward |-> w, approval |-> approvals[a]]
<1>1. CASE w = Citywide
  <2>1. wardBallots' = wardBallots
    BY <1>1 DEF Vote, Count
  <2> QED
    BY <2>1 DEF BallotsUnderApproval, OneWardPerApproval
<1>2. CASE w # Citywide
  <2>1. wardBallots' = wardBallots \cup {n}
    BY <1>2 DEF Vote, Count
  <2>2. kyc[a].status = "Verified" /\ kyc[a].ward = w /\ a \in DOMAIN kyc
    BY <1>2 DEF Vote, Eligible, ResidentOf
  <2>3. approvals[a] \in Nat
    BY DEF TypeOK, ResidencyTypeOK
  <2>4. n.voter = a /\ n.ward = kyc[a].ward /\ n.approval = approvals[a]
    BY <2>2
  <2> HIDE DEF n, w
  <2>5. BallotsUnderApproval'
    BY <2>1, <2>3, <2>4 DEF BallotsUnderApproval
  <2>6. \A c \in wardBallots : c.voter = n.voter /\ c.approval = n.approval => c.ward = n.ward
    BY <2>2, <2>4 DEF BallotsUnderApproval
  <2>7. OneWardPerApproval'
    BY <2>1, <2>6 DEF OneWardPerApproval
  <2> QED
    BY <2>5, <2>7
<1> QED
  BY <1>1, <1>2

\* A step that replaces one account's record by one that is not verified.
LEMMA Unverified ==
    ASSUME WardsInv, NEW a \in Account, NEW r,
           kyc' = Put(kyc, a, r), r.status # "Verified",
           r.verified_at = None, r.expires_at = None,
           UNCHANGED <<now, approvals, wardBallots>>
    PROVE  ApprovalDated' /\ BallotsUnderApproval' /\ OneWardPerApproval'
<1> USE DEF WardsInv
<1>1. /\ DOMAIN kyc' = DOMAIN kyc \cup {a} /\ kyc'[a] = r
      /\ \A x \in DOMAIN kyc : x # a => kyc'[x] = kyc[x]
  BY DEF Put
<1>2. ApprovalDated'
  BY <1>1 DEF ApprovalDated
<1>3. BallotsUnderApproval'
  BY <1>1 DEF BallotsUnderApproval
<1> QED
  BY <1>2, <1>3 DEF OneWardPerApproval

\* Every step keeps votes, approvals and records in agreement.
LEMMA WardsNext == WardsInv /\ [Next]_vars => WardsInv'
<1> SUFFICES ASSUME WardsInv, [Next]_vars PROVE WardsInv'
  OBVIOUS
<1> USE DEF WardsInv
<1>0. TypeOK'
  BY NextType
<1>t. /\ now \in Nat /\ approvals \in [Account -> Nat]
      /\ kyc \in [DOMAIN kyc -> KycRecord] /\ DOMAIN kyc \subseteq Account
      /\ wardBallots \subseteq WardBallot
  BY DEF TypeOK, ResidencyTypeOK, ProposalsTypeOK, IsMap
<1>1. CASE UNCHANGED <<now, kyc, approvals, wardBallots>>
  BY <1>0, <1>1 DEF ApprovalDated, BallotsUnderApproval, OneWardPerApproval
<1>2. CASE Tick /\ UNCHANGED wardBallots
  <2>1. now' = now + 1 /\ UNCHANGED <<kyc, approvals, wardBallots>>
    BY <1>2 DEF Tick
  <2>2. ASSUME NEW a \in DOMAIN kyc, kyc[a].status = "Verified"
        PROVE  kyc[a].verified_at <= now'
    BY <1>t, <2>1, <2>2, FrameAssumption DEF ApprovalDated, KycRecord
  <2>3. ApprovalDated'
    BY <2>1, <2>2 DEF ApprovalDated
  <2> QED
    BY <1>0, <2>1, <2>3 DEF BallotsUnderApproval, OneWardPerApproval
<1>3. ASSUME NEW a \in Resident, NEW w \in Ward, SubmitKyc(a, w), UNCHANGED wardBallots
      PROVE  WardsInv'
  <2> DEFINE r == [ward |-> w, status |-> "Pending", verified_at |-> None, expires_at |-> None]
  <2>1. a \in Account /\ kyc' = Put(kyc, a, r) /\ UNCHANGED <<now, approvals>>
    BY <1>3, VendorDaoAssumption DEF SubmitKyc
  <2>2. r.status # "Verified" /\ r.verified_at = None /\ r.expires_at = None
    OBVIOUS
  <2> HIDE DEF r
  <2> QED
    BY <1>0, <1>3, <2>1, <2>2, Unverified
<1>4. ASSUME NEW a \in Resident, ApproveKyc(a), UNCHANGED wardBallots
      PROVE  WardsInv'
  <2> DEFINE r == [ward |-> kyc[a].ward, status |-> "Verified", verified_at |-> now,
                   expires_at |-> now + KycValidityPeriod]
  <2>1. /\ a \in Account /\ a \in DOMAIN kyc /\ kyc' = Put(kyc, a, r)
        /\ approvals' = [approvals EXCEPT ![a] = approvals[a] + 1]
        /\ now' = now
    BY <1>4, VendorDaoAssumption DEF ApproveKyc, Reviewable
  <2>2. /\ r.status = "Verified" /\ r.ward = kyc[a].ward /\ r.verified_at = now
        /\ r.expires_at = now + KycValidityPeriod
    OBVIOUS
  <2> HIDE DEF r
  <2>3. /\ DOMAIN kyc' = DOMAIN kyc /\ kyc'[a] = r
        /\ \A x \in DOMAIN kyc : x # a => kyc'[x] = kyc[x]
    BY <2>1 DEF Put
  <2>4. ApprovalDated'
    BY <1>t, <2>1, <2>2, <2>3, FrameAssumption DEF ApprovalDated
  <2>5. BallotsUnderApproval'
    BY <1>4, <1>t, <2>1, <2>3 DEF BallotsUnderApproval, WardBallot
  <2> QED
    BY <1>0, <1>4, <2>4, <2>5 DEF OneWardPerApproval
<1>5. ASSUME NEW a \in Resident, RejectKyc(a), UNCHANGED wardBallots
      PROVE  WardsInv'
  <2> DEFINE r == [ward |-> kyc[a].ward, status |-> "Rejected", verified_at |-> None,
                   expires_at |-> None]
  <2>1. a \in Account /\ kyc' = Put(kyc, a, r) /\ UNCHANGED <<now, approvals>>
    BY <1>5, VendorDaoAssumption DEF RejectKyc
  <2>2. r.status # "Verified" /\ r.verified_at = None /\ r.expires_at = None
    OBVIOUS
  <2> HIDE DEF r
  <2> QED
    BY <1>0, <1>5, <2>1, <2>2, Unverified
<1>6. ASSUME NEW a \in Voter, NEW id \in DOMAIN proposals, NEW b \in BOOLEAN,
             Vote(a, id, b), UNCHANGED <<now, kyc, approvals>>
      PROVE  WardsInv'
  <2>1. a \in Account
    BY VendorDaoAssumption
  <2>2. ApprovalDated'
    BY <1>6 DEF ApprovalDated
  <2> QED
    BY <1>0, <1>6, <2>1, <2>2, VoteInWard
<1> QED
  BY <1>1, <1>2, <1>3, <1>4, <1>5, <1>6, ResidencySteps

\* One approval of a declared ward is good for votes in one ward.
THEOREM ApprovalsGoodForOneWard == Spec => []OneWardPerApproval
<1>1. WardsInv => OneWardPerApproval
  BY DEF WardsInv
<1> QED
  BY <1>1, WardsInit, WardsNext, PTL DEF Spec

\* A record carries the dates of its approval exactly while it is verified.
THEOREM ApprovalsDated == Spec => []ApprovalDated
<1>1. WardsInv => ApprovalDated
  BY DEF WardsInv
<1> QED
  BY <1>1, WardsInit, WardsNext, PTL DEF Spec

\* No step makes a record verified for a ward it did not declare before.
THEOREM VerifiedWardsWereDeclared == Spec => WardFixedByApproval
<1>1. ASSUME TypeOK, [Next]_vars PROVE KeepsVerifiedWard
  <2>1. CASE kyc' = kyc
    BY <2>1 DEF KeepsVerifiedWard
  <2>2. ASSUME NEW a \in Resident, NEW w \in Ward, SubmitKyc(a, w) PROVE KeepsVerifiedWard
    BY <2>2 DEF SubmitKyc, Put, KeepsVerifiedWard
  <2>3. ASSUME NEW a \in Resident, ApproveKyc(a) PROVE KeepsVerifiedWard
    BY <2>3 DEF ApproveKyc, Put, KeepsVerifiedWard
  <2>4. ASSUME NEW a \in Resident, RejectKyc(a) PROVE KeepsVerifiedWard
    BY <2>4 DEF RejectKyc, Put, KeepsVerifiedWard
  <2> QED
    BY <1>1, <2>1, <2>2, <2>3, <2>4, ResidencySteps DEF Tick
<1>2. TypeOK /\ [Next]_vars => [KeepsVerifiedWard]_vars
  BY <1>1
<1> QED
  BY <1>2, TypeCorrect, PTL DEF Spec, WardFixedByApproval

-----------------------------------------------------------------------------
\* The refinement.  The argument needs that the tally is the recount of the
\* votes (VotesInv) and that a payee is registered (TermsInv).

MapInv == VotesInv /\ TermsInv

\* One proposal's status becomes s, and nothing of the promise else changes
\* in the proposals.
Became(id, s) ==
    /\ DOMAIN proposals' = DOMAIN proposals
    /\ \A x \in DOMAIN proposals : x # id => proposals'[x] = proposals[x]
    /\ proposals'[id].status = s
    /\ proposals'[id].vendor = proposals[id].vendor
    /\ proposals'[id].amount = proposals[id].amount

\* The stages of the statuses.
LEMMA Stages ==
    /\ StageOf("PendingReview") = "review" /\ StageOf("Proposed") = "poll"
    /\ StageOf("Approved") = "awarded" /\ StageOf("Funded") = "paid"
    /\ StageOf("Rejected") = "dropped" /\ StageOf("Cancelled") = "dropped"
    /\ StageOf("Vetoed") = "dropped"
BY DEF StageOf

\* How a change of one status looks from Mandate.
LEMMA BecameMaps ==
    ASSUME TypeOK, NEW id \in DOMAIN proposals, NEW s, Became(id, s)
    PROVE  /\ StageMap' = [StageMap EXCEPT ![id] = StageOf(s)]
           /\ TermsMap' = TermsMap
<1>1. \A x \in DOMAIN proposals :
        /\ StageOf(proposals'[x].status) =
             IF x = id THEN StageOf(s) ELSE StageOf(proposals[x].status)
        /\ proposals'[x].vendor = proposals[x].vendor
        /\ proposals'[x].amount = proposals[x].amount
  BY DEF Became
<1> QED
  BY <1>1 DEF Became, StageMap, TermsMap

LEMMA SetStatusBecame ==
    ASSUME TypeOK, NEW id \in DOMAIN proposals, NEW s,
           proposals' = [proposals EXCEPT ![id].status = s]
    PROVE  Became(id, s)
<1>1. proposals \in [DOMAIN proposals -> Proposal]
  BY DEF TypeOK, ProposalsTypeOK, IsMap
<1> QED
  BY <1>1 DEF Became, Proposal

\* Where a proposal is, and Mandate's count of its ballots.
LEMMA AtStage ==
    ASSUME NEW id \in DOMAIN proposals
    PROVE  \A s : M!At(id, s) <=> StageOf(proposals[id].status) = s
BY DEF M!At, StageMap

\* Cardinality is the same operator on both sides of the instance.
LEMMA SameCardinality == \A S : M!Cardinality(S) = Cardinality(S)
BY DEF M!Cardinality, M!IsFiniteSet, Cardinality, IsFiniteSet

LEMMA MandatedIsPassed ==
    ASSUME TallyIsRecount, NEW id \in DOMAIN proposals
    PROVE  M!Mandated(id) <=> Passes(proposals[id].ayes, proposals[id].nays)
<1> DEFINE V(b) == VotersIn(voteOf, id, b)
<1>1. proposals[id].ayes = Cardinality(V(TRUE)) /\ proposals[id].nays = Cardinality(V(FALSE))
  BY DEF TallyIsRecount, Voters
<1>2. M!Mandated(id) <=> Passes(Cardinality(V(TRUE)), Cardinality(V(FALSE)))
  BY SameCardinality DEF M!Mandated, M!Ballots, VotersIn, Passes
<1> QED
  BY <1>1, <1>2

\* A step that changes nothing the promise is about.
LEMMA SameMandate ==
    ASSUME UNCHANGED <<proposals, voteOf, IncomeMap, totalDisbursed>>
    PROVE  UNCHANGED M!mandateVars
BY DEF M!mandateVars, StageMap, TermsMap

LEMMA InitMaps == Init => M!Init
<1> SUFFICES ASSUME Init PROVE M!Init
  OBVIOUS
<1>1. /\ DOMAIN proposals = {} /\ voteOf = [k \in {} |-> None]
      /\ DOMAIN vendors = {} /\ totalDisbursed = 0
  BY DEF Init, ProposalsInit, RegistryInit, TreasuryInit, EmptyMap
<1>2. StageMap = M!EmptyMap /\ TermsMap = M!EmptyMap /\ voteOf = M!EmptyMap
  BY <1>1 DEF StageMap, TermsMap, M!EmptyMap
<1>3. IncomeMap = [a \in Account |-> 0]
  BY <1>1 DEF IncomeMap
<1> QED
  BY <1>1, <1>2, <1>3 DEF M!Init

\* The registry calls pay nobody.
LEMMA RegistryStepMaps ==
    ASSUME TypeOK, RegistryStep PROVE UNCHANGED M!mandateVars
<1>1. \A a \in Account :
        (IF a \in DOMAIN vendors' THEN vendors'[a].total_received ELSE 0)
          = (IF a \in DOMAIN vendors THEN vendors[a].total_received ELSE 0)
  <2>1. vendors \in [DOMAIN vendors -> VendorInfo]
    BY DEF TypeOK, RegistryTypeOK, IsMap
  <2>2. ASSUME NEW c \in Candidate, NEW p \in Profile, RegisterVendor(c, p)
        PROVE  \A a \in Account :
                 (IF a \in DOMAIN vendors' THEN vendors'[a].total_received ELSE 0)
                   = (IF a \in DOMAIN vendors THEN vendors[a].total_received ELSE 0)
    BY <2>2 DEF RegisterVendor, Put
  <2>3. ASSUME NEW c \in Candidate, NEW p \in Profile, UpdateVendorProfile(c, p)
        PROVE  \A a \in Account :
                 (IF a \in DOMAIN vendors' THEN vendors'[a].total_received ELSE 0)
                   = (IF a \in DOMAIN vendors THEN vendors[a].total_received ELSE 0)
    BY <2>1, <2>3 DEF UpdateVendorProfile, VendorInfo
  <2>4. ASSUME NEW c \in Candidate, NEW b \in BOOLEAN, SetVendorVerified(c, b)
        PROVE  \A a \in Account :
                 (IF a \in DOMAIN vendors' THEN vendors'[a].total_received ELSE 0)
                   = (IF a \in DOMAIN vendors THEN vendors[a].total_received ELSE 0)
    BY <2>1, <2>4 DEF SetVendorVerified, VendorInfo
  <2> QED
    BY <2>2, <2>3, <2>4 DEF RegistryStep
<1>2. IncomeMap' = IncomeMap
  BY <1>1 DEF IncomeMap
<1> QED
  BY <1>2, SameMandate DEF RegistryStep, treasuryVars, ballotVars

\* try_disburse is Mandate's payment or, if the pot is short, an award.
LEMMA SettleMaps ==
    ASSUME MapInv, NEW id \in DOMAIN proposals, Settle(id, proposals[id]),
           UNCHANGED voteOf
    PROVE  \/ /\ M!GoTo(id, "paid")
              /\ IncomeMap' = [IncomeMap EXCEPT ![TermsMap[id].payee] = @ + TermsMap[id].amount]
              /\ totalDisbursed' = totalDisbursed + TermsMap[id].amount
              /\ UNCHANGED <<TermsMap, voteOf>>
           \/ M!GoTo(id, "awarded") /\ UNCHANGED <<TermsMap, voteOf, IncomeMap, totalDisbursed>>
<1> USE DEF MapInv, VotesInv
<1> DEFINE v == proposals[id].vendor
           x == proposals[id].amount
<1>1. /\ v \in DOMAIN vendors /\ v \in Account /\ x \in Nat
      /\ vendors \in [DOMAIN vendors -> VendorInfo]
      /\ TermsMap[id].payee = v /\ TermsMap[id].amount = x
  BY DEF TermsInv, RfpTermsHold, TypeOK, RegistryTypeOK, ProposalsTypeOK, IsMap, Proposal,
         TermsMap
<1>2. CASE CanPay(v, x)
  <2>1. /\ proposals' = [proposals EXCEPT ![id].status = "Funded"]
        /\ PayOut(v, x) /\ CreditVendor(v, x)
    BY <1>2 DEF Settle
  <2>b. Became(id, "Funded")
    BY <2>1, SetStatusBecame
  <2>2. StageMap' = [StageMap EXCEPT ![id] = "paid"] /\ TermsMap' = TermsMap
    BY <2>b, BecameMaps, Stages
  <2> HIDE DEF v, x
  <2>3. vendors' = [vendors EXCEPT ![v] = WithPayout(vendors[v], x)]
    BY <1>1, <2>1 DEF CreditVendor
  <2>4. IncomeMap' = [IncomeMap EXCEPT ![v] = IncomeMap[v] + x]
    <3>1. /\ DOMAIN vendors' = DOMAIN vendors
          /\ vendors'[v].total_received = vendors[v].total_received + x
          /\ \A a \in DOMAIN vendors : a # v => vendors'[a] = vendors[a]
      BY <1>1, <2>3 DEF WithPayout
    <3> QED
      BY <1>1, <3>1 DEF IncomeMap
  <2>5. totalDisbursed' = totalDisbursed + x
    BY <2>1 DEF PayOut
  <2> QED
    BY <1>1, <2>2, <2>4, <2>5 DEF M!GoTo
<1>3. CASE ~CanPay(v, x)
  <2>1. proposals' = [proposals EXCEPT ![id].status = "Approved"]
        /\ UNCHANGED <<treasuryVars, vendors>>
    BY <1>3 DEF Settle
  <2>b. Became(id, "Approved")
    BY <2>1, SetStatusBecame
  <2>2. StageMap' = [StageMap EXCEPT ![id] = "awarded"] /\ TermsMap' = TermsMap
    BY <2>b, BecameMaps, Stages
  <2> QED
    BY <2>1, <2>2 DEF M!GoTo, IncomeMap, treasuryVars
<1> QED
  BY <1>2, <1>3

\* Every step of the funding process is a step of Mandate or none.
LEMMA ProposalStepMaps ==
    ASSUME MapInv, ProposalStep PROVE [M!Next]_(M!mandateVars)
<1> USE DEF MapInv, VotesInv
<1> DEFINE Goal == [M!Next]_(M!mandateVars)
<1>0. DOMAIN StageMap = DOMAIN proposals
  BY DEF StageMap
<1>i. ASSUME UNCHANGED vendors PROVE IncomeMap' = IncomeMap
  BY <1>i DEF IncomeMap
<1>1. ASSUME NEW w \in Ward, NEW x \in Amounts, PostRfp(w, x) PROVE Goal
  BY <1>1, <1>i, SameMandate DEF PostRfp, ballotVars, treasuryVars
<1>2. ASSUME NEW id \in DOMAIN rfps, CloseRfp(id) PROVE Goal
  BY <1>2, <1>i, SameMandate DEF CloseRfp, ballotVars, treasuryVars
<1>3. ASSUME NEW a \in Proposer, NEW v \in Candidate, NEW x \in Amounts, NEW w \in Ward,
             NEW r \in DOMAIN rfps \cup {None}, SubmitProposal(a, v, x, w, r)
      PROVE  Goal
  <2> DEFINE n == proposalCount
             p == [proposer |-> a, vendor |-> v, amount |-> x,
                   status |-> "PendingReview", ayes |-> 0, nays |-> 0,
                   voting_end |-> now, ward |-> w, rfp_id |-> r]
  <2>1. /\ v \in Account /\ n \in 0 .. MaxProposals - 1 /\ n \notin DOMAIN proposals
    BY <1>3, VendorDaoAssumption, ProposalsAssumption
       DEF SubmitProposal, KeysKnown, TypeOK, ProposalsTypeOK
  <2>2. proposals' = Put(proposals, n, p)
    BY <1>3 DEF SubmitProposal
  <2>3. p.status = "PendingReview" /\ p.vendor = v /\ p.amount = x
    OBVIOUS
  <2> HIDE DEF p, n
  <2>4. /\ DOMAIN proposals' = DOMAIN proposals \cup {n} /\ proposals'[n] = p
        /\ \A y \in DOMAIN proposals : proposals'[y] = proposals[y]
    BY <2>1, <2>2 DEF Put
  <2>5. StageMap' = M!Put(StageMap, n, "review")
    BY <2>1, <2>3, <2>4, Stages DEF StageMap, M!Put
  <2>6. TermsMap' = M!Put(TermsMap, n, [payee |-> v, amount |-> x])
    BY <2>1, <2>3, <2>4 DEF TermsMap, M!Put
  <2>7. UNCHANGED <<voteOf, IncomeMap, totalDisbursed>>
    BY <1>3, <1>i DEF SubmitProposal, treasuryVars
  <2>8. M!Propose(n, v, x)
    BY <1>0, <2>1, <2>5, <2>6, <2>7 DEF M!Propose
  <2> QED
    BY <2>1, <2>8 DEF M!Next
<1>4. ASSUME NEW id \in DOMAIN proposals, NEW b \in BOOLEAN, VetProposal(id, b)
      PROVE  Goal
  <2> DEFINE e == now + VotingPeriod
  <2>1. M!At(id, "review")
    BY <1>4, AtStage, Stages DEF VetProposal, InStatus
  <2>2. UNCHANGED <<voteOf, IncomeMap, totalDisbursed>>
    BY <1>4, <1>i DEF VetProposal, treasuryVars
  <2>3. CASE b
    <3>1. proposals' = [proposals EXCEPT ![id].status = "Proposed", ![id].voting_end = e]
      BY <1>4, <2>3 DEF VetProposal
    <3> HIDE DEF e
    <3>2. Became(id, "Proposed")
      BY <3>1 DEF Became, TypeOK, ProposalsTypeOK, IsMap, Proposal
    <3>3. M!OpenPoll(id)
      BY <2>1, <2>2, <3>2, BecameMaps, Stages DEF M!OpenPoll, M!GoTo
    <3> QED
      BY <1>0, <3>3 DEF M!Next
  <2>4. CASE ~b
    <3>1. Became(id, "Vetoed")
      BY <1>4, <2>4, SetStatusBecame DEF VetProposal
    <3>2. M!Withdraw(id)
      BY <2>1, <2>2, <3>1, BecameMaps, Stages DEF M!Withdraw, M!GoTo
    <3> QED
      BY <1>0, <3>2 DEF M!Next
  <2> QED
    BY <2>3, <2>4
<1>5. ASSUME NEW a \in Voter, NEW id \in DOMAIN proposals, NEW b \in BOOLEAN, Vote(a, id, b)
      PROVE  Goal
  <2>1. a \in Account
    BY VendorDaoAssumption
  <2>2. M!At(id, "poll") /\ <<id, a>> \notin DOMAIN voteOf
    BY <1>5, AtStage, Stages DEF Vote, InStatus
  <2>3. voteOf' = M!Put(voteOf, <<id, a>>, b)
    BY <1>5 DEF Vote, Count, Put, M!Put
  <2>4. Became(id, "Proposed")
    <3>1. proposals \in [DOMAIN proposals -> Proposal]
      BY DEF TypeOK, ProposalsTypeOK, IsMap
    <3>2. proposals[id].status = "Proposed"
      BY <1>5 DEF Vote, InStatus
    <3>3. CASE b
      BY <1>5, <3>1, <3>2, <3>3 DEF Vote, Count, Became, Proposal
    <3>4. CASE ~b
      BY <1>5, <3>1, <3>2, <3>4 DEF Vote, Count, Became, Proposal
    <3> QED
      BY <3>3, <3>4
  <2>5. StageMap' = StageMap /\ TermsMap' = TermsMap
    BY <1>5, <2>4, BecameMaps DEF Vote, InStatus, StageMap
  <2>6. UNCHANGED <<IncomeMap, totalDisbursed>>
    BY <1>5, <1>i DEF Vote, Count, treasuryVars
  <2>7. M!Cast(id, a, b)
    BY <2>2, <2>3, <2>5, <2>6 DEF M!Cast
  <2> QED
    BY <1>0, <2>1, <2>7 DEF M!Next
<1>6. ASSUME NEW id \in DOMAIN proposals, CloseProposal(id) PROVE Goal
  <2>1. M!At(id, "poll") /\ voteOf' = voteOf
    BY <1>6, AtStage, Stages DEF CloseProposal, InStatus
  <2>2. CASE Passes(proposals[id].ayes, proposals[id].nays)
    <3>1. M!Mandated(id) /\ Settle(id, proposals[id])
      BY <1>6, <2>2, MandatedIsPassed DEF CloseProposal
    <3>2. M!Pay(id) \/ M!Award(id)
      BY <2>1, <3>1, SettleMaps DEF M!Pay, M!Award
    <3> QED
      BY <1>0, <3>2 DEF M!Next
  <2>3. CASE ~Passes(proposals[id].ayes, proposals[id].nays)
    <3>1. ~M!Mandated(id) /\ proposals' = [proposals EXCEPT ![id].status = "Rejected"]
          /\ UNCHANGED <<IncomeMap, totalDisbursed>>
      BY <1>6, <1>i, <2>3, MandatedIsPassed DEF CloseProposal, treasuryVars
    <3>2. Became(id, "Rejected")
      BY <3>1, SetStatusBecame
    <3>3. M!Defeat(id)
      BY <2>1, <3>1, <3>2, BecameMaps, Stages DEF M!Defeat, M!GoTo
    <3> QED
      BY <1>0, <3>3 DEF M!Next
  <2> QED
    BY <2>2, <2>3
<1>7. ASSUME NEW id \in DOMAIN proposals, Disburse(id) PROVE Goal
  <2>1. M!At(id, "awarded") /\ voteOf' = voteOf /\ Settle(id, proposals[id])
    BY <1>7, AtStage, Stages DEF Disburse, InStatus
  <2>2. CASE M!GoTo(id, "awarded") /\ UNCHANGED <<TermsMap, voteOf, IncomeMap, totalDisbursed>>
    <3>1. StageMap' = StageMap
      BY <2>1, <2>2 DEF M!GoTo, M!At, StageMap
    <3> QED
      BY <2>2, <3>1 DEF M!mandateVars
  <2>3. CASE /\ M!GoTo(id, "paid")
             /\ IncomeMap' = [IncomeMap EXCEPT ![TermsMap[id].payee] = @ + TermsMap[id].amount]
             /\ totalDisbursed' = totalDisbursed + TermsMap[id].amount
             /\ UNCHANGED <<TermsMap, voteOf>>
    <3>1. M!Pay(id)
      BY <2>1, <2>3 DEF M!Pay
    <3> QED
      BY <1>0, <3>1 DEF M!Next
  <2> QED
    BY <2>1, <2>2, <2>3, SettleMaps
<1>8. ASSUME NEW a \in Proposer, NEW id \in DOMAIN proposals, CancelProposal(a, id)
      PROVE  Goal
  <2>1. M!At(id, "review") \/ M!At(id, "poll")
    BY <1>8, AtStage, Stages DEF CancelProposal
  <2>2. /\ Became(id, "Cancelled") /\ UNCHANGED <<voteOf, IncomeMap, totalDisbursed>>
    BY <1>8, <1>i, SetStatusBecame DEF CancelProposal, treasuryVars
  <2>3. M!Withdraw(id)
    BY <2>1, <2>2, BecameMaps, Stages DEF M!Withdraw, M!GoTo
  <2> QED
    BY <1>0, <2>3 DEF M!Next
<1> QED
  BY <1>1, <1>2, <1>3, <1>4, <1>5, <1>6, <1>7, <1>8 DEF ProposalStep

LEMMA StepMaps == MapInv /\ [Next]_vars => [M!Next]_(M!mandateVars)
<1> SUFFICES ASSUME MapInv, [Next]_vars PROVE [M!Next]_(M!mandateVars)
  OBVIOUS
<1>1. CASE MoneyStep
  <2>1. UNCHANGED <<proposals, voteOf, vendors, totalDisbursed>>
    BY <1>1 DEF MoneyStep, ballotVars, FundTreasury, RegisterDonor, SubmitGrant, StakeMint,
                PlainTransfer
  <2> QED
    BY <2>1, SameMandate DEF IncomeMap
<1>2. CASE ResidencyStep \/ AccountingStep \/ UNCHANGED vars
  <2>1. UNCHANGED <<proposals, voteOf, vendors, totalDisbursed>>
    BY <1>2 DEF ResidencyStep, AccountingStep, vars, ballotVars, treasuryVars
  <2> QED
    BY <2>1, SameMandate DEF IncomeMap
<1>3. CASE RegistryStep
  BY <1>3, RegistryStepMaps DEF MapInv, VotesInv
<1> QED
  BY <1>1, <1>2, <1>3, ProposalStepMaps DEF Next

\* For every number of accounts, proposals and blocks, the pallet's ballots,
\* decisions and payments are those that Mandate allows.
THEOREM PalletImplementsMandate == Spec => ImplementsMandate
<1>1. Init => MapInv
  BY VotesInit, TermsInit DEF MapInv
<1>2. MapInv /\ [Next]_vars => MapInv'
  BY VotesNext, TermsNext DEF MapInv
<1> QED
  BY <1>1, <1>2, InitMaps, StepMaps, PTL DEF Spec, ImplementsMandate, M!Spec
-----------------------------------------------------------------------------
\* A decision is left as it is, or paid if it is an approval.
LEMMA StepKeepsDecisions == ASSUME TypeOK, KeysKnown, [Next]_vars PROVE KeepsDecisions
<1>1. CASE UNCHANGED proposals
  BY <1>1 DEF KeepsDecisions
<1>2. CASE Submitted
  <2>1. proposalCount \notin DOMAIN proposals
    BY DEF KeysKnown, TypeOK, ProposalsTypeOK, IsMap
  <2>2. \A id \in DOMAIN proposals : proposals'[id] = proposals[id]
    BY <1>2, <2>1 DEF Submitted, Put
  <2> QED
    BY <2>2 DEF KeepsDecisions
<1>3. ASSUME NEW id \in DOMAIN proposals, NEW s \in ProposalStatus, NEW e \in Nat,
             Moved(id, s, e), Transition(id, s, e)
      PROVE  KeepsDecisions
  <2>1. /\ \A x \in DOMAIN proposals : x # id => proposals'[x] = proposals[x]
        /\ proposals'[id].status = s
    BY <1>3 DEF Moved
  <2>2. /\ proposals[id].status \notin {"Vetoed", "Rejected", "Cancelled", "Funded"}
        /\ proposals[id].status = "Approved" => s \in {"Approved", "Funded"}
    BY <1>3 DEF Transition
  <2> QED
    BY <2>1, <2>2 DEF KeepsDecisions
<1>4. ASSUME NEW a \in Voter, NEW id \in DOMAIN proposals, NEW b \in BOOLEAN, Vote(a, id, b)
      PROVE  KeepsDecisions
  <2>1. /\ \A x \in DOMAIN proposals : x # id => proposals'[x] = proposals[x]
        /\ proposals[id].status = "Proposed"
    BY <1>4, VoteTallies, VendorDaoAssumption
  <2> QED
    BY <2>1 DEF KeepsDecisions
<1> QED
  BY <1>1, <1>2, <1>3, <1>4, BallotSteps

\* No vote, grant, receipt or update is ever altered or removed: with every id
\* ahead of those in use, an insertion never meets an entry.  And no call of
\* the life cycle, in whatever order they come, changes a decision.
THEOREM RecordsAreKept == Spec => AppendOnly
<1>1. IdsInv /\ VotesInv /\ [Next]_vars => [KeepsRecords /\ KeepsDecisions]_vars
  BY StepKeepsRecords, StepKeepsDecisions DEF VotesInv
<1> QED
  BY <1>1, IdsInit, IdsNext, VotesInit, VotesNext, PTL DEF Spec, AppendOnly
=============================================================================

----------------------------- MODULE DemoProofs -----------------------------
(***************************************************************************)
(* What every step of demo mode keeps, for every value of the constants:   *)
(* the types of the replica's lists and the ids they hand out, the books   *)
(* of its treasury, its vendors, donors and receipts, and the decisions of *)
(* its votes.                                                              *)
(***************************************************************************)
EXTENDS DemoLedger, MapLemmas, SequenceTheorems

\* The maximum of a finite set of natural numbers.
LEMMA HasMax ==
    ASSUME NEW S \in SUBSET Int, IsFiniteSet(S), S # {}
    PROVE  Max(S) \in S /\ \A y \in S : Max(S) >= y
<1> DEFINE T == {s \in SUBSET S : s = {} \/ \E x \in s : \A y \in s : x >= y}
<1>1. {} \in T
  OBVIOUS
<1>2. ASSUME NEW s \in T, NEW e \in S, e \notin s PROVE s \cup {e} \in T
  <2>1. CASE s = {}
    BY <2>1
  <2>2. CASE s # {}
    <3>1. PICK x \in s : \A y \in s : x >= y
      BY <2>2
    <3>2. s \cup {e} \subseteq Int
      OBVIOUS
    <3>3. CASE x >= e
      BY <3>1, <3>2, <3>3
    <3>4. CASE e >= x
      <4>1. \A y \in s \cup {e} : e >= y
        BY <3>1, <3>2, <3>4
      <4> QED
        BY <4>1
    <3> QED
      BY <3>2, <3>3, <3>4
  <2> QED
    BY <2>1, <2>2
<1>3. S \in T
  <2> HIDE DEF T
  <2> QED
    BY <1>1, <1>2, FiniteSetInduction
<1> QED
  BY <1>3 DEF Max

\* The latest block among those of finitely many entries.
LEMMA LatestBlock ==
    ASSUME NEW D, IsFiniteSet(D), NEW g \in [D -> Nat]
    PROVE  Max({g[k] : k \in D} \cup {0}) \in Nat
<1>1. PICK S : S = {g[k] : k \in D}
  OBVIOUS
<1>2. g \in Surjection(D, S)
  BY <1>1 DEF Surjection
<1>3. IsFiniteSet(S)
  BY <1>2, FS_Surjection
<1>4. PICK U : U = S \cup {0}
  OBVIOUS
<1>5. IsFiniteSet(U)
  BY <1>3, <1>4, FS_AddElement
<1>6. U \subseteq Nat /\ U \in SUBSET Int /\ U # {}
  BY <1>1, <1>4
<1>7. Max(U) \in U
  BY <1>5, <1>6, HasMax
<1>8. Max(U) \in Nat
  BY <1>6, <1>7
<1> QED
  BY <1>1, <1>4, <1>8

\* A list of n entries: its ids are 0 to n - 1.
Listing(f, V, n) == n \in Nat /\ f \in [0 .. n - 1 -> V]
IsList(f, V) == \E n : Listing(f, V, n)

LEMMA ListIds ==
    ASSUME NEW f, NEW V, IsList(f, V)
    PROVE  /\ DOMAIN f = 0 .. Cardinality(DOMAIN f) - 1
           /\ IsFiniteSet(DOMAIN f) /\ DOMAIN f \subseteq Nat
           /\ f \in [DOMAIN f -> V]
<1>1. PICK n \in Nat : f \in [0 .. n - 1 -> V]
  BY DEF IsList, Listing
<1>2. 0 \in Int /\ n - 1 \in Int
  BY <1>1
<1>3. IsFiniteSet(0 .. n - 1) /\ Cardinality(0 .. n - 1) = n
  BY <1>1, <1>2, FS_Interval
<1> QED
  BY <1>1, <1>3

\* The id after the largest one is the number of entries.
LEMMA NextId ==
    ASSUME NEW f, NEW V, NEW n, Listing(f, V, n)
    PROVE  NewId(f) = n
<1>1. n \in Nat /\ DOMAIN f = 0 .. n - 1
  BY DEF Listing
<1>2. PICK S : S = DOMAIN f \cup {-1}
  OBVIOUS
<1>3. n - 1 \in S /\ S \subseteq Int /\ \A y \in S : n - 1 >= y
  BY <1>1, <1>2
<1>4. \A x \in S : (\A y \in S : x >= y) => x = n - 1
  BY <1>1, <1>3
<1>5. Max(S) = n - 1
  BY <1>3, <1>4 DEF Max
<1> QED
  BY <1>1, <1>2, <1>5 DEF NewId

\* An entry under the next id makes a longer list.
Grown(f, g, id, v) ==
    /\ id \in Nat /\ id \notin DOMAIN f
    /\ DOMAIN g = DOMAIN f \cup {id} /\ g[id] = v
    /\ \A k \in DOMAIN f : g[k] = f[k]

LEMMA ListGrows ==
    ASSUME NEW f, NEW V, IsList(f, V), NEW v \in V
    PROVE  /\ IsList(Put(f, NewId(f), v), V)
           /\ Grown(f, Put(f, NewId(f), v), NewId(f), v)
<1>1. PICK n : Listing(f, V, n)
  BY DEF IsList
<1>2. NewId(f) = n /\ n \in Nat /\ DOMAIN f = 0 .. n - 1
  BY <1>1, NextId DEF Listing
<1>3. 0 .. (n + 1) - 1 = (0 .. n - 1) \cup {n} /\ n \notin 0 .. n - 1 /\ n + 1 \in Nat
  BY <1>2
<1>4. PICK g : g = Put(f, n, v)
  OBVIOUS
<1>5. g \in [(0 .. n - 1) \cup {n} -> V]
  BY <1>1, <1>2, <1>4 DEF Put, Listing
<1>6. Listing(g, V, n + 1)
  BY <1>3, <1>5 DEF Listing
<1>7. Grown(f, g, n, v)
  BY <1>2, <1>3, <1>4 DEF Put, Grown
<1> QED
  BY <1>2, <1>4, <1>6, <1>7 DEF IsList

\* A list with one entry replaced.
LEMMA ListChanges ==
    ASSUME NEW f, NEW V, IsList(f, V), NEW k \in DOMAIN f, NEW v \in V
    PROVE  IsList([f EXCEPT ![k] = v], V)
BY DEF IsList, Listing

\* A map with a value inserted.
Inserted(f, g, k, v) ==
    /\ DOMAIN g = DOMAIN f \cup {k} /\ g[k] = v
    /\ \A x \in DOMAIN f : x # k => g[x] = f[x]

LEMMA MapGrows ==
    ASSUME NEW K, NEW V, NEW f, IsMap(f, K, V), NEW k \in K, NEW v \in V,
           NEW g, g = Put(f, k, v)
    PROVE  IsMap(g, K, V) /\ Inserted(f, g, k, v)
<1>1. DOMAIN g = DOMAIN f \cup {k} /\ g[k] = v /\ \A x \in DOMAIN f : x # k => g[x] = f[x]
  BY DEF Put
<1>2. g \in [DOMAIN f \cup {k} -> V]
  BY DEF Put, IsMap
<1> QED
  BY <1>1, <1>2 DEF Inserted, IsMap
-----------------------------------------------------------------------------
\* The types of the replica's entries.

Sellers == DOMAIN createDemoVendors \cup {CITIZEN}
Givers == DOMAIN createDemoDonors \cup {CITIZEN}
SeedWards == {"District1", "District3", "District4", "District5", "District6", "Citywide"}

DemoProposal ==
    [proposer : {CITIZEN}, vendor : Sellers, amount : Nat, status : DemoStatus,
     ayes : Nat, nays : Nat, createdAt : Nat, votingEnd : Nat,
     ward : DemoWards \cup SeedWards, rfpId : Nat \cup {None}]
DemoVendor ==
    [category : Categories \cup {VendorSeeds[i].category : i \in DOMAIN VendorSeeds},
     totalReceived : Nat, proposalsFunded : Nat, registeredAt : Nat]
DemoDonor == [totalContributed : Nat, grantsMade : Nat, registeredAt : Nat]
DemoGrant == [donor : Givers, amount : Nat, submittedAt : Nat]
DemoContribution == [amount : Nat, from : {CITIZEN, ADMIN}, block : Nat]
DemoUpdate == [vendor : Sellers \cup Account, proposalId : Nat \cup {None}, postedAt : Nat]
DemoRfp == [ward : DemoWards \cup SeedWards, maxAmount : Nat, status : {"Open", "Closed"},
            createdAt : Nat]
DemoReceipt == [proposalId : Nat, vendor : Sellers, amount : Nat, postedAt : Nat]

\* A vendor's totals, a donor's, and the treasury's are numbers.
Lists ==
    /\ IsList(proposals, DemoProposal)
    /\ IsList(treasuryContributions, DemoContribution)
    /\ IsList(vendorUpdates, DemoUpdate)
    /\ IsList(grants, DemoGrant)
    /\ IsList(rfps, DemoRfp)

ReceiptMap ==
    /\ IsMap(spendingReceipts, Nat \X Nat, DemoReceipt)
    /\ IsFiniteSet(DOMAIN spendingReceipts)
    /\ \A k \in DOMAIN spendingReceipts : k[1] = spendingReceipts[k].proposalId

\* What an entry names is there, and what waits to be paid was approved.
ProposalLinks ==
    \A id \in DOMAIN proposals :
        /\ proposals[id].vendor \in DOMAIN vendors
        /\ proposals[id].rfpId \in DOMAIN rfps \cup {None}
GrantLinks == \A g \in DOMAIN grants : grants[g].donor \in DOMAIN donors
VoteLinks == votedProposalIds \subseteq DOMAIN proposals
QueueLinks ==
    queued # None => queued \in DOMAIN proposals /\ proposals[queued].status = "Approved"

Typed ==
    /\ treasury \in [potBalance : Nat, totalDisbursed : Nat, totalReceived : Nat]
    /\ Lists
    /\ IsMap(vendors, Sellers, DemoVendor)
    /\ IsMap(donors, Givers, DemoDonor)
    /\ DOMAIN kycRecords \subseteq {CITIZEN} /\ DOMAIN stakedBalances \subseteq Account
    /\ ReceiptMap
    /\ ProposalLinks /\ GrantLinks /\ VoteLinks /\ QueueLinks

LEMMA TypedIsTypeOK == Typed => DemoTypeOK
<1> SUFFICES ASSUME Typed PROVE DemoTypeOK
  OBVIOUS
<1>1. \A list \in {proposals, treasuryContributions, vendorUpdates, grants, rfps} :
          DOMAIN list = 0 .. Cardinality(DOMAIN list) - 1
  BY ListIds DEF Typed, Lists
<1>2. ASSUME NEW id \in DOMAIN proposals
      PROVE  /\ proposals[id].status \in DemoStatus
             /\ proposals[id].vendor \in DOMAIN vendors
             /\ proposals[id].rfpId \in DOMAIN rfps \cup {None}
  <2>1. proposals \in [DOMAIN proposals -> DemoProposal]
    BY ListIds DEF Typed, Lists
  <2> QED
    BY <2>1 DEF Typed, ProposalLinks, DemoProposal
<1>3. ASSUME NEW k \in DOMAIN spendingReceipts
      PROVE  k = <<spendingReceipts[k].proposalId, k[2]>>
  <2>1. k \in Nat \X Nat /\ k[1] = spendingReceipts[k].proposalId
    BY DEF Typed, ReceiptMap, IsMap
  <2> QED
    BY <2>1
<1>4. queued \in DOMAIN proposals \cup {None} /\ votedProposalIds \subseteq DOMAIN proposals
  BY DEF Typed, VoteLinks, QueueLinks
<1> QED
  BY <1>1, <1>2, <1>3, <1>4 DEF Typed, DemoTypeOK
-----------------------------------------------------------------------------
\* What the seed tables hold.

LEMMA SeedIds ==
    /\ Ids(ProposalSeeds) = 0 .. 9 /\ Ids(RfpSeeds) = 0 .. 2
    /\ Ids(ContributionSeeds) = 0 .. 1 /\ Ids(GrantSeeds) = 0 .. 2
    /\ Ids(VendorUpdateSeeds) = 0 .. 11 /\ Ids(SpendingReceiptSeeds) = 0 .. 4
<1>1. Len(ProposalSeeds) = 10
  BY DEF ProposalSeeds
<1>2. Len(RfpSeeds) = 3
  BY DEF RfpSeeds
<1>3. Len(ContributionSeeds) = 2
  BY DEF ContributionSeeds
<1>4. Len(GrantSeeds) = 3
  BY DEF GrantSeeds
<1>5. Len(VendorUpdateSeeds) = 12
  BY DEF VendorUpdateSeeds
<1>6. Len(SpendingReceiptSeeds) = 5
  BY DEF SpendingReceiptSeeds
<1> QED
  BY <1>1, <1>2, <1>3, <1>4, <1>5, <1>6 DEF Ids

LEMMA VendorTable ==
    /\ DOMAIN VendorSeeds = 1 .. 7
    /\ DOMAIN createDemoVendors = {"motor-city", "eastern-market", "blight-busters", "corktown",
                                   "belle-isle", "north-end", "riverwalk"}
    /\ \A i \in DOMAIN VendorSeeds : VendorSeeds[i].registeredAt \in Nat
<1>1. DOMAIN VendorSeeds = 1 .. 7
  BY DEF VendorSeeds
<1>2. /\ VendorSeeds[1].key = "motor-city" /\ VendorSeeds[2].key = "eastern-market"
      /\ VendorSeeds[3].key = "blight-busters" /\ VendorSeeds[4].key = "corktown"
      /\ VendorSeeds[5].key = "belle-isle" /\ VendorSeeds[6].key = "north-end"
      /\ VendorSeeds[7].key = "riverwalk"
  BY DEF VendorSeeds
<1>3. /\ VendorSeeds[1].registeredAt \in Nat /\ VendorSeeds[2].registeredAt \in Nat
      /\ VendorSeeds[3].registeredAt \in Nat /\ VendorSeeds[4].registeredAt \in Nat
      /\ VendorSeeds[5].registeredAt \in Nat /\ VendorSeeds[6].registeredAt \in Nat
      /\ VendorSeeds[7].registeredAt \in Nat
  BY DEF VendorSeeds
<1>4. 1 .. 7 = {1, 2, 3, 4, 5, 6, 7}
  OBVIOUS
<1>5. DOMAIN createDemoVendors = {VendorSeeds[i].key : i \in {1, 2, 3, 4, 5, 6, 7}}
  BY <1>1, <1>4 DEF createDemoVendors
<1>6. DOMAIN createDemoVendors = {"motor-city", "eastern-market", "blight-busters", "corktown",
                                   "belle-isle", "north-end", "riverwalk"}
  BY <1>2, <1>5
<1>7. \A i \in {1, 2, 3, 4, 5, 6, 7} : VendorSeeds[i].registeredAt \in Nat
  BY <1>3
<1> QED
  BY <1>1, <1>4, <1>6, <1>7

\* A proposal as it is built from its row of the table.
Seed(v, amount, status, ayes, nays, created, end, ward, rfp) ==
    [proposer |-> CITIZEN, vendor |-> v, amount |-> amount, status |-> status,
     ayes |-> ayes, nays |-> nays, createdAt |-> created, votingEnd |-> end,
     ward |-> ward, rfpId |-> rfp]

LEMMA SeedProposal ==
    ASSUME NEW id \in 0 .. 9, NEW s, s = ProposalSeeds[id + 1]
    PROVE  createDemoProposals[id] = Seed(s[1], s[2], s[3], s[4], s[5], s[6], s[7], s[8], s[9])
BY SeedIds DEF createDemoProposals, Built, Seed

LEMMA ProposalTable ==
    /\ DOMAIN createDemoProposals = 0 .. 9
    /\ createDemoProposals[0] = Seed("belle-isle", 185, "Funded", 412, 37, 8100, 22500, "District5", None)
    /\ createDemoProposals[1] = Seed("blight-busters", 62, "Funded", 298, 21, 9500, 23900, "District1", None)
    /\ createDemoProposals[2] = Seed("riverwalk", 240, "Approved", 356, 118, 15200, 29600, "Citywide", None)
    /\ createDemoProposals[3] = Seed("eastern-market", 94, "Proposed", 187, 42, 24800, 39200, "District4", None)
    /\ createDemoProposals[4] = Seed("corktown", 310, "Proposed", 201, 76, 25100, 39500, "District6", None)
    /\ createDemoProposals[5] = Seed("motor-city", 150, "Rejected", 88, 214, 11300, 25700, "District4", None)
    /\ createDemoProposals[6] = Seed("north-end", 38, "Proposed", 264, 19, 26000, 40400, "Citywide", None)
    /\ createDemoProposals[7] = Seed("riverwalk", 76, "Cancelled", 12, 3, 12800, 27200, "District5", None)
    /\ createDemoProposals[8] = Seed("motor-city", 118, "PendingReview", 0, 0, 27200, 27200, "District3", 0)
    /\ createDemoProposals[9] = Seed("eastern-market", 420, "Vetoed", 0, 0, 18600, 18600, "Citywide", None)
<1>1. DOMAIN createDemoProposals = 0 .. 9
  BY SeedIds DEF createDemoProposals, Built
<1>2. /\ ProposalSeeds[1] = <<"belle-isle", 185, "Funded", 412, 37, 8100, 22500, "District5", None>>
      /\ ProposalSeeds[2] = <<"blight-busters", 62, "Funded", 298, 21, 9500, 23900, "District1", None>>
      /\ ProposalSeeds[3] = <<"riverwalk", 240, "Approved", 356, 118, 15200, 29600, "Citywide", None>>
      /\ ProposalSeeds[4] = <<"eastern-market", 94, "Proposed", 187, 42, 24800, 39200, "District4", None>>
      /\ ProposalSeeds[5] = <<"corktown", 310, "Proposed", 201, 76, 25100, 39500, "District6", None>>
      /\ ProposalSeeds[6] = <<"motor-city", 150, "Rejected", 88, 214, 11300, 25700, "District4", None>>
      /\ ProposalSeeds[7] = <<"north-end", 38, "Proposed", 264, 19, 26000, 40400, "Citywide", None>>
      /\ ProposalSeeds[8] = <<"riverwalk", 76, "Cancelled", 12, 3, 12800, 27200, "District5", None>>
      /\ ProposalSeeds[9] = <<"motor-city", 118, "PendingReview", 0, 0, 27200, 27200, "District3", 0>>
      /\ ProposalSeeds[10] = <<"eastern-market", 420, "Vetoed", 0, 0, 18600, 18600, "Citywide", None>>
  BY DEF ProposalSeeds
<1>3. /\ createDemoProposals[0] = Seed("belle-isle", 185, "Funded", 412, 37, 8100, 22500, "District5", None)
      /\ createDemoProposals[1] = Seed("blight-busters", 62, "Funded", 298, 21, 9500, 23900, "District1", None)
  BY <1>2, SeedProposal
<1>4. /\ createDemoProposals[2] = Seed("riverwalk", 240, "Approved", 356, 118, 15200, 29600, "Citywide", None)
      /\ createDemoProposals[3] = Seed("eastern-market", 94, "Proposed", 187, 42, 24800, 39200, "District4", None)
  BY <1>2, SeedProposal
<1>5. /\ createDemoProposals[4] = Seed("corktown", 310, "Proposed", 201, 76, 25100, 39500, "District6", None)
      /\ createDemoProposals[5] = Seed("motor-city", 150, "Rejected", 88, 214, 11300, 25700, "District4", None)
  BY <1>2, SeedProposal
<1>6. /\ createDemoProposals[6] = Seed("north-end", 38, "Proposed", 264, 19, 26000, 40400, "Citywide", None)
      /\ createDemoProposals[7] = Seed("riverwalk", 76, "Cancelled", 12, 3, 12800, 27200, "District5", None)
  BY <1>2, SeedProposal
<1>7. /\ createDemoProposals[8] = Seed("motor-city", 118, "PendingReview", 0, 0, 27200, 27200, "District3", 0)
      /\ createDemoProposals[9] = Seed("eastern-market", 420, "Vetoed", 0, 0, 18600, 18600, "Citywide", None)
  BY <1>2, SeedProposal
<1> QED
  BY <1>1, <1>3, <1>4, <1>5, <1>6, <1>7

\* What each seeded proposal is like.
Plausible(p) ==
    /\ p \in DemoProposal
    /\ p.vendor \in DOMAIN createDemoVendors
    /\ p.rfpId \in {0, None}
    /\ p.status \in {"Approved", "Funded"} => Passed(p)
    /\ p.status = "Rejected" => ~Passed(p)

LEMMA SeedsPlausible == \A id \in 0 .. 9 : Plausible(createDemoProposals[id])
<1>d. /\ "belle-isle" \in DOMAIN createDemoVendors /\ "blight-busters" \in DOMAIN createDemoVendors
      /\ "riverwalk" \in DOMAIN createDemoVendors /\ "eastern-market" \in DOMAIN createDemoVendors
      /\ "corktown" \in DOMAIN createDemoVendors /\ "motor-city" \in DOMAIN createDemoVendors
      /\ "north-end" \in DOMAIN createDemoVendors
  BY VendorTable
<1> USE DEF Plausible, Seed, DemoProposal, Sellers, Passed, DEMO_MINIMUM_QUORUM,
              SeedWards, DemoStatus
<1>0. Plausible(Seed("belle-isle", 185, "Funded", 412, 37, 8100, 22500, "District5", None))
  BY <1>d
<1>1. Plausible(Seed("blight-busters", 62, "Funded", 298, 21, 9500, 23900, "District1", None))
  BY <1>d
<1>2. Plausible(Seed("riverwalk", 240, "Approved", 356, 118, 15200, 29600, "Citywide", None))
  BY <1>d
<1>3. Plausible(Seed("eastern-market", 94, "Proposed", 187, 42, 24800, 39200, "District4", None))
  BY <1>d
<1>4. Plausible(Seed("corktown", 310, "Proposed", 201, 76, 25100, 39500, "District6", None))
  BY <1>d
<1>5. Plausible(Seed("motor-city", 150, "Rejected", 88, 214, 11300, 25700, "District4", None))
  BY <1>d
<1>6. Plausible(Seed("north-end", 38, "Proposed", 264, 19, 26000, 40400, "Citywide", None))
  BY <1>d
<1>7. Plausible(Seed("riverwalk", 76, "Cancelled", 12, 3, 12800, 27200, "District5", None))
  BY <1>d
<1>8. Plausible(Seed("motor-city", 118, "PendingReview", 0, 0, 27200, 27200, "District3", 0))
  BY <1>d
<1>9. Plausible(Seed("eastern-market", 420, "Vetoed", 0, 0, 18600, 18600, "Citywide", None))
  BY <1>d
<1> HIDE DEF Plausible, Seed, DemoProposal, Sellers, Passed, DEMO_MINIMUM_QUORUM,
              SeedWards, DemoStatus
<1>10. \A id \in 0 .. 9 : id \in {0, 1, 2, 3, 4, 5, 6, 7, 8, 9}
  OBVIOUS
<1> QED
  BY <1>10, <1>0, <1>1, <1>2, <1>3, <1>4, <1>5, <1>6, <1>7, <1>8, <1>9, ProposalTable

\* The seeds' ids are finitely many.
LEMMA FewIds == IsFiniteSet(0 .. 9)
<1>1. PICK a \in Int, b \in Int : a = 0 /\ b = 9
  OBVIOUS
<1>2. IsFiniteSet(a .. b)
  BY FS_Interval
<1> QED
  BY <1>1, <1>2

\* The two payouts among the seeds.
LEMMA PayoutTable ==
    /\ FundedSeeds = {0, 1}
    /\ createDemoProposals[0].amount = 185 /\ createDemoProposals[1].amount = 62
    /\ createDemoProposals[0].vendor = "belle-isle"
    /\ createDemoProposals[1].vendor = "blight-busters"
<1>1. \A v, x, s, m, n, b, e, w, r :
         LET p == Seed(v, x, s, m, n, b, e, w, r)
         IN  p.status = s /\ p.amount = x /\ p.vendor = v
  BY DEF Seed
<1>2. /\ createDemoProposals[0].status = "Funded" /\ createDemoProposals[1].status = "Funded"
      /\ createDemoProposals[2].status # "Funded" /\ createDemoProposals[3].status # "Funded"
      /\ createDemoProposals[4].status # "Funded" /\ createDemoProposals[5].status # "Funded"
      /\ createDemoProposals[6].status # "Funded" /\ createDemoProposals[7].status # "Funded"
      /\ createDemoProposals[8].status # "Funded" /\ createDemoProposals[9].status # "Funded"
  BY <1>1, ProposalTable
<1>3. FundedSeeds = {0, 1}
  BY <1>2, SeedIds DEF FundedSeeds
<1> QED
  BY <1>1, <1>3, ProposalTable

\* The seeded income.
LEMMA IncomeTable ==
    /\ createDemoTreasuryContributions \in [0 .. 1 -> DemoContribution]
    /\ createDemoTreasuryContributions[0].amount = 45
    /\ createDemoTreasuryContributions[1].amount = 22
    /\ createDemoGrants \in [0 .. 2 -> DemoGrant]
    /\ createDemoGrants[0].amount = 500 /\ createDemoGrants[1].amount = 100
    /\ createDemoGrants[2].amount = 18
    /\ \A g \in 0 .. 2 : /\ createDemoGrants[g] = GrantSeeds[g + 1]
                         /\ createDemoGrants[g].donor \in DOMAIN createDemoDonors
<1>1. /\ ContributionSeeds[1].amount = 45 /\ ContributionSeeds[1].block = 5000
      /\ ContributionSeeds[2].amount = 22 /\ ContributionSeeds[2].block = 7000
  BY DEF ContributionSeeds
<1>2. /\ DOMAIN createDemoTreasuryContributions = 0 .. 1
      /\ \A c \in 0 .. 1 : createDemoTreasuryContributions[c] =
            [amount |-> ContributionSeeds[c + 1].amount,
             block |-> ContributionSeeds[c + 1].block, from |-> ADMIN]
      /\ createDemoTreasuryContributions = [c \in 0 .. 1 |-> createDemoTreasuryContributions[c]]
  BY SeedIds DEF createDemoTreasuryContributions, Built
<1>3. \A c \in 0 .. 1 : createDemoTreasuryContributions[c] \in DemoContribution
  <2>1. ASSUME NEW c \in 0 .. 1 PROVE createDemoTreasuryContributions[c] \in DemoContribution
    <3>1. ContributionSeeds[c + 1].amount \in Nat /\ ContributionSeeds[c + 1].block \in Nat
      <4>1. c = 0 \/ c = 1
        OBVIOUS
      <4> QED
        BY <1>1, <4>1
    <3> QED
      BY <1>2, <3>1 DEF DemoContribution
  <2> QED
    BY <2>1
<1>4. /\ GrantSeeds[1] = [donor |-> ADMIN,     amount |-> 500, submittedAt |-> 500]
      /\ GrantSeeds[2] = [donor |-> "kresge",  amount |-> 100, submittedAt |-> 2000]
      /\ GrantSeeds[3] = [donor |-> "chamber", amount |-> 18,  submittedAt |-> 6800]
  BY DEF GrantSeeds
<1>5. /\ DOMAIN createDemoGrants = 0 .. 2
      /\ \A g \in 0 .. 2 : createDemoGrants[g] = GrantSeeds[g + 1]
      /\ createDemoGrants = [g \in 0 .. 2 |-> createDemoGrants[g]]
  BY SeedIds DEF createDemoGrants, Built
<1>6. ADMIN \in DOMAIN createDemoDonors /\ "kresge" \in DOMAIN createDemoDonors
      /\ "chamber" \in DOMAIN createDemoDonors
  <2>1. /\ DonorSeeds[1].key = ADMIN /\ DonorSeeds[2].key = "kresge"
        /\ DonorSeeds[3].key = "chamber" /\ DOMAIN DonorSeeds = 1 .. 3
    BY DEF DonorSeeds
  <2>2. DOMAIN createDemoDonors = {DonorSeeds[i].key : i \in 1 .. 3}
    BY <2>1 DEF createDemoDonors
  <2> QED
    BY <2>1, <2>2
<1>7. \A g \in 0 .. 2 : /\ createDemoGrants[g] \in DemoGrant
                        /\ createDemoGrants[g].donor \in DOMAIN createDemoDonors
  <2>1. ASSUME NEW g \in 0 .. 2
        PROVE  /\ createDemoGrants[g] \in DemoGrant
               /\ createDemoGrants[g].donor \in DOMAIN createDemoDonors
    <3>1. g = 0 \/ g = 1 \/ g = 2
      OBVIOUS
    <3> QED
      BY <1>4, <1>5, <1>6, <3>1 DEF DemoGrant, Givers
  <2> QED
    BY <2>1
<1> QED
  BY <1>1, <1>2, <1>3, <1>4, <1>5, <1>7

\* The other lists, of which only the ids and the types matter.
LEMMA OtherTables ==
    /\ createDemoRfps \in [0 .. 2 -> DemoRfp]
    /\ createDemoVendorUpdates \in [0 .. 11 -> DemoUpdate]
<1>1. createDemoRfps \in [0 .. 2 -> DemoRfp]
  <2>1. /\ RfpSeeds[1] \in DemoRfp /\ RfpSeeds[2] \in DemoRfp /\ RfpSeeds[3] \in DemoRfp
    <3>1. /\ RfpSeeds[1] = [ward |-> "District3", maxAmount |-> 150, status |-> "Open", createdAt |-> 27000]
          /\ RfpSeeds[2] = [ward |-> "District1", maxAmount |-> 80, status |-> "Open", createdAt |-> 30000]
          /\ RfpSeeds[3] = [ward |-> "District6", maxAmount |-> 45, status |-> "Closed", createdAt |-> 16000]
      BY DEF RfpSeeds
    <3> QED
      BY <3>1 DEF DemoRfp, SeedWards
  <2>2. createDemoRfps = [id \in 0 .. 2 |-> RfpSeeds[id + 1]]
    BY SeedIds DEF createDemoRfps, Built
  <2>3. ASSUME NEW id \in 0 .. 2 PROVE RfpSeeds[id + 1] \in DemoRfp
    <3>1. id = 0 \/ id = 1 \/ id = 2
      OBVIOUS
    <3> QED
      BY <2>1, <3>1
  <2> QED
    BY <2>2, <2>3
<1>2. createDemoVendorUpdates \in [0 .. 11 -> DemoUpdate]
  <2>1. ASSUME NEW i \in 1 .. 12
        PROVE  /\ VendorUpdateSeeds[i][1] \in Sellers
               /\ VendorUpdateSeeds[i][2] \in Nat \cup {None}
               /\ VendorUpdateSeeds[i][3] \in Nat
    <3>1. 1 .. 12 = {1, 2, 3, 4, 5, 6, 7, 8, 9, 10, 11, 12}
      OBVIOUS
    <3> QED
      BY <3>1, VendorTable DEF VendorUpdateSeeds, Sellers
  <2>2. createDemoVendorUpdates =
            [id \in 0 .. 11 |-> [vendor |-> VendorUpdateSeeds[id + 1][1],
                                 proposalId |-> VendorUpdateSeeds[id + 1][2],
                                 postedAt |-> VendorUpdateSeeds[id + 1][3]]]
    BY SeedIds DEF createDemoVendorUpdates, Built
  <2>3. ASSUME NEW id \in 0 .. 11
        PROVE  [vendor |-> VendorUpdateSeeds[id + 1][1],
                proposalId |-> VendorUpdateSeeds[id + 1][2],
                postedAt |-> VendorUpdateSeeds[id + 1][3]] \in DemoUpdate
    <3>1. PICK i \in 1 .. 12 : i = id + 1
      OBVIOUS
    <3> QED
      BY <2>1, <3>1 DEF DemoUpdate
  <2> QED
    BY <2>2, <2>3
<1> QED
  BY <1>1, <1>2

\* The seeded receipts: three for the first payout, two for the second.
LEMMA ReceiptTable ==
    /\ DOMAIN createDemoSpendingReceipts = {<<0, 0>>, <<0, 1>>, <<0, 2>>, <<1, 3>>, <<1, 4>>}
    /\ \A k \in DOMAIN createDemoSpendingReceipts :
          /\ createDemoSpendingReceipts[k] \in DemoReceipt
          /\ createDemoSpendingReceipts[k].proposalId = k[1]
          /\ createDemoSpendingReceipts[k].vendor = createDemoProposals[k[1]].vendor
    /\ createDemoSpendingReceipts[<<0, 0>>].amount = 92
    /\ createDemoSpendingReceipts[<<0, 1>>].amount = 68
    /\ createDemoSpendingReceipts[<<0, 2>>].amount = 12
    /\ createDemoSpendingReceipts[<<1, 3>>].amount = 24
    /\ createDemoSpendingReceipts[<<1, 4>>].amount = 30
<1> DEFINE R(s) == [proposalId |-> s[1], vendor |-> s[2], amount |-> s[3], postedAt |-> s[4]]
<1>1. /\ SpendingReceiptSeeds[1] = <<0, "belle-isle", 92, 23100>>
      /\ SpendingReceiptSeeds[2] = <<0, "belle-isle", 68, 24600>>
      /\ SpendingReceiptSeeds[3] = <<0, "belle-isle", 12, 24800>>
      /\ SpendingReceiptSeeds[4] = <<1, "blight-busters", 24, 24200>>
      /\ SpendingReceiptSeeds[5] = <<1, "blight-busters", 30, 25000>>
  BY DEF SpendingReceiptSeeds
<1>2. PICK keys : keys = {<<SpendingReceiptSeeds[id + 1][1], id>> : id \in 0 .. 4}
  OBVIOUS
<1>3. keys = {<<0, 0>>, <<0, 1>>, <<0, 2>>, <<1, 3>>, <<1, 4>>}
  <2>1. keys = {<<SpendingReceiptSeeds[id + 1][1], id>> : id \in {0, 1, 2, 3, 4}}
    <3>1. 0 .. 4 = {0, 1, 2, 3, 4}
      OBVIOUS
    <3> QED
      BY <1>2, <3>1
  <2> QED
    BY <1>1, <2>1
<1>4. createDemoSpendingReceipts = [k \in keys |-> R(SpendingReceiptSeeds[k[2] + 1])]
  BY <1>2, SeedIds DEF createDemoSpendingReceipts
<1>5. /\ createDemoSpendingReceipts[<<0, 0>>] = R(<<0, "belle-isle", 92, 23100>>)
      /\ createDemoSpendingReceipts[<<0, 1>>] = R(<<0, "belle-isle", 68, 24600>>)
      /\ createDemoSpendingReceipts[<<0, 2>>] = R(<<0, "belle-isle", 12, 24800>>)
      /\ createDemoSpendingReceipts[<<1, 3>>] = R(<<1, "blight-busters", 24, 24200>>)
      /\ createDemoSpendingReceipts[<<1, 4>>] = R(<<1, "blight-busters", 30, 25000>>)
  BY <1>1, <1>3, <1>4
<1>6. "belle-isle" \in Sellers /\ "blight-busters" \in Sellers
  BY VendorTable DEF Sellers
<1>7. ASSUME NEW k \in keys
      PROVE  /\ createDemoSpendingReceipts[k] \in DemoReceipt
             /\ createDemoSpendingReceipts[k].proposalId = k[1]
             /\ createDemoSpendingReceipts[k].vendor = createDemoProposals[k[1]].vendor
  BY <1>3, <1>5, <1>6, PayoutTable DEF DemoReceipt
<1>8. DOMAIN createDemoSpendingReceipts = keys
  BY <1>4
<1>9. \A b, v, x, p : R(<<b, v, x, p>>).amount = x
  OBVIOUS
<1>10. /\ createDemoSpendingReceipts[<<0, 0>>].amount = 92
       /\ createDemoSpendingReceipts[<<0, 1>>].amount = 68
       /\ createDemoSpendingReceipts[<<0, 2>>].amount = 12
       /\ createDemoSpendingReceipts[<<1, 3>>].amount = 24
       /\ createDemoSpendingReceipts[<<1, 4>>].amount = 30
  <2> HIDE DEF R
  <2> QED
    BY <1>5, <1>9
<1> QED
  BY <1>3, <1>7, <1>8, <1>10

\* The amounts of some of the seeded proposals add up to a number.
LEMMA SeedAmountNumber ==
    ASSUME NEW S \in SUBSET FundedSeeds
    PROVE  IsFiniteSet(S) /\ SeedAmount(S) \in Nat /\ Cardinality(S) \in Nat
<1>1. S \subseteq 0 .. 1 /\ IsFiniteSet(0 .. 1)
  <2>1. IsFiniteSet(0 .. 1)
    <3>1. 0 .. 1 \in SUBSET (0 .. 9)
      OBVIOUS
    <3> QED
      BY <3>1, FewIds, FS_Subset
  <2> QED
    BY <2>1, PayoutTable
<1>2. IsFiniteSet(S)
  BY <1>1, FS_Subset
<1>a. \A id \in S : createDemoProposals[id].amount \in Nat
  BY PayoutTable
<1>3. PICK f \in [S -> Nat] : f = [id \in S |-> createDemoProposals[id].amount]
  BY <1>a
<1> QED
  BY <1>2, <1>3, SumUnits, FS_CardinalityType DEF SeedAmount

LEMMA SeedVendors == IsMap(createDemoVendors, Sellers, DemoVendor)
<1>1. ASSUME NEW a \in DOMAIN createDemoVendors PROVE createDemoVendors[a] \in DemoVendor
  <2>1. PICK i \in DOMAIN VendorSeeds : VendorSeeds[i].key = a
    BY <1>1 DEF createDemoVendors
  <2>2. PICK seed : seed = CHOOSE s \in {VendorSeeds[j] : j \in DOMAIN VendorSeeds} : s.key = a
    OBVIOUS
  <2>3. PICK j \in DOMAIN VendorSeeds : seed = VendorSeeds[j]
    BY <2>1, <2>2
  <2>4. PICK funded : funded = {id \in FundedSeeds : createDemoProposals[id].vendor = a}
    OBVIOUS
  <2>5. SeedAmount(funded) \in Nat /\ Cardinality(funded) \in Nat
    BY <2>4, SeedAmountNumber
  <2>6. createDemoVendors[a] =
            [category |-> seed.category, registeredAt |-> seed.registeredAt,
             totalReceived |-> SeedAmount(funded), proposalsFunded |-> Cardinality(funded)]
    BY <1>1, <2>2, <2>4 DEF createDemoVendors
  <2>7. seed.registeredAt \in Nat /\ seed.category \in {VendorSeeds[x].category : x \in DOMAIN VendorSeeds}
    BY <2>3, VendorTable
  <2> QED
    BY <2>5, <2>6, <2>7 DEF DemoVendor
<1>2. createDemoVendors = [a \in DOMAIN createDemoVendors |-> createDemoVendors[a]]
  BY DEF createDemoVendors
<1> QED
  BY <1>1, <1>2 DEF IsMap, Sellers

LEMMA SeedDonors == IsMap(createDemoDonors, Givers, DemoDonor)
<1>1. \A i \in 1 .. 3 : DonorSeeds[i].registeredAt \in Nat
  <2>1. 1 .. 3 = {1, 2, 3}
    OBVIOUS
  <2> QED
    BY <2>1 DEF DonorSeeds
<1>2. DOMAIN DonorSeeds = 1 .. 3
  BY DEF DonorSeeds
<1>3. ASSUME NEW a \in DOMAIN createDemoDonors PROVE createDemoDonors[a] \in DemoDonor
  <2>1. PICK i \in DOMAIN DonorSeeds : DonorSeeds[i].key = a
    BY <1>3 DEF createDemoDonors
  <2>2. PICK seed : seed = CHOOSE s \in {DonorSeeds[j] : j \in DOMAIN DonorSeeds} : s.key = a
    OBVIOUS
  <2>3. PICK j \in DOMAIN DonorSeeds : seed = DonorSeeds[j]
    BY <2>1, <2>2
  <2>4. PICK given : given = {id \in 0 .. 2 : GrantSeeds[id + 1].donor = a}
    OBVIOUS
  <2>5. IsFiniteSet(given) /\ given \subseteq 0 .. 2
    <3>1. given \in SUBSET (0 .. 9) /\ given \subseteq 0 .. 2
      BY <2>4
    <3> QED
      BY <3>1, FewIds, FS_Subset
  <2>6. PICK f \in [given -> Nat] : f = [id \in given |-> GrantSeeds[id + 1].amount]
    <3>1. ASSUME NEW id \in given PROVE GrantSeeds[id + 1].amount \in Nat
      <4>1. createDemoGrants[id] \in DemoGrant /\ createDemoGrants[id] = GrantSeeds[id + 1]
        BY <2>5, IncomeTable
      <4> QED
        BY <4>1 DEF DemoGrant
    <3> QED
      BY <3>1
  <2>7. SumFunction(f) \in Nat /\ Cardinality(given) \in Nat
    BY <2>5, SumUnits, FS_CardinalityType
  <2>8. createDemoDonors[a] =
            [registeredAt |-> seed.registeredAt, totalContributed |-> SumFunction(f),
             grantsMade |-> Cardinality(given)]
    BY <1>3, <2>2, <2>4, <2>6, SeedIds DEF createDemoDonors
  <2>9. seed.registeredAt \in Nat
    BY <1>1, <1>2, <2>3
  <2> QED
    BY <2>7, <2>8, <2>9 DEF DemoDonor
<1>4. createDemoDonors = [a \in DOMAIN createDemoDonors |-> createDemoDonors[a]]
  BY DEF createDemoDonors
<1> QED
  BY <1>3, <1>4 DEF IsMap, Givers

\* Demo mode starts well-typed.
LEMMA InitTyped == DemoInit => Typed
<1> SUFFICES ASSUME DemoInit PROVE Typed
  OBVIOUS
<1>1. Lists
  <2>1. Listing(proposals, DemoProposal, 10)
    <3>1. \A id \in 0 .. 9 : createDemoProposals[id] \in DemoProposal
      BY SeedsPlausible DEF Plausible
    <3>2. createDemoProposals = [id \in 0 .. 9 |-> createDemoProposals[id]]
      BY SeedIds DEF createDemoProposals, Built
    <3>3. 10 \in Nat /\ 0 .. 10 - 1 = 0 .. 9
      OBVIOUS
    <3> QED
      BY <3>1, <3>2, <3>3 DEF DemoInit, Listing
  <2>2. /\ Listing(treasuryContributions, DemoContribution, 2)
        /\ Listing(grants, DemoGrant, 3)
    BY IncomeTable DEF DemoInit, Listing
  <2>3. /\ Listing(vendorUpdates, DemoUpdate, 12)
        /\ Listing(rfps, DemoRfp, 3)
    BY OtherTables DEF DemoInit, Listing
  <2> QED
    BY <2>1, <2>2, <2>3 DEF Lists, IsList
<1>2. treasury \in [potBalance : Nat, totalDisbursed : Nat, totalReceived : Nat]
  BY SeedAmountNumber DEF DemoInit, createDemoTreasury
<1>3. ReceiptMap
  <2>1. PICK m : m = createDemoSpendingReceipts
    OBVIOUS
  <2>2. m = [k \in DOMAIN m |-> m[k]]
    BY <2>1 DEF createDemoSpendingReceipts
  <2>3. DOMAIN m \subseteq (0 .. 9) \X (0 .. 9)
    BY <2>1, ReceiptTable
  <2>4. IsFiniteSet((0 .. 9) \X (0 .. 9))
    BY FewIds, FS_Product
  <2>5. IsFiniteSet(DOMAIN m)
    BY <2>3, <2>4, FS_Subset
  <2>6. \A k \in DOMAIN m : m[k] \in DemoReceipt /\ k[1] = m[k].proposalId
    BY <2>1, ReceiptTable
  <2>7. DOMAIN m \subseteq Nat \X Nat
    BY <2>3
  <2> QED
    BY <2>1, <2>2, <2>5, <2>6, <2>7 DEF ReceiptMap, IsMap, DemoInit
<1>4. ProposalLinks /\ GrantLinks /\ VoteLinks /\ QueueLinks
  <2>1. ASSUME NEW id \in DOMAIN proposals
        PROVE  /\ proposals[id].vendor \in DOMAIN vendors
               /\ proposals[id].rfpId \in DOMAIN rfps \cup {None}
    <3>1. id \in 0 .. 9 /\ 0 \in DOMAIN rfps
      BY ProposalTable, OtherTables DEF DemoInit
    <3>2. Plausible(createDemoProposals[id])
      BY <3>1, SeedsPlausible
    <3> QED
      BY <3>1, <3>2 DEF Plausible, DemoInit
  <2>2. \A g \in DOMAIN grants : grants[g].donor \in DOMAIN donors
    BY IncomeTable DEF DemoInit
  <2> QED
    BY <2>1, <2>2 DEF ProposalLinks, GrantLinks, VoteLinks, QueueLinks, DemoInit
<1>5. /\ IsMap(vendors, Sellers, DemoVendor)
      /\ IsMap(donors, Givers, DemoDonor)
  BY SeedVendors, SeedDonors DEF DemoInit
<1>6. DOMAIN kycRecords \subseteq {CITIZEN} /\ DOMAIN stakedBalances \subseteq Account
  BY DEF DemoInit, EmptyMap
<1> QED
  BY <1>1, <1>2, <1>3, <1>4, <1>5, <1>6 DEF Typed

-----------------------------------------------------------------------------
\* Every block a new entry is dated by is a number.

LEMMA FewAccounts == IsFiniteSet(Sellers) /\ IsFiniteSet(Givers)
<1>1. IsFiniteSet(1 .. 7) /\ IsFiniteSet(1 .. 3)
  <2>1. 1 .. 7 \in SUBSET (0 .. 9) /\ 1 .. 3 \in SUBSET (0 .. 9)
    OBVIOUS
  <2> QED
    BY <2>1, FewIds, FS_Subset
<1>2. IsFiniteSet(DOMAIN createDemoVendors)
  <2>1. PICK f \in [1 .. 7 -> DOMAIN createDemoVendors] :
             \A i \in 1 .. 7 : f[i] = VendorSeeds[i].key
    <3>1. \A i \in 1 .. 7 : VendorSeeds[i].key \in DOMAIN createDemoVendors
      BY VendorTable DEF createDemoVendors
    <3>2. [i \in 1 .. 7 |-> VendorSeeds[i].key] \in [1 .. 7 -> DOMAIN createDemoVendors]
      BY <3>1
    <3> QED
      BY <3>2
  <2>2. f \in Surjection(1 .. 7, DOMAIN createDemoVendors)
    BY <2>1, VendorTable DEF Surjection, createDemoVendors
  <2> QED
    BY <1>1, <2>2, FS_Surjection
<1>3. IsFiniteSet(DOMAIN createDemoDonors)
  <2>0. DOMAIN DonorSeeds = 1 .. 3
    BY DEF DonorSeeds
  <2>1. PICK f \in [1 .. 3 -> DOMAIN createDemoDonors] :
             \A i \in 1 .. 3 : f[i] = DonorSeeds[i].key
    <3>1. \A i \in 1 .. 3 : DonorSeeds[i].key \in DOMAIN createDemoDonors
      BY <2>0 DEF createDemoDonors
    <3>2. [i \in 1 .. 3 |-> DonorSeeds[i].key] \in [1 .. 3 -> DOMAIN createDemoDonors]
      BY <3>1
    <3> QED
      BY <3>2
  <2>2. f \in Surjection(1 .. 3, DOMAIN createDemoDonors)
    BY <2>0, <2>1 DEF Surjection, createDemoDonors
  <2> QED
    BY <1>1, <2>2, FS_Surjection
<1> QED
  BY <1>2, <1>3, FS_AddElement DEF Sellers, Givers

LEMMA Entries ==
    ASSUME Typed
    PROVE  /\ proposals \in [DOMAIN proposals -> DemoProposal]
           /\ treasuryContributions \in [DOMAIN treasuryContributions -> DemoContribution]
           /\ vendorUpdates \in [DOMAIN vendorUpdates -> DemoUpdate]
           /\ grants \in [DOMAIN grants -> DemoGrant]
           /\ rfps \in [DOMAIN rfps -> DemoRfp]
           /\ vendors \in [DOMAIN vendors -> DemoVendor] /\ DOMAIN vendors \subseteq Sellers
           /\ donors \in [DOMAIN donors -> DemoDonor] /\ DOMAIN donors \subseteq Givers
           /\ spendingReceipts \in [DOMAIN spendingReceipts -> DemoReceipt]
           /\ DOMAIN spendingReceipts \subseteq Nat \X Nat
BY ListIds DEF Typed, Lists, IsMap, ReceiptMap

LEMMA Finite ==
    ASSUME Typed
    PROVE  /\ IsFiniteSet(DOMAIN proposals) /\ IsFiniteSet(DOMAIN treasuryContributions)
           /\ IsFiniteSet(DOMAIN vendorUpdates) /\ IsFiniteSet(DOMAIN grants)
           /\ IsFiniteSet(DOMAIN rfps) /\ IsFiniteSet(DOMAIN vendors)
           /\ IsFiniteSet(DOMAIN donors) /\ IsFiniteSet(DOMAIN spendingReceipts)
<1>1. IsFiniteSet(DOMAIN vendors) /\ IsFiniteSet(DOMAIN donors)
  BY Entries, FewAccounts, FS_Subset
<1> QED
  BY <1>1, ListIds DEF Typed, Lists, ReceiptMap

LEMMA LatestIsBlock ==
    ASSUME Typed
    PROVE  /\ Latest(vendors, LAMBDA v : v.registeredAt) \in Nat
           /\ Latest(proposals, LAMBDA p : p.votingEnd) \in Nat
           /\ Latest(treasuryContributions, LAMBDA c : c.block) \in Nat
           /\ Latest(vendorUpdates, LAMBDA u : u.postedAt) \in Nat
           /\ Latest(donors, LAMBDA d : d.registeredAt) \in Nat
           /\ Latest(grants, LAMBDA g : g.submittedAt) \in Nat
           /\ Latest(rfps, LAMBDA r : r.createdAt) \in Nat
           /\ Latest(spendingReceipts, LAMBDA r : r.postedAt) \in Nat
<1>1. Latest(vendors, LAMBDA v : v.registeredAt) \in Nat
  <2>1. \A k \in DOMAIN vendors : vendors[k].registeredAt \in Nat
    BY Entries DEF DemoVendor
  <2>2. PICK f \in [DOMAIN vendors -> Nat] :
             f = [k \in DOMAIN vendors |-> vendors[k].registeredAt]
    BY <2>1
  <2>3. {vendors[k].registeredAt : k \in DOMAIN vendors} = {f[k] : k \in DOMAIN vendors}
    BY <2>2
  <2> QED
    BY <2>3, Finite, LatestBlock DEF Latest
<1>2. Latest(proposals, LAMBDA p : p.votingEnd) \in Nat
  <2>1. \A k \in DOMAIN proposals : proposals[k].votingEnd \in Nat
    BY Entries DEF DemoProposal
  <2>2. PICK f \in [DOMAIN proposals -> Nat] :
             f = [k \in DOMAIN proposals |-> proposals[k].votingEnd]
    BY <2>1
  <2>3. {proposals[k].votingEnd : k \in DOMAIN proposals} = {f[k] : k \in DOMAIN proposals}
    BY <2>2
  <2> QED
    BY <2>3, Finite, LatestBlock DEF Latest
<1>3. Latest(treasuryContributions, LAMBDA c : c.block) \in Nat
  <2>1. \A k \in DOMAIN treasuryContributions : treasuryContributions[k].block \in Nat
    BY Entries DEF DemoContribution
  <2>2. PICK f \in [DOMAIN treasuryContributions -> Nat] :
             f = [k \in DOMAIN treasuryContributions |-> treasuryContributions[k].block]
    BY <2>1
  <2>3. {treasuryContributions[k].block : k \in DOMAIN treasuryContributions} = {f[k] : k \in DOMAIN treasuryContributions}
    BY <2>2
  <2> QED
    BY <2>3, Finite, LatestBlock DEF Latest
<1>4. Latest(vendorUpdates, LAMBDA u : u.postedAt) \in Nat
  <2>1. \A k \in DOMAIN vendorUpdates : vendorUpdates[k].postedAt \in Nat
    BY Entries DEF DemoUpdate
  <2>2. PICK f \in [DOMAIN vendorUpdates -> Nat] :
             f = [k \in DOMAIN vendorUpdates |-> vendorUpdates[k].postedAt]
    BY <2>1
  <2>3. {vendorUpdates[k].postedAt : k \in DOMAIN vendorUpdates} = {f[k] : k \in DOMAIN vendorUpdates}
    BY <2>2
  <2> QED
    BY <2>3, Finite, LatestBlock DEF Latest
<1>5. Latest(donors, LAMBDA d : d.registeredAt) \in Nat
  <2>1. \A k \in DOMAIN donors : donors[k].registeredAt \in Nat
    BY Entries DEF DemoDonor
  <2>2. PICK f \in [DOMAIN donors -> Nat] :
             f = [k \in DOMAIN donors |-> donors[k].registeredAt]
    BY <2>1
  <2>3. {donors[k].registeredAt : k \in DOMAIN donors} = {f[k] : k \in DOMAIN donors}
    BY <2>2
  <2> QED
    BY <2>3, Finite, LatestBlock DEF Latest
<1>6. Latest(grants, LAMBDA g : g.submittedAt) \in Nat
  <2>1. \A k \in DOMAIN grants : grants[k].submittedAt \in Nat
    BY Entries DEF DemoGrant
  <2>2. PICK f \in [DOMAIN grants -> Nat] :
             f = [k \in DOMAIN grants |-> grants[k].submittedAt]
    BY <2>1
  <2>3. {grants[k].submittedAt : k \in DOMAIN grants} = {f[k] : k \in DOMAIN grants}
    BY <2>2
  <2> QED
    BY <2>3, Finite, LatestBlock DEF Latest
<1>7. Latest(rfps, LAMBDA r : r.createdAt) \in Nat
  <2>1. \A k \in DOMAIN rfps : rfps[k].createdAt \in Nat
    BY Entries DEF DemoRfp
  <2>2. PICK f \in [DOMAIN rfps -> Nat] :
             f = [k \in DOMAIN rfps |-> rfps[k].createdAt]
    BY <2>1
  <2>3. {rfps[k].createdAt : k \in DOMAIN rfps} = {f[k] : k \in DOMAIN rfps}
    BY <2>2
  <2> QED
    BY <2>3, Finite, LatestBlock DEF Latest
<1>8. Latest(spendingReceipts, LAMBDA r : r.postedAt) \in Nat
  <2>1. \A k \in DOMAIN spendingReceipts : spendingReceipts[k].postedAt \in Nat
    BY Entries DEF DemoReceipt
  <2>2. PICK f \in [DOMAIN spendingReceipts -> Nat] :
             f = [k \in DOMAIN spendingReceipts |-> spendingReceipts[k].postedAt]
    BY <2>1
  <2>3. {spendingReceipts[k].postedAt : k \in DOMAIN spendingReceipts} = {f[k] : k \in DOMAIN spendingReceipts}
    BY <2>2
  <2> QED
    BY <2>3, Finite, LatestBlock DEF Latest
<1> QED
  BY <1>1, <1>2, <1>3, <1>4, <1>5, <1>6, <1>7, <1>8

-----------------------------------------------------------------------------
\* What the handlers do to the proposals.

SameTerms(p, q) == q.vendor = p.vendor /\ q.amount = p.amount /\ q.rfpId = p.rfpId
SameVotes(p, q) == q.ayes = p.ayes /\ q.nays = p.nays

\* The proposal id becomes q.
Becomes(id, q) ==
    /\ id \in DOMAIN proposals /\ q \in DemoProposal /\ SameTerms(proposals[id], q)
    /\ proposals' = [proposals EXCEPT ![id] = q]

\* A status, or a status and a deadline, or a tally, written into a proposal.
LEMMA WithStatus ==
    ASSUME NEW p \in DemoProposal, NEW s \in DemoStatus, NEW q, q = [p EXCEPT !.status = s]
    PROVE  q \in DemoProposal /\ SameTerms(p, q) /\ SameVotes(p, q) /\ q.status = s
BY DEF DemoProposal, SameTerms, SameVotes

\* The ways a proposal changes, and with what it was before.
Vetted(id, q) ==
    /\ Becomes(id, q) /\ SameVotes(proposals[id], q)
    /\ proposals[id].status = "PendingReview" /\ q.status \in {"Proposed", "Vetoed"}

Counted(id, q) ==
    /\ Becomes(id, q)
    /\ proposals[id].status = "Proposed" /\ q.status = "Proposed"
    /\ q.ayes + q.nays = proposals[id].ayes + proposals[id].nays + 1
    /\ id \notin votedProposalIds /\ votedProposalIds' = votedProposalIds \cup {id}

Closed(id, q) ==
    /\ Becomes(id, q) /\ SameVotes(proposals[id], q)
    /\ proposals[id].status = "Proposed"
    /\ q.status = IF Passed(proposals[id]) THEN "Approved" ELSE "Rejected"

MarkedFunded(id, q) ==
    /\ Becomes(id, q) /\ SameVotes(proposals[id], q)
    /\ proposals[id].status = "Approved" /\ q.status = "Funded"

LEMMA VetVets ==
    ASSUME Typed, NEW account, NEW id, NEW approve \in BOOLEAN,
           VetProposal(account, id, approve)
    PROVE  \E q : Vetted(id, q)
<1>1. PICK p \in DemoProposal : p = proposals[id]
  BY Entries DEF VetProposal, Shown
<1>2. /\ id \in DOMAIN proposals /\ p.status = "PendingReview"
      /\ p.createdAt + DEMO_VOTING_BLOCKS \in Nat
  BY <1>1 DEF VetProposal, Shown, DemoProposal, DEMO_VOTING_BLOCKS
<1>3. CASE approve
  <2>1. PICK q : q = [p EXCEPT !.status = "Proposed", !.votingEnd = p.createdAt + DEMO_VOTING_BLOCKS]
    OBVIOUS
  <2>2. q \in DemoProposal /\ SameTerms(p, q) /\ SameVotes(p, q) /\ q.status = "Proposed"
    BY <1>2, <2>1 DEF DemoProposal, SameTerms, SameVotes, DemoStatus
  <2>3. proposals' = [proposals EXCEPT ![id] = q]
    BY <1>1, <1>3, <2>1 DEF VetProposal
  <2> QED
    BY <1>1, <1>2, <2>2, <2>3 DEF Vetted, Becomes
<1>4. CASE ~approve
  <2>1. PICK q : q = [p EXCEPT !.status = "Vetoed"]
    OBVIOUS
  <2>2. q \in DemoProposal /\ SameTerms(p, q) /\ SameVotes(p, q) /\ q.status = "Vetoed"
    BY <2>1, WithStatus DEF DemoStatus
  <2>3. proposals' = [proposals EXCEPT ![id] = q]
    BY <1>1, <1>4, <2>1 DEF VetProposal
  <2> QED
    BY <1>1, <1>2, <2>2, <2>3 DEF Vetted, Becomes
<1> QED
  BY <1>3, <1>4

LEMMA VoteCounts ==
    ASSUME Typed, NEW id, NEW approve \in BOOLEAN, Vote(id, approve)
    PROVE  \E q : Counted(id, q)
<1>1. PICK p \in DemoProposal : p = proposals[id]
  BY Entries DEF Vote, Shown
<1>2. /\ id \in DOMAIN proposals /\ p.status = "Proposed" /\ p.ayes \in Nat /\ p.nays \in Nat
      /\ id \notin votedProposalIds /\ votedProposalIds' = votedProposalIds \cup {id}
  BY <1>1 DEF Vote, Shown, DemoProposal
<1>3. CASE approve
  <2>1. PICK q : q = [p EXCEPT !.ayes = p.ayes + 1]
    OBVIOUS
  <2>2. q \in DemoProposal /\ SameTerms(p, q) /\ q.status = p.status
        /\ q.ayes = p.ayes + 1 /\ q.nays = p.nays
    BY <1>2, <2>1 DEF DemoProposal, SameTerms
  <2>3. proposals' = [proposals EXCEPT ![id] = q]
    BY <1>1, <1>2, <1>3, <2>1 DEF Vote
  <2>4. q.ayes + q.nays = p.ayes + p.nays + 1
    BY <1>2, <2>2
  <2> QED
    BY <1>1, <1>2, <2>2, <2>3, <2>4 DEF Counted, Becomes
<1>4. CASE ~approve
  <2>1. PICK q : q = [p EXCEPT !.nays = p.nays + 1]
    OBVIOUS
  <2>2. q \in DemoProposal /\ SameTerms(p, q) /\ q.status = p.status
        /\ q.ayes = p.ayes /\ q.nays = p.nays + 1
    BY <1>2, <2>1 DEF DemoProposal, SameTerms
  <2>3. proposals' = [proposals EXCEPT ![id] = q]
    BY <1>1, <1>2, <1>4, <2>1 DEF Vote
  <2>4. q.ayes + q.nays = p.ayes + p.nays + 1
    BY <1>2, <2>2
  <2> QED
    BY <1>1, <1>2, <2>2, <2>3, <2>4 DEF Counted, Becomes
<1> QED
  BY <1>3, <1>4

LEMMA CloseCloses ==
    ASSUME Typed, NEW id, NEW eager, CloseProposal(id, eager)
    PROVE  \E q : Closed(id, q)
<1>1. PICK p \in DemoProposal : p = proposals[id]
  BY Entries DEF CloseProposal, Shown
<1>2. PICK s \in DemoStatus : s = IF Passed(p) THEN "Approved" ELSE "Rejected"
  BY DEF DemoStatus
<1>3. PICK q : q = [p EXCEPT !.status = s]
  OBVIOUS
<1>4. proposals' = [proposals EXCEPT ![id] = q] /\ id \in DOMAIN proposals /\ p.status = "Proposed"
  BY <1>1, <1>2, <1>3 DEF CloseProposal, Shown
<1>5. q \in DemoProposal /\ SameTerms(p, q) /\ SameVotes(p, q) /\ q.status = s
  BY <1>3, WithStatus
<1> QED
  BY <1>1, <1>2, <1>4, <1>5 DEF Closed, Becomes

\* A payout: the pot pays; the marks are made if React ran the updaters in
\* time; an amount over the pot's balance changes nothing.
PotPays(id) ==
    LET x == proposals[id].amount IN
    /\ x <= treasury.potBalance
    /\ treasury' \in [potBalance : Nat, totalDisbursed : Nat, totalReceived : Nat]
    /\ treasury'.potBalance = treasury.potBalance - x
    /\ treasury'.totalDisbursed = treasury.totalDisbursed + x
    /\ treasury'.totalReceived = treasury.totalReceived

Credited(v, x) ==
    /\ v \in DOMAIN vendors /\ DOMAIN vendors' = DOMAIN vendors
    /\ vendors' \in [DOMAIN vendors -> DemoVendor]
    /\ vendors'[v].totalReceived = vendors[v].totalReceived + x
    /\ vendors'[v].proposalsFunded = vendors[v].proposalsFunded + 1
    /\ \A a \in DOMAIN vendors : a # v => vendors'[a] = vendors[a]

Marked(id) ==
    /\ Credited(proposals[id].vendor, proposals[id].amount)
    /\ \E q : MarkedFunded(id, q)

LEMMA VendorCredited ==
    ASSUME Typed, NEW v \in DOMAIN vendors, NEW x \in Nat,
           vendors' = [vendors EXCEPT ![v].totalReceived = @ + x, ![v].proposalsFunded = @ + 1]
    PROVE  Credited(v, x)
<1>1. PICK r \in DemoVendor : r = vendors[v]
  BY Entries
<1>2. PICK s : s = [r EXCEPT !.totalReceived = r.totalReceived + x,
                             !.proposalsFunded = r.proposalsFunded + 1]
  OBVIOUS
<1>3. /\ s \in DemoVendor /\ s.totalReceived = r.totalReceived + x
      /\ s.proposalsFunded = r.proposalsFunded + 1
  <2>1. r.totalReceived + x \in Nat /\ r.proposalsFunded + 1 \in Nat
    BY <1>1 DEF DemoVendor
  <2> QED
    BY <1>1, <1>2, <2>1 DEF DemoVendor
<1>4. vendors' = [vendors EXCEPT ![v] = s]
  BY <1>1, <1>2
<1>5. vendors \in [DOMAIN vendors -> DemoVendor]
  BY Entries
<1> QED
  BY <1>1, <1>3, <1>4, <1>5 DEF Credited

LEMMA PaidPays ==
    ASSUME Typed, NEW id \in DOMAIN proposals, proposals[id].status = "Approved",
           NEW eager \in BOOLEAN, Paid(id, eager)
    PROVE  \/ UNCHANGED <<vendors, proposals, treasury>>
           \/ PotPays(id) /\ UNCHANGED <<vendors, proposals>>
           \/ PotPays(id) /\ Marked(id)
<1>1. PICK p \in DemoProposal : p = proposals[id]
  BY Entries
<1>2. PICK x \in Nat, v \in DOMAIN vendors : x = p.amount /\ v = p.vendor
  BY <1>1 DEF DemoProposal, Typed, ProposalLinks
<1>3. CASE x > treasury.potBalance
  BY <1>1, <1>2, <1>3 DEF Paid
<1>4. CASE ~(x > treasury.potBalance)
  <2>1. /\ treasury' = [treasury EXCEPT !.potBalance = @ - x, !.totalDisbursed = @ + x]
        /\ Settled(id, eager)
    BY <1>1, <1>2, <1>4 DEF Paid
  <2>2. PotPays(id)
    <3>1. /\ x <= treasury.potBalance
          /\ treasury' \in [potBalance : Nat, totalDisbursed : Nat, totalReceived : Nat]
          /\ treasury'.potBalance = treasury.potBalance - x
          /\ treasury'.totalDisbursed = treasury.totalDisbursed + x
          /\ treasury'.totalReceived = treasury.totalReceived
      <4>1. PICK t \in [potBalance : Nat, totalDisbursed : Nat, totalReceived : Nat] : t = treasury
        BY DEF Typed
      <4>2. /\ x <= t.potBalance /\ t.potBalance - x \in Nat /\ t.totalDisbursed + x \in Nat
        BY <1>4, <4>1
      <4> QED
        BY <2>1, <4>1, <4>2
    <3> QED
      BY <1>1, <1>2, <3>1 DEF PotPays
  <2>3. CASE eager
    <3>1. PICK q : q = [p EXCEPT !.status = "Funded"]
      OBVIOUS
    <3>2. q \in DemoProposal /\ SameTerms(p, q) /\ SameVotes(p, q) /\ q.status = "Funded"
      BY <3>1, WithStatus DEF DemoStatus
    <3>3. proposals' = [proposals EXCEPT ![id] = q]
      BY <1>1, <2>1, <2>3, <3>1 DEF Settled
    <3>4. MarkedFunded(id, q)
      BY <1>1, <3>2, <3>3 DEF MarkedFunded, Becomes
    <3>5. vendors' = [vendors EXCEPT ![v].totalReceived = @ + x, ![v].proposalsFunded = @ + 1]
      BY <1>1, <1>2, <2>1, <2>3 DEF Settled
    <3>6. Credited(v, x)
      BY <3>5, VendorCredited
    <3> QED
      BY <1>1, <1>2, <2>2, <3>4, <3>6 DEF Marked
  <2>4. CASE ~eager
    BY <2>1, <2>2, <2>4 DEF Settled
  <2> QED
    BY <2>3, <2>4
<1> QED
  BY <1>3, <1>4

-----------------------------------------------------------------------------
\* Every handler keeps the types.

Treasury == [potBalance : Nat, totalDisbursed : Nat, totalReceived : Nat]

\* The constants that forms take amounts from, and the visitors.
LEMMA Inputs ==
    /\ \A x \in DemoAmounts \cup DemoReceipts : x \in Nat /\ x > 0
    /\ CITIZEN \in Account /\ CITIZEN \in Sellers /\ CITIZEN \in Givers
BY DemoAssumption DEF Sellers, Givers

LEMMA BecomesTyped ==
    ASSUME Typed, NEW id, NEW q, Becomes(id, q)
    PROVE  /\ IsList(proposals', DemoProposal) /\ DOMAIN proposals' = DOMAIN proposals
           /\ proposals'[id] = q /\ \A x \in DOMAIN proposals : x # id => proposals'[x] = proposals[x]
           /\ DOMAIN vendors \subseteq DOMAIN vendors' /\ UNCHANGED rfps => ProposalLinks'
<1>1. PICK p, v, r : p = proposals[id] /\ v = p.vendor /\ r = p.rfpId
  OBVIOUS
<1>2. id \in DOMAIN proposals /\ q \in DemoProposal /\ proposals' = [proposals EXCEPT ![id] = q]
      /\ q.vendor = v /\ q.rfpId = r
  BY <1>1 DEF Becomes, SameTerms
<1>3. IsList(proposals', DemoProposal)
  BY <1>2, ListChanges DEF Typed, Lists
<1>4. DOMAIN proposals' = DOMAIN proposals /\ proposals'[id] = q
      /\ \A x \in DOMAIN proposals : x # id => proposals'[x] = proposals[x]
  BY <1>2
<1>5. ASSUME DOMAIN vendors \subseteq DOMAIN vendors', UNCHANGED rfps PROVE ProposalLinks'
  <2>1. ASSUME NEW x \in DOMAIN proposals
        PROVE  /\ proposals'[x].vendor \in DOMAIN vendors'
               /\ proposals'[x].rfpId \in DOMAIN rfps' \cup {None}
    <3>1. /\ proposals[x].vendor \in DOMAIN vendors
          /\ proposals[x].rfpId \in DOMAIN rfps \cup {None}
      BY DEF Typed, ProposalLinks
    <3>2. CASE x = id
      BY <1>1, <1>2, <1>4, <1>5, <3>1, <3>2
    <3>3. CASE x # id
      BY <1>4, <1>5, <3>1, <3>3
    <3> QED
      BY <3>2, <3>3
  <2> QED
    BY <1>4, <2>1 DEF ProposalLinks
<1> QED
  BY <1>3, <1>4, <1>5

\* A vendor registers, a proposal is submitted.
LEMMA RegisterVendorTyped ==
    ASSUME Typed, NEW category \in Categories, RegisterVendor(category)
    PROVE  Typed'
<1>1. PICK r : r = [category |-> category, totalReceived |-> 0, proposalsFunded |-> 0,
                    registeredAt |-> Latest(vendors, LAMBDA v : v.registeredAt) + 100]
  OBVIOUS
<1>2. r \in DemoVendor
  BY <1>1, LatestIsBlock DEF DemoVendor
<1>3. vendors' = Put(vendors, CITIZEN, r)
  BY <1>1 DEF RegisterVendor
<1>4. IsMap(vendors', Sellers, DemoVendor) /\ DOMAIN vendors \subseteq DOMAIN vendors'
  <2>1. IsMap(vendors, Sellers, DemoVendor) /\ CITIZEN \in Sellers
    BY Inputs DEF Typed
  <2>2. IsMap(vendors', Sellers, DemoVendor) /\ Inserted(vendors, vendors', CITIZEN, r)
    BY <1>2, <1>3, <2>1, MapGrows
  <2> QED
    BY <2>2 DEF Inserted
<1>5. /\ UNCHANGED <<proposals, treasury, treasuryContributions, votedProposalIds, vendorUpdates>>
      /\ UNCHANGED <<donors, grants, stakedBalances, rfps, kycRecords, spendingReceipts, queued>>
  BY DEF RegisterVendor, poolVars, votingVars, profileVars
<1>6. ProposalLinks'
  BY <1>4, <1>5 DEF Typed, ProposalLinks
<1> QED
  BY <1>4, <1>5, <1>6 DEF Typed, Lists, ReceiptMap, GrantLinks, VoteLinks, QueueLinks

\* The proposal that is submitted.
Submitted(id, q) ==
    /\ q \in DemoProposal /\ Grown(proposals, proposals', id, q)
    /\ q.vendor \in DOMAIN vendors /\ q.rfpId \in DOMAIN rfps \cup {None}
    /\ q.status = "PendingReview" /\ q.ayes = 0 /\ q.nays = 0
    /\ IsList(proposals', DemoProposal)

LEMMA SubmitSubmits ==
    ASSUME Typed, NEW vendor \in DOMAIN vendors, NEW amount \in DemoAmounts,
           NEW ward \in DemoWards, NEW rfp \in (OpenedRfps \cap DOMAIN rfps) \cup {None},
           SubmitProposal(vendor, amount, ward, rfp)
    PROVE  \E id, q : Submitted(id, q)
<1>1. PICK b \in Nat : b = Latest(proposals, LAMBDA p : p.votingEnd)
  BY LatestIsBlock
<1>2. PICK q : q = [proposer |-> CITIZEN, vendor |-> vendor, amount |-> amount,
                    status |-> "PendingReview", ayes |-> 0, nays |-> 0,
                    createdAt |-> b, votingEnd |-> b, ward |-> ward, rfpId |-> rfp]
  OBVIOUS
<1>3. proposals' = Put(proposals, NewId(proposals), q)
  BY <1>1, <1>2 DEF SubmitProposal
<1>4. vendor \in Sellers /\ amount \in Nat /\ rfp \in Nat \cup {None} /\ IsList(rfps, DemoRfp)
  BY Entries, Inputs, ListIds DEF Typed, Lists
<1>5. q \in DemoProposal
  BY <1>2, <1>4 DEF DemoProposal, DemoStatus
<1>6. PICK id : id = NewId(proposals)
  OBVIOUS
<1>7. Grown(proposals, proposals', id, q) /\ IsList(proposals', DemoProposal)
  BY <1>3, <1>5, <1>6, ListGrows DEF Typed, Lists
<1>8. q.vendor \in DOMAIN vendors /\ q.rfpId \in DOMAIN rfps \cup {None}
      /\ q.status = "PendingReview" /\ q.ayes = 0 /\ q.nays = 0
  BY <1>2
<1> QED
  BY <1>5, <1>7, <1>8 DEF Submitted

LEMMA SubmitTyped ==
    ASSUME Typed, NEW id, NEW q, Submitted(id, q),
           UNCHANGED <<vendors, poolVars, votedProposalIds, profileVars, queued>>
    PROVE  Typed'
<1>1. /\ UNCHANGED <<vendors, treasury, treasuryContributions, votedProposalIds, vendorUpdates>>
      /\ UNCHANGED <<donors, grants, stakedBalances, rfps, kycRecords, spendingReceipts, queued>>
  BY DEF poolVars, profileVars
<1>2. DOMAIN proposals' = DOMAIN proposals \cup {id} /\ proposals'[id] = q
      /\ \A k \in DOMAIN proposals : proposals'[k] = proposals[k]
  BY DEF Submitted, Grown
<1>3. ProposalLinks'
  BY <1>1, <1>2 DEF Typed, ProposalLinks, Submitted
<1>4. VoteLinks' /\ QueueLinks'
  BY <1>1, <1>2 DEF Typed, VoteLinks, QueueLinks
<1> QED
  BY <1>1, <1>3, <1>4 DEF Typed, Lists, ReceiptMap, GrantLinks, Submitted

\* A proposal changes on its page.
LEMMA VettedTyped ==
    ASSUME Typed, NEW id, NEW q, Vetted(id, q),
           UNCHANGED <<vendors, poolVars, votedProposalIds, profileVars, queued>>
    PROVE  Typed'
<1>1. /\ UNCHANGED <<vendors, treasury, treasuryContributions, votedProposalIds, vendorUpdates>>
      /\ UNCHANGED <<donors, grants, stakedBalances, rfps, kycRecords, spendingReceipts, queued>>
  BY DEF poolVars, profileVars
<1>2. /\ IsList(proposals', DemoProposal) /\ DOMAIN proposals' = DOMAIN proposals /\ ProposalLinks'
      /\ \A x \in DOMAIN proposals : x # id => proposals'[x] = proposals[x]
  BY <1>1, BecomesTyped DEF Vetted
<1>3. VoteLinks' /\ QueueLinks'
  <2>1. proposals[id].status = "PendingReview"
    BY DEF Vetted
  <2> QED
    BY <1>1, <1>2, <2>1 DEF Typed, VoteLinks, QueueLinks
<1> QED
  BY <1>1, <1>2, <1>3 DEF Typed, Lists, ReceiptMap, GrantLinks

LEMMA CountedTyped ==
    ASSUME Typed, NEW id, NEW q, Counted(id, q),
           UNCHANGED <<vendors, poolVars, profileVars, queued>>
    PROVE  Typed'
<1>1. /\ UNCHANGED <<vendors, treasury, treasuryContributions, vendorUpdates>>
      /\ UNCHANGED <<donors, grants, stakedBalances, rfps, kycRecords, spendingReceipts, queued>>
  BY DEF poolVars, profileVars
<1>2. /\ IsList(proposals', DemoProposal) /\ DOMAIN proposals' = DOMAIN proposals /\ ProposalLinks'
      /\ \A x \in DOMAIN proposals : x # id => proposals'[x] = proposals[x]
  BY <1>1, BecomesTyped DEF Counted
<1>3. VoteLinks' /\ QueueLinks'
  <2>1. proposals[id].status = "Proposed" /\ id \in DOMAIN proposals
        /\ votedProposalIds' = votedProposalIds \cup {id}
    BY DEF Counted, Becomes
  <2> QED
    BY <1>1, <1>2, <2>1 DEF Typed, VoteLinks, QueueLinks
<1> QED
  BY <1>1, <1>2, <1>3 DEF Typed, Lists, ReceiptMap, GrantLinks

LEMMA ClosedTyped ==
    ASSUME Typed, NEW id, NEW q, Closed(id, q), NEW eager \in BOOLEAN,
           queued' = IF eager /\ Passed(proposals[id]) THEN id ELSE None,
           UNCHANGED <<vendors, poolVars, votedProposalIds, profileVars>>
    PROVE  Typed'
<1>1. /\ UNCHANGED <<vendors, treasury, treasuryContributions, vendorUpdates, votedProposalIds>>
      /\ UNCHANGED <<donors, grants, stakedBalances, rfps, kycRecords, spendingReceipts>>
  BY DEF poolVars, profileVars
<1>2. /\ IsList(proposals', DemoProposal) /\ DOMAIN proposals' = DOMAIN proposals /\ ProposalLinks'
      /\ proposals'[id] = q
  BY <1>1, BecomesTyped DEF Closed
<1>3. VoteLinks' /\ QueueLinks'
  <2>1. id \in DOMAIN proposals /\ (Passed(proposals[id]) => q.status = "Approved")
    BY DEF Closed, Becomes
  <2>2. queued' # None => queued' = id /\ q.status = "Approved"
    BY <2>1
  <2> QED
    BY <1>1, <1>2, <2>1, <2>2 DEF Typed, VoteLinks, QueueLinks
<1> QED
  BY <1>1, <1>2, <1>3 DEF Typed, Lists, ReceiptMap, GrantLinks

\* A payout, of the page or of the microtask.
PaidOut(id) ==
    /\ \/ UNCHANGED <<vendors, proposals, treasury>>
       \/ PotPays(id) /\ UNCHANGED <<vendors, proposals>>
       \/ PotPays(id) /\ Marked(id)
    /\ queued' = None
    /\ UNCHANGED <<treasuryContributions, donors, grants, votedProposalIds, profileVars>>

LEMMA PaidOutTyped == ASSUME Typed, NEW id, PaidOut(id) PROVE Typed'
<1>1. /\ UNCHANGED <<treasuryContributions, vendorUpdates, votedProposalIds>>
      /\ UNCHANGED <<donors, grants, stakedBalances, rfps, kycRecords, spendingReceipts>>
      /\ queued' = None
  BY DEF PaidOut, profileVars
<1>2. treasury' \in Treasury
  BY DEF PaidOut, PotPays, Treasury, Typed
<1>3. /\ IsList(proposals', DemoProposal) /\ DOMAIN proposals' = DOMAIN proposals /\ ProposalLinks'
      /\ IsMap(vendors', Sellers, DemoVendor)
  <2>1. CASE UNCHANGED <<vendors, proposals>>
    BY <1>1, <2>1 DEF Typed, Lists, ProposalLinks
  <2>2. CASE Marked(id)
    <3>1. PICK q : MarkedFunded(id, q)
      BY <2>2 DEF Marked
    <3>2. DOMAIN vendors' = DOMAIN vendors /\ vendors' \in [DOMAIN vendors -> DemoVendor]
      BY <2>2 DEF Marked, Credited
    <3>3. IsList(proposals', DemoProposal) /\ DOMAIN proposals' = DOMAIN proposals /\ ProposalLinks'
      BY <1>1, <3>1, <3>2, BecomesTyped DEF MarkedFunded
    <3>4. IsMap(vendors', Sellers, DemoVendor)
      BY <3>2 DEF Typed, IsMap
    <3> QED
      BY <3>3, <3>4
  <2> QED
    BY <2>1, <2>2 DEF PaidOut
<1>4. VoteLinks' /\ QueueLinks'
  BY <1>1, <1>3 DEF Typed, VoteLinks, QueueLinks
<1> QED
  BY <1>1, <1>2, <1>3, <1>4 DEF Typed, Treasury, Lists, ReceiptMap, GrantLinks

LEMMA DisbursePaysOut ==
    ASSUME Typed
    PROVE  /\ \A id \in DOMAIN proposals, eager \in BOOLEAN : Disburse(id, eager) => PaidOut(id)
           /\ \A eager \in BOOLEAN : AttemptDisbursement(eager) =>
                 queued \in DOMAIN proposals /\ PaidOut(queued)
<1>1. ASSUME NEW id \in DOMAIN proposals, NEW eager \in BOOLEAN, Disburse(id, eager)
      PROVE  PaidOut(id)
  <2>1. proposals[id].status = "Approved" /\ Paid(id, eager) /\ queued' = None
        /\ UNCHANGED <<treasuryContributions, donors, grants, votedProposalIds, profileVars>>
    BY <1>1 DEF Disburse, Shown, Idle
  <2> QED
    BY <2>1, PaidPays DEF PaidOut
<1>2. ASSUME NEW eager \in BOOLEAN, AttemptDisbursement(eager)
      PROVE  queued \in DOMAIN proposals /\ PaidOut(queued)
  <2>1. queued \in DOMAIN proposals /\ proposals[queued].status = "Approved"
    BY <1>2 DEF AttemptDisbursement, Idle, Typed, QueueLinks
  <2>2. Paid(queued, eager) /\ queued' = None
        /\ UNCHANGED <<treasuryContributions, donors, grants, votedProposalIds, profileVars>>
    BY <1>2 DEF AttemptDisbursement
  <2> QED
    BY <2>1, <2>2, PaidPays DEF PaidOut
<1> QED
  BY <1>1, <1>2

\* Income.
Received(x) ==
    /\ x \in Nat /\ treasury' \in Treasury
    /\ treasury'.potBalance = treasury.potBalance + x
    /\ treasury'.totalReceived = treasury.totalReceived + x
    /\ treasury'.totalDisbursed = treasury.totalDisbursed

LEMMA CollectedReceived ==
    ASSUME Typed, NEW x \in Nat, Collected(x) PROVE Received(x)
<1>1. PICK t \in Treasury : t = treasury
  BY DEF Typed, Treasury
<1>2. t.potBalance + x \in Nat /\ t.totalReceived + x \in Nat
  BY <1>1 DEF Treasury
<1>3. treasury' = [t EXCEPT !.potBalance = t.potBalance + x, !.totalReceived = t.totalReceived + x]
  BY <1>1 DEF Collected
<1> QED
  BY <1>1, <1>2, <1>3 DEF Received, Treasury

\* The contribution and the grant that are made, and the donor who registers.
Contributed(id, c) ==
    /\ c \in DemoContribution /\ Received(c.amount)
    /\ Grown(treasuryContributions, treasuryContributions', id, c)
    /\ IsList(treasuryContributions', DemoContribution)

LEMMA FundContributes ==
    ASSUME Typed, NEW amount \in DemoAmounts, FundTreasury(amount)
    PROVE  \E id, c : Contributed(id, c)
<1>1. PICK b \in Nat : b = Latest(treasuryContributions, LAMBDA c : c.block)
  BY LatestIsBlock
<1>2. PICK c : c = [amount |-> amount, from |-> CITIZEN, block |-> b + 50]
  OBVIOUS
<1>3. c \in DemoContribution /\ c.amount = amount /\ amount \in Nat
  BY <1>2, Inputs DEF DemoContribution
<1>4. treasuryContributions' = Put(treasuryContributions, NewId(treasuryContributions), c)
      /\ Collected(amount)
  BY <1>1, <1>2 DEF FundTreasury
<1>5. PICK id : id = NewId(treasuryContributions)
  OBVIOUS
<1>6. Grown(treasuryContributions, treasuryContributions', id, c)
      /\ IsList(treasuryContributions', DemoContribution)
  BY <1>3, <1>4, <1>5, ListGrows DEF Typed, Lists
<1>7. Received(c.amount)
  BY <1>3, <1>4, CollectedReceived
<1> QED
  BY <1>3, <1>6, <1>7 DEF Contributed

LEMMA ContributedTyped ==
    ASSUME Typed, NEW id, NEW c, Contributed(id, c),
           UNCHANGED <<vendors, donors, grants, votingVars, profileVars, queued>>
    PROVE  Typed'
<1>1. /\ UNCHANGED <<vendors, proposals, votedProposalIds, vendorUpdates, queued>>
      /\ UNCHANGED <<donors, grants, stakedBalances, rfps, kycRecords, spendingReceipts>>
  BY DEF votingVars, profileVars
<1>2. treasury' \in Treasury /\ IsList(treasuryContributions', DemoContribution)
  BY DEF Contributed, Received
<1> QED
  BY <1>1, <1>2 DEF Typed, Treasury, Lists, ReceiptMap, GrantLinks, ProposalLinks, VoteLinks, QueueLinks

LEMMA RegisterDonorTyped == ASSUME Typed, RegisterDonor PROVE Typed'
<1>1. PICK b \in Nat : b = Latest(donors, LAMBDA d : d.registeredAt)
  BY LatestIsBlock
<1>2. PICK d : d = [totalContributed |-> 0, grantsMade |-> 0, registeredAt |-> b + 100]
  OBVIOUS
<1>3. d \in DemoDonor /\ donors' = Put(donors, CITIZEN, d)
  BY <1>1, <1>2 DEF DemoDonor, RegisterDonor
<1>4. IsMap(donors', Givers, DemoDonor) /\ DOMAIN donors \subseteq DOMAIN donors'
  <2>1. IsMap(donors, Givers, DemoDonor) /\ CITIZEN \in Givers
    BY Inputs DEF Typed
  <2>2. IsMap(donors', Givers, DemoDonor) /\ Inserted(donors, donors', CITIZEN, d)
    BY <1>3, <2>1, MapGrows
  <2> QED
    BY <2>2 DEF Inserted
<1>5. /\ UNCHANGED <<vendors, proposals, treasury, treasuryContributions, votedProposalIds>>
      /\ UNCHANGED <<vendorUpdates, grants, stakedBalances, rfps, kycRecords, spendingReceipts, queued>>
  BY DEF RegisterDonor, votingVars, profileVars
<1>6. GrantLinks'
  BY <1>4, <1>5 DEF Typed, GrantLinks
<1> QED
  BY <1>4, <1>5, <1>6 DEF Typed, Lists, ReceiptMap, ProposalLinks, VoteLinks, QueueLinks

Given(id, g) ==
    /\ g \in DemoGrant /\ Received(g.amount) /\ g.donor \in DOMAIN donors
    /\ Grown(grants, grants', id, g) /\ IsList(grants', DemoGrant)
    /\ DOMAIN donors' = DOMAIN donors /\ donors' \in [DOMAIN donors -> DemoDonor]
    /\ donors'[g.donor].totalContributed = donors[g.donor].totalContributed + g.amount
    /\ donors'[g.donor].grantsMade = donors[g.donor].grantsMade + 1
    /\ \A d \in DOMAIN donors : d # g.donor => donors'[d] = donors[d]

LEMMA SubmitGrantGives ==
    ASSUME Typed, NEW account, NEW amount \in DemoAmounts, SubmitGrant(account, amount)
    PROVE  \E id, g : Given(id, g)
<1>1. PICK b \in Nat : b = Latest(grants, LAMBDA g : g.submittedAt)
  BY LatestIsBlock
<1>2. PICK g : g = [donor |-> account, amount |-> amount, submittedAt |-> b + 50]
  OBVIOUS
<1>3. account \in DOMAIN donors /\ account \in Givers
  BY Entries DEF SubmitGrant
<1>4. g \in DemoGrant /\ g.donor = account /\ g.amount = amount /\ amount \in Nat
  BY <1>2, <1>3, Inputs DEF DemoGrant
<1>5. grants' = Put(grants, NewId(grants), g) /\ Collected(amount)
  BY <1>1, <1>2 DEF SubmitGrant
<1>6. PICK id : id = NewId(grants)
  OBVIOUS
<1>7. Grown(grants, grants', id, g) /\ IsList(grants', DemoGrant)
  BY <1>4, <1>5, <1>6, ListGrows DEF Typed, Lists
<1>8. Received(g.amount)
  BY <1>4, <1>5, CollectedReceived
<1>9. PICK r \in DemoDonor : r = donors[account]
  BY <1>3, Entries
<1>10. PICK s : s = [r EXCEPT !.totalContributed = r.totalContributed + amount,
                              !.grantsMade = r.grantsMade + 1]
  OBVIOUS
<1>11. /\ s \in DemoDonor /\ s.totalContributed = r.totalContributed + amount
       /\ s.grantsMade = r.grantsMade + 1
  <2>1. r.totalContributed + amount \in Nat /\ r.grantsMade + 1 \in Nat
    BY <1>4, <1>9 DEF DemoDonor
  <2> QED
    BY <1>9, <1>10, <2>1 DEF DemoDonor
<1>12. donors' = [donors EXCEPT ![account] = s]
  BY <1>9, <1>10 DEF SubmitGrant
<1>13. donors \in [DOMAIN donors -> DemoDonor]
  BY Entries
<1>14. /\ DOMAIN donors' = DOMAIN donors /\ donors' \in [DOMAIN donors -> DemoDonor]
       /\ donors'[account] = s
       /\ \A d \in DOMAIN donors : d # account => donors'[d] = donors[d]
  BY <1>3, <1>11, <1>12, <1>13
<1> QED
  BY <1>3, <1>4, <1>7, <1>8, <1>9, <1>11, <1>14 DEF Given

LEMMA GivenTyped ==
    ASSUME Typed, NEW id, NEW g, Given(id, g),
           UNCHANGED <<vendors, treasuryContributions, votingVars, profileVars, queued>>
    PROVE  Typed'
<1>1. /\ UNCHANGED <<vendors, proposals, votedProposalIds, vendorUpdates, queued>>
      /\ UNCHANGED <<treasuryContributions, stakedBalances, rfps, kycRecords, spendingReceipts>>
  BY DEF votingVars, profileVars
<1>2. treasury' \in Treasury /\ IsList(grants', DemoGrant)
  BY DEF Given, Received
<1>3. IsMap(donors', Givers, DemoDonor) /\ GrantLinks'
  <2>1. /\ DOMAIN donors' = DOMAIN donors /\ donors' \in [DOMAIN donors -> DemoDonor]
        /\ g.donor \in DOMAIN donors /\ DOMAIN grants' = DOMAIN grants \cup {id}
        /\ grants'[id] = g /\ \A k \in DOMAIN grants : grants'[k] = grants[k]
    BY DEF Given, Grown
  <2> QED
    BY <2>1 DEF Typed, IsMap, GrantLinks
<1> QED
  BY <1>1, <1>2, <1>3 DEF Typed, Treasury, Lists, ReceiptMap, ProposalLinks, VoteLinks, QueueLinks

\* A spending receipt.
Receipted1(k, r) ==
    /\ k \in Nat \X Nat /\ k \notin DOMAIN spendingReceipts
    /\ r \in DemoReceipt /\ r.proposalId = k[1]
    /\ k[1] \in DOMAIN proposals /\ proposals[k[1]].status = "Funded"
    /\ r.vendor = proposals[k[1]].vendor /\ r.amount <= Remaining(k[1])
    /\ spendingReceipts' = Put(spendingReceipts, k, r)

LEMMA PostReceipts ==
    ASSUME Typed, NEW account, NEW id \in DOMAIN proposals, NEW amount \in DemoReceipts,
           PostSpendingReceipt(account, id, amount)
    PROVE  \E k, r : Receipted1(k, r)
<1>1. PICK b \in Nat : b = Latest(spendingReceipts, LAMBDA r : r.postedAt)
  BY LatestIsBlock
<1>2. PICK S : S = {k[2] : k \in ReceiptsOf(id)} \cup {-1}
  OBVIOUS
<1>3. IsFiniteSet(S) /\ S \in SUBSET Int /\ S # {} /\ \A y \in S : y >= -1
  <2>1. PICK D : D = ReceiptsOf(id)
    OBVIOUS
  <2>2. D \subseteq DOMAIN spendingReceipts /\ D \subseteq Nat \X Nat
    BY <2>1, Entries DEF ReceiptsOf
  <2>3. IsFiniteSet(D)
    BY <2>2, Finite, FS_Subset
  <2>4. PICK g, T : T = {k[2] : k \in D} /\ g = [k \in D |-> k[2]]
    OBVIOUS
  <2>5. g \in Surjection(D, T)
    BY <2>4 DEF Surjection
  <2>6. IsFiniteSet(T)
    BY <2>3, <2>5, FS_Surjection
  <2>7. S = T \cup {-1} /\ T \subseteq Nat
    BY <1>2, <2>1, <2>2, <2>4
  <2>8. IsFiniteSet(T \cup {-1})
    BY <2>6, FS_AddElement
  <2> QED
    BY <2>7, <2>8
<1>4. Max(S) \in S /\ \A y \in S : Max(S) >= y
  BY <1>3, HasMax
<1>5. PICK n : n = Max(S) + 1
  OBVIOUS
<1>6. n \in Nat /\ \A y \in S : n # y
  <2>1. PICK m \in S : m = Max(S)
    BY <1>4
  <2>2. m \in Int /\ m >= -1 /\ \A y \in S : y \in Int /\ m >= y
    BY <1>3, <1>4, <2>1
  <2> QED
    BY <1>5, <2>1, <2>2
<1>7. PICK k : k = <<id, n>>
  OBVIOUS
<1>8. k \in Nat \X Nat /\ k[1] = id
  <2>1. id \in Nat
    BY ListIds DEF Typed, Lists
  <2> QED
    BY <1>6, <1>7, <2>1
<1>9. k \notin DOMAIN spendingReceipts
  BY <1>2, <1>6, <1>7 DEF ReceiptsOf
<1>10. PICK r : r = [proposalId |-> id, vendor |-> account, amount |-> amount, postedAt |-> b + 50]
  OBVIOUS
<1>11. proposals[id].status = "Funded" /\ account = proposals[id].vendor /\ amount <= Remaining(id)
  BY DEF PostSpendingReceipt, Shown
<1>12. r \in DemoReceipt /\ r.proposalId = id /\ r.vendor = account /\ r.amount = amount
  <2>1. id \in Nat /\ account \in Sellers /\ amount \in Nat
    BY <1>8, <1>11, Entries, Inputs DEF DemoProposal
  <2> QED
    BY <1>10, <2>1 DEF DemoReceipt
<1>13. spendingReceipts' = Put(spendingReceipts, k, r)
  BY <1>1, <1>2, <1>5, <1>7, <1>10 DEF PostSpendingReceipt
<1> QED
  BY <1>8, <1>9, <1>11, <1>12, <1>13 DEF Receipted1

LEMMA ReceiptedTyped ==
    ASSUME Typed, NEW k, NEW r, Receipted1(k, r),
           UNCHANGED <<vendors, poolVars, votingVars, vendorUpdates, stakedBalances, rfps,
                       kycRecords, queued>>
    PROVE  Typed'
<1>1. /\ UNCHANGED <<vendors, proposals, votedProposalIds, vendorUpdates, queued, treasury>>
      /\ UNCHANGED <<treasuryContributions, donors, grants, stakedBalances, rfps, kycRecords>>
  BY DEF votingVars, poolVars
<1>2. ReceiptMap'
  <2>1. /\ k \in Nat \X Nat /\ r \in DemoReceipt /\ k[1] = r.proposalId
        /\ spendingReceipts' = Put(spendingReceipts, k, r)
    BY DEF Receipted1
  <2>2. IsMap(spendingReceipts, Nat \X Nat, DemoReceipt)
    BY DEF Typed, ReceiptMap
  <2>a. /\ IsMap(spendingReceipts', Nat \X Nat, DemoReceipt)
        /\ Inserted(spendingReceipts, spendingReceipts', k, r)
    BY <2>1, <2>2, MapGrows
  <2>3. /\ IsMap(spendingReceipts', Nat \X Nat, DemoReceipt)
        /\ DOMAIN spendingReceipts' = DOMAIN spendingReceipts \cup {k}
        /\ spendingReceipts'[k] = r
        /\ \A x \in DOMAIN spendingReceipts : x # k => spendingReceipts'[x] = spendingReceipts[x]
    BY <2>a DEF Inserted
  <2>4. IsFiniteSet(DOMAIN spendingReceipts \cup {k})
    BY FS_AddElement DEF Typed, ReceiptMap
  <2>5. \A x \in DOMAIN spendingReceipts' : x[1] = spendingReceipts'[x].proposalId
    BY <2>1, <2>3 DEF Typed, ReceiptMap
  <2> QED
    BY <2>3, <2>4, <2>5 DEF ReceiptMap
<1> QED
  BY <1>1, <1>2 DEF Typed, Lists, GrantLinks, ProposalLinks, VoteLinks, QueueLinks

\* A step that leaves the money, the votes and the receipts alone.
ProfileStep ==
    /\ UNCHANGED <<vendors, poolVars, votingVars, spendingReceipts, queued>>
    /\ IsList(vendorUpdates', DemoUpdate)
    /\ IsList(rfps', DemoRfp) /\ DOMAIN rfps \subseteq DOMAIN rfps'
    /\ DOMAIN kycRecords' \subseteq {CITIZEN} /\ DOMAIN stakedBalances' \subseteq Account

LEMMA ProfileTyped == ASSUME Typed, ProfileStep PROVE Typed'
<1>1. /\ UNCHANGED <<vendors, proposals, votedProposalIds, queued, treasury>>
      /\ UNCHANGED <<treasuryContributions, donors, grants, spendingReceipts>>
  BY DEF votingVars, poolVars, ProfileStep
<1>2. ProposalLinks'
  BY <1>1 DEF Typed, ProposalLinks, ProfileStep
<1> QED
  BY <1>1, <1>2 DEF Typed, Lists, ReceiptMap, GrantLinks, VoteLinks, QueueLinks, ProfileStep

LEMMA StakeIsProfile ==
    ASSUME Typed, NEW account \in Selectable, NEW amount, StakeTokens(account, amount)
    PROVE  ProfileStep
<1>1. UNCHANGED <<vendors, poolVars, votingVars, vendorUpdates, rfps, kycRecords,
                  spendingReceipts, queued>>
  BY DEF StakeTokens
<1>2. DOMAIN stakedBalances' = DOMAIN stakedBalances \cup {account} /\ account \in Account
  BY DemoAssumption DEF StakeTokens, Put, Selectable
<1> QED
  BY <1>1, <1>2 DEF Typed, Lists, ProfileStep

LEMMA KycIsProfile ==
    ASSUME Typed, NEW account \in Selectable
    PROVE  /\ \A ward \in DemoWards : SubmitKyc(account, ward) => ProfileStep
           /\ \A who \in DOMAIN kycRecords, approve \in BOOLEAN :
                 SetKycStatus(account, who, approve) => ProfileStep
<1>1. ASSUME NEW ward \in DemoWards, SubmitKyc(account, ward) PROVE ProfileStep
  <2>1. DOMAIN kycRecords' = DOMAIN kycRecords \cup {CITIZEN}
        /\ UNCHANGED <<vendors, poolVars, votingVars, vendorUpdates, stakedBalances, rfps,
                       spendingReceipts, queued>>
    BY <1>1 DEF SubmitKyc, Put
  <2> QED
    BY <2>1 DEF Typed, Lists, ProfileStep
<1>2. ASSUME NEW who \in DOMAIN kycRecords, NEW approve \in BOOLEAN,
             SetKycStatus(account, who, approve)
      PROVE  ProfileStep
  <2>1. DOMAIN kycRecords' = DOMAIN kycRecords
        /\ UNCHANGED <<vendors, poolVars, votingVars, vendorUpdates, stakedBalances, rfps,
                       spendingReceipts, queued>>
    BY <1>2 DEF SetKycStatus
  <2> QED
    BY <2>1 DEF Typed, Lists, ProfileStep
<1> QED
  BY <1>1, <1>2

LEMMA UpdateIsProfile ==
    ASSUME Typed, NEW account \in Selectable, NEW id \in DOMAIN proposals \cup {None},
           PostVendorUpdate(account, id)
    PROVE  ProfileStep
<1>1. PICK b \in Nat : b = Latest(vendorUpdates, LAMBDA u : u.postedAt)
  BY LatestIsBlock
<1>2. PICK u : u = [vendor |-> account, proposalId |-> id, postedAt |-> b + 50]
  OBVIOUS
<1>3. account \in Account /\ id \in Nat \cup {None}
  BY DemoAssumption, ListIds DEF Typed, Lists, Selectable
<1>4. u \in DemoUpdate
  BY <1>2, <1>3 DEF DemoUpdate
<1>5. vendorUpdates' = Put(vendorUpdates, NewId(vendorUpdates), u)
      /\ UNCHANGED <<vendors, poolVars, votingVars, stakedBalances, rfps, kycRecords,
                     spendingReceipts, queued>>
  BY <1>1, <1>2 DEF PostVendorUpdate
<1>6. IsList(vendorUpdates', DemoUpdate)
  BY <1>4, <1>5, ListGrows DEF Typed, Lists
<1> QED
  BY <1>5, <1>6 DEF Typed, Lists, ProfileStep

LEMMA RfpIsProfile ==
    ASSUME Typed, NEW account \in Selectable
    PROVE  /\ \A ward \in DemoWards, amount \in DemoAmounts :
                 PostRfp(account, ward, amount) => ProfileStep
           /\ \A id \in OpenedRfps \cap DOMAIN rfps : CloseRfp(account, id) => ProfileStep
<1>1. ASSUME NEW ward \in DemoWards, NEW amount \in DemoAmounts, PostRfp(account, ward, amount)
      PROVE  ProfileStep
  <2>1. PICK b \in Nat : b = Latest(rfps, LAMBDA r : r.createdAt)
    BY LatestIsBlock
  <2>2. PICK r : r = [ward |-> ward, maxAmount |-> amount, status |-> "Open", createdAt |-> b + 50]
    OBVIOUS
  <2>3. r \in DemoRfp
    BY <2>2, Inputs DEF DemoRfp
  <2>4. rfps' = Put(rfps, NewId(rfps), r)
        /\ UNCHANGED <<vendors, poolVars, votingVars, vendorUpdates, stakedBalances, kycRecords,
                       spendingReceipts, queued>>
    BY <1>1, <2>1, <2>2 DEF PostRfp
  <2>5. IsList(rfps', DemoRfp) /\ Grown(rfps, rfps', NewId(rfps), r)
    BY <2>3, <2>4, ListGrows DEF Typed, Lists
  <2> QED
    BY <2>4, <2>5 DEF Typed, Lists, Grown, ProfileStep
<1>2. ASSUME NEW id \in OpenedRfps \cap DOMAIN rfps, CloseRfp(account, id) PROVE ProfileStep
  <2>1. PICK r \in DemoRfp : r = rfps[id]
    BY Entries
  <2>2. PICK s : s = [r EXCEPT !.status = "Closed"]
    OBVIOUS
  <2>3. s \in DemoRfp
    BY <2>2 DEF DemoRfp
  <2>4. rfps' = [rfps EXCEPT ![id] = s]
        /\ UNCHANGED <<vendors, poolVars, votingVars, vendorUpdates, stakedBalances, kycRecords,
                       spendingReceipts, queued>>
    BY <1>2, <2>1, <2>2 DEF CloseRfp
  <2>5. IsList(rfps', DemoRfp) /\ DOMAIN rfps' = DOMAIN rfps
    BY <2>3, <2>4, ListChanges DEF Typed, Lists
  <2> QED
    BY <2>4, <2>5 DEF Typed, Lists, ProfileStep
<1> QED
  BY <1>1, <1>2
-----------------------------------------------------------------------------
\* What a step of demo mode may do, in the terms used here.
Submits(id, q) ==
    Submitted(id, q) /\ UNCHANGED <<vendors, poolVars, votedProposalIds, profileVars, queued>>
Vets(id, q) ==
    Vetted(id, q) /\ UNCHANGED <<vendors, poolVars, votedProposalIds, profileVars, queued>>
Counts(id, q) == Counted(id, q) /\ UNCHANGED <<vendors, poolVars, profileVars, queued>>
Closes(id, q) ==
    /\ Closed(id, q) /\ UNCHANGED <<vendors, poolVars, votedProposalIds, profileVars>>
    /\ \E eager \in BOOLEAN :
          queued' = IF eager /\ Passed(proposals[id]) THEN id ELSE None
Contributes(id, c) ==
    Contributed(id, c) /\ UNCHANGED <<vendors, donors, grants, votingVars, profileVars, queued>>
Gives(id, g) ==
    /\ Given(id, g)
    /\ UNCHANGED <<vendors, treasuryContributions, votingVars, profileVars, queued>>
Receipts(k, r) ==
    /\ Receipted1(k, r)
    /\ UNCHANGED <<vendors, poolVars, votingVars, vendorUpdates, stakedBalances, rfps,
                   kycRecords, queued>>

ProposalStep ==
    \/ \E id, q : Submits(id, q)
    \/ \E id, q : Vets(id, q)
    \/ \E id, q : Counts(id, q)
    \/ \E id, q : Closes(id, q)
    \/ \E id \in DOMAIN proposals : PaidOut(id)

IncomeStep ==
    \/ \E id, c : Contributes(id, c)
    \/ RegisterDonor
    \/ \E id, g : Gives(id, g)

StepKind ==
    \/ \E category \in Categories : RegisterVendor(category)
    \/ ProposalStep
    \/ IncomeStep
    \/ ProfileStep
    \/ \E k, r : Receipts(k, r)

LEMMA FundingPagesKind ==
    ASSUME Typed, FundingPages
    PROVE  (\E category \in Categories : RegisterVendor(category)) \/ ProposalStep
<1>1. CASE \E category \in Categories : RegisterVendor(category)
  BY <1>1
<1>2. ASSUME NEW vendor \in DOMAIN vendors, NEW amount \in DemoAmounts, NEW ward \in DemoWards,
             NEW rfp \in (OpenedRfps \cap DOMAIN rfps) \cup {None},
             SubmitProposal(vendor, amount, ward, rfp)
      PROVE  ProposalStep
  <2>1. PICK id, q : Submitted(id, q)
    BY <1>2, SubmitSubmits
  <2> QED
    BY <1>2, <2>1 DEF SubmitProposal, Submits, ProposalStep
<1>3. ASSUME NEW account, NEW id, NEW approve \in BOOLEAN, VetProposal(account, id, approve)
      PROVE  ProposalStep
  <2>1. PICK q : Vetted(id, q)
    BY <1>3, VetVets
  <2> QED
    BY <1>3, <2>1 DEF VetProposal, Vets, ProposalStep
<1>4. ASSUME NEW id, NEW flag \in BOOLEAN, Vote(id, flag)
      PROVE  ProposalStep
  <2>1. PICK q : Counted(id, q)
    BY <1>4, VoteCounts
  <2> QED
    BY <1>4, <2>1 DEF Vote, Counts, ProposalStep
<1>5. ASSUME NEW id, NEW flag \in BOOLEAN, CloseProposal(id, flag)
      PROVE  ProposalStep
  <2>1. PICK q : Closed(id, q)
    BY <1>5, CloseCloses
  <2> QED
    BY <1>5, <2>1 DEF CloseProposal, Closes, ProposalStep
<1>6. ASSUME NEW id \in DOMAIN proposals, NEW flag \in BOOLEAN, Disburse(id, flag)
      PROVE  ProposalStep
  BY <1>6, DisbursePaysOut DEF ProposalStep
<1> QED
  BY <1>1, <1>2, <1>3, <1>4, <1>5, <1>6 DEF FundingPages

LEMMA StepKinds == Typed /\ DemoNext => StepKind
<1> SUFFICES ASSUME Typed, DemoNext PROVE StepKind
  OBVIOUS
<1>1. CASE FundingPages
  BY <1>1, FundingPagesKind DEF StepKind
<1>2. CASE MoneyPages
  <2>1. ASSUME NEW amount \in DemoAmounts, FundTreasury(amount) PROVE StepKind
    <3>1. PICK id, c : Contributed(id, c)
      BY <2>1, FundContributes
    <3> QED
      BY <2>1, <3>1 DEF FundTreasury, Contributes, IncomeStep, StepKind
  <2>2. CASE RegisterDonor
    BY <2>2 DEF IncomeStep, StepKind
  <2>3. ASSUME NEW account, NEW amount \in DemoAmounts, SubmitGrant(account, amount)
        PROVE  StepKind
    <3>1. PICK id, g : Given(id, g)
      BY <2>3, SubmitGrantGives
    <3> QED
      BY <2>3, <3>1 DEF SubmitGrant, Gives, IncomeStep, StepKind
  <2>4. ASSUME NEW account \in Selectable, NEW amount, StakeTokens(account, amount)
        PROVE  StepKind
    BY <2>4, StakeIsProfile DEF StepKind
  <2> QED
    BY <1>2, <2>1, <2>2, <2>3, <2>4 DEF MoneyPages
<1>3. CASE ResidentPages
  BY <1>3, KycIsProfile DEF ResidentPages, StepKind
<1>4. CASE VendorPages
  <2>1. ASSUME NEW account \in Selectable, NEW id \in DOMAIN proposals \cup {None},
               PostVendorUpdate(account, id)
        PROVE  StepKind
    BY <2>1, UpdateIsProfile DEF StepKind
  <2>2. ASSUME NEW account, NEW id \in DOMAIN proposals, NEW amount \in DemoReceipts,
               PostSpendingReceipt(account, id, amount)
        PROVE  StepKind
    <3>1. PICK k, r : Receipted1(k, r)
      BY <2>2, PostReceipts
    <3> QED
      BY <2>2, <3>1 DEF PostSpendingReceipt, Receipts, StepKind
  <2> QED
    BY <1>4, <2>1, <2>2 DEF VendorPages
<1>5. CASE RfpPages
  BY <1>5, RfpIsProfile DEF RfpPages, StepKind
<1>6. CASE Microtask
  BY <1>6, DisbursePaysOut DEF Microtask, ProposalStep, StepKind
<1> QED
  BY <1>1, <1>2, <1>3, <1>4, <1>5, <1>6 DEF DemoNext

LEMMA NextTyped == Typed /\ [DemoNext]_demoVars => Typed'
<1> SUFFICES ASSUME Typed, [DemoNext]_demoVars PROVE Typed'
  OBVIOUS
<1>1. CASE UNCHANGED demoVars
  <2>1. /\ UNCHANGED <<vendors, proposals, votedProposalIds, vendorUpdates, queued, treasury>>
        /\ UNCHANGED <<treasuryContributions, donors, grants, stakedBalances, rfps, kycRecords,
                       spendingReceipts>>
    BY <1>1 DEF demoVars, votingVars, poolVars, profileVars
  <2> QED
    BY <2>1 DEF Typed, Lists, ReceiptMap, GrantLinks, ProposalLinks, VoteLinks, QueueLinks
<1>2. CASE ProposalStep
  BY <1>2, SubmitTyped, VettedTyped, CountedTyped, ClosedTyped, PaidOutTyped
     DEF ProposalStep, Submits, Vets, Counts, Closes
<1>3. CASE IncomeStep
  BY <1>3, ContributedTyped, RegisterDonorTyped, GivenTyped DEF IncomeStep, Contributes, Gives
<1> QED
  BY <1>1, <1>2, <1>3, StepKinds, RegisterVendorTyped, ProfileTyped, ReceiptedTyped
     DEF StepKind, Receipts

\* The replica keeps to its types, and its lists to dense ids.
THEOREM DemoTypesHold == DemoSpec => []DemoTypeOK
BY InitTyped, NextTyped, TypedIsTypeOK, PTL DEF DemoSpec

-----------------------------------------------------------------------------
\* The votes.

SeedsStay == DOMAIN createDemoProposals \subseteq DOMAIN proposals
VotesInv == Typed /\ VotesDecide /\ SeedsStay

SeededVotes(id) ==
    IF id \in DOMAIN createDemoProposals
    THEN createDemoProposals[id].ayes + createDemoProposals[id].nays
    ELSE 0
OwnVotes(id) == IF id \in votedProposalIds THEN 1 ELSE 0

\* What VotesDecide says of one proposal.
CountedOnce(id) == proposals[id].ayes + proposals[id].nays = SeededVotes(id) + OwnVotes(id)
Decided(p) ==
    /\ p.status \in {"Approved", "Funded"} => Passed(p)
    /\ p.status = "Rejected" => ~Passed(p)

LEMMA VotesAreThose ==
    /\ VotesDecide <=> \A id \in DOMAIN proposals : CountedOnce(id) /\ Decided(proposals[id])
    /\ VotesDecide' <=> \A id \in DOMAIN proposals' : CountedOnce(id)' /\ Decided(proposals'[id])
BY DEF VotesDecide, OwnVoteCounted, DecidedByTally, CountedOnce, Decided, SeededVotes, OwnVotes, Passed

LEMMA VotesInit == DemoInit => VotesInv
<1> SUFFICES ASSUME DemoInit PROVE VotesInv
  OBVIOUS
<1>1. /\ DOMAIN proposals = 0 .. 9 /\ proposals = createDemoProposals
      /\ votedProposalIds = {} /\ DOMAIN createDemoProposals = 0 .. 9
  BY ProposalTable DEF DemoInit
<1>2. ASSUME NEW id \in DOMAIN proposals PROVE CountedOnce(id) /\ Decided(proposals[id])
  <2>1. Plausible(proposals[id])
    BY <1>1, SeedsPlausible
  <2>2. proposals[id].ayes \in Nat /\ proposals[id].nays \in Nat
    BY <2>1 DEF Plausible, DemoProposal
  <2>3. CountedOnce(id)
    BY <1>1, <2>2 DEF CountedOnce, SeededVotes, OwnVotes
  <2> QED
    BY <2>1, <2>3 DEF Plausible, Decided
<1> QED
  BY <1>1, <1>2, InitTyped, VotesAreThose DEF VotesInv, SeedsStay

LEMMA SameVotesPass ==
    ASSUME NEW p, NEW q, SameVotes(p, q) PROVE Passed(q) <=> Passed(p)
BY DEF SameVotes, Passed

\* A change that leaves the tally alone, or adds the visitor's own vote to it.
LEMMA TallyKept ==
    ASSUME VotesInv, NEW id, NEW q, Becomes(id, q), SameVotes(proposals[id], q), Decided(q),
           UNCHANGED votedProposalIds
    PROVE  VotesDecide' /\ SeedsStay'
<1>1. /\ DOMAIN proposals' = DOMAIN proposals /\ proposals'[id] = q
      /\ \A x \in DOMAIN proposals : x # id => proposals'[x] = proposals[x]
  BY DEF Becomes
<1>2. ASSUME NEW x \in DOMAIN proposals PROVE CountedOnce(x)' /\ Decided(proposals'[x])
  <2>1. CountedOnce(x) /\ Decided(proposals[x])
    BY VotesAreThose DEF VotesInv
  <2>2. CASE x = id
    BY <1>1, <2>1, <2>2 DEF SameVotes, CountedOnce, SeededVotes, OwnVotes
  <2>3. CASE x # id
    BY <1>1, <2>1, <2>3 DEF CountedOnce, SeededVotes, OwnVotes
  <2> QED
    BY <2>2, <2>3
<1> QED
  BY <1>1, <1>2, VotesAreThose DEF VotesInv, SeedsStay

LEMMA VoteAdded ==
    ASSUME VotesInv, NEW id, NEW q, Counted(id, q)
    PROVE  VotesDecide' /\ SeedsStay'
<1>1. /\ DOMAIN proposals' = DOMAIN proposals /\ proposals'[id] = q /\ id \in DOMAIN proposals
      /\ \A x \in DOMAIN proposals : x # id => proposals'[x] = proposals[x]
  BY DEF Counted, Becomes
<1>2. /\ q.status = "Proposed" /\ id \notin votedProposalIds
      /\ votedProposalIds' = votedProposalIds \cup {id}
      /\ q.ayes + q.nays = proposals[id].ayes + proposals[id].nays + 1
  BY DEF Counted
<1>3. ASSUME NEW x \in DOMAIN proposals PROVE CountedOnce(x)' /\ Decided(proposals'[x])
  <2>1. CountedOnce(x) /\ Decided(proposals[x])
    BY VotesAreThose DEF VotesInv
  <2>2. CASE x = id
    <3>1. OwnVotes(x) = 0 /\ OwnVotes(x)' = 1 /\ SeededVotes(x)' = SeededVotes(x)
      BY <1>2, <2>2 DEF OwnVotes, SeededVotes
    <3>2. proposals[x].ayes + proposals[x].nays = SeededVotes(x) + 0
      BY <2>1, <3>1 DEF CountedOnce
    <3>3. SeededVotes(x) \in Nat
      <4>1. \A y \in DOMAIN createDemoProposals : /\ createDemoProposals[y].ayes \in Nat
                                                  /\ createDemoProposals[y].nays \in Nat
        BY ProposalTable, SeedsPlausible DEF Plausible, DemoProposal
      <4> QED
        BY <4>1 DEF SeededVotes
    <3>4. q.ayes + q.nays = SeededVotes(x) + 1
      BY <1>2, <2>2, <3>2, <3>3
    <3>5. CountedOnce(x)'
      BY <1>1, <2>2, <3>1, <3>4 DEF CountedOnce
    <3> QED
      BY <1>1, <1>2, <2>2, <3>5 DEF Decided
  <2>3. CASE x # id
    BY <1>1, <1>2, <2>1, <2>3 DEF CountedOnce, SeededVotes, OwnVotes
  <2> QED
    BY <2>2, <2>3
<1> QED
  BY <1>1, <1>3, VotesAreThose DEF VotesInv, SeedsStay

LEMMA ProposalAdded ==
    ASSUME VotesInv, NEW id, NEW q, Submitted(id, q), UNCHANGED votedProposalIds
    PROVE  VotesDecide' /\ SeedsStay'
<1>1. /\ DOMAIN proposals' = DOMAIN proposals \cup {id} /\ proposals'[id] = q
      /\ id \notin DOMAIN proposals
      /\ \A x \in DOMAIN proposals : proposals'[x] = proposals[x]
      /\ q.status = "PendingReview" /\ q.ayes = 0 /\ q.nays = 0
  BY DEF Submitted, Grown
<1>2. ASSUME NEW x \in DOMAIN proposals PROVE CountedOnce(x)' /\ Decided(proposals'[x])
  <2>1. CountedOnce(x) /\ Decided(proposals[x])
    BY VotesAreThose DEF VotesInv
  <2> QED
    BY <1>1, <2>1 DEF CountedOnce, SeededVotes, OwnVotes
<1>3. CountedOnce(id)' /\ Decided(proposals'[id])
  <2>1. id \notin votedProposalIds /\ id \notin DOMAIN createDemoProposals
    BY <1>1 DEF VotesInv, Typed, VoteLinks, SeedsStay
  <2> QED
    BY <1>1, <2>1 DEF CountedOnce, SeededVotes, OwnVotes, Decided
<1> QED
  BY <1>1, <1>2, <1>3, VotesAreThose DEF VotesInv, SeedsStay

LEMMA VotesUntouched ==
    ASSUME VotesInv, UNCHANGED votingVars PROVE VotesDecide' /\ SeedsStay'
<1>1. UNCHANGED <<proposals, votedProposalIds>>
  BY DEF votingVars
<1> QED
  BY <1>1 DEF VotesInv, VotesDecide, OwnVoteCounted, DecidedByTally, SeedsStay

LEMMA VotesNext == VotesInv /\ [DemoNext]_demoVars => VotesInv'
<1> SUFFICES ASSUME VotesInv, [DemoNext]_demoVars PROVE VotesDecide' /\ SeedsStay'
  BY NextTyped DEF VotesInv
<1>1. ASSUME NEW id, NEW q, Vets(id, q) PROVE VotesDecide' /\ SeedsStay'
  <2>1. Becomes(id, q) /\ SameVotes(proposals[id], q) /\ UNCHANGED votedProposalIds /\ Decided(q)
    BY <1>1 DEF Vets, Vetted, Decided
  <2> QED
    BY <2>1, TallyKept
<1>2. ASSUME NEW id, NEW q, Closes(id, q) PROVE VotesDecide' /\ SeedsStay'
  <2>1. Becomes(id, q) /\ SameVotes(proposals[id], q) /\ UNCHANGED votedProposalIds
        /\ q.status = IF Passed(proposals[id]) THEN "Approved" ELSE "Rejected"
    BY <1>2 DEF Closes, Closed
  <2>2. Decided(q)
    BY <2>1, SameVotesPass DEF Decided
  <2> QED
    BY <2>1, <2>2, TallyKept
<1>3. ASSUME NEW id, PaidOut(id) PROVE VotesDecide' /\ SeedsStay'
  <2>1. CASE UNCHANGED proposals
    BY <1>3, <2>1, VotesUntouched DEF PaidOut, votingVars
  <2>2. ASSUME NEW q, MarkedFunded(id, q) PROVE VotesDecide' /\ SeedsStay'
    <3>1. Becomes(id, q) /\ SameVotes(proposals[id], q) /\ UNCHANGED votedProposalIds
          /\ q.status = "Funded" /\ proposals[id].status = "Approved" /\ id \in DOMAIN proposals
      BY <1>3, <2>2 DEF PaidOut, MarkedFunded, Becomes
    <3>2. Decided(proposals[id])
      BY <3>1, VotesAreThose DEF VotesInv
    <3>3. Decided(q)
      BY <3>1, <3>2, SameVotesPass DEF Decided
    <3> QED
      BY <3>1, <3>3, TallyKept
  <2> QED
    BY <1>3, <2>1, <2>2 DEF PaidOut, Marked
<1>4. CASE ProposalStep
  BY <1>1, <1>2, <1>3, <1>4, VoteAdded, ProposalAdded DEF ProposalStep, Counts, Submits
<1>5. CASE UNCHANGED votingVars
  BY <1>5, VotesUntouched
<1>6. StepKind => ProposalStep \/ UNCHANGED votingVars
  BY DEF StepKind, RegisterVendor, IncomeStep, Contributes, RegisterDonor, Gives, ProfileStep, Receipts
<1>7. UNCHANGED demoVars => UNCHANGED votingVars
  BY DEF demoVars
<1> QED
  BY <1>4, <1>5, <1>6, <1>7, StepKinds DEF VotesInv

\* No decision contradicts its final tally, to which the visitor adds one vote.
THEOREM DemoVotesDecide == DemoSpec => []VotesDecide
<1>1. VotesInv => VotesDecide
  BY DEF VotesInv
<1> QED
  BY <1>1, VotesInit, VotesNext, PTL DEF DemoSpec

-----------------------------------------------------------------------------
\* The payouts.

FundedFor(a) == {id \in Funded : proposals[id].vendor = a}
VendorsInv == Typed /\ VendorsMatchFunded

\* What VendorsMatchFunded says of one vendor.
BookOf(a) ==
    /\ vendors[a].totalReceived = TotalOf(proposals, FundedFor(a))
    /\ vendors[a].proposalsFunded = Cardinality(FundedFor(a))

LEMMA FundedAmounts ==
    /\ FundedAmount(Funded) = TotalOf(proposals, Funded)
    /\ \A a : FundedAmount(FundedFor(a)) = TotalOf(proposals, FundedFor(a))
<1>1. Funded \cap Funded = Funded /\ \A a : FundedFor(a) \cap Funded = FundedFor(a)
  BY DEF FundedFor
<1> QED
  BY <1>1 DEF FundedAmount, TotalOf

LEMMA VendorsAreThose ==
    /\ VendorsMatchFunded <=>
        /\ \A a \in DOMAIN vendors : BookOf(a)
        /\ TotalOf(proposals, Funded) <= treasury.totalDisbursed
    /\ VendorsMatchFunded' <=>
        /\ \A a \in DOMAIN vendors' : BookOf(a)'
        /\ TotalOf(proposals, Funded)' <= treasury'.totalDisbursed
<1>1. /\ FundedAmount(Funded)' = TotalOf(proposals, Funded)'
      /\ \A a : FundedAmount(FundedFor(a))' = TotalOf(proposals, FundedFor(a))'
  <2>1. Funded' \cap Funded' = Funded' /\ \A a : FundedFor(a)' \cap Funded' = FundedFor(a)'
    BY DEF FundedFor
  <2> QED
    BY <2>1 DEF FundedAmount, TotalOf
<1>2. VendorsMatchFunded <=> (/\ \A a \in DOMAIN vendors : BookOf(a)
                             /\ TotalOf(proposals, Funded) <= treasury.totalDisbursed)
  BY FundedAmounts DEF VendorsMatchFunded, BookOf, FundedFor
<1>3. VendorsMatchFunded' <=> (/\ \A a \in DOMAIN vendors' : BookOf(a)'
                              /\ TotalOf(proposals, Funded)' <= treasury'.totalDisbursed)
  BY <1>1 DEF VendorsMatchFunded, BookOf, FundedFor
<1> QED
  BY <1>2, <1>3

\* Any of the proposals have amounts, and what they add up to is a number.
LEMMA ProposalsAmounting ==
    ASSUME Typed, NEW S \in SUBSET DOMAIN proposals
    PROVE  Amounting(proposals, S) /\ IsFiniteSet(S)
<1>1. IsFiniteSet(S)
  BY Finite, FS_Subset
<1> QED
  BY <1>1, Entries DEF Amounting, AmountOf, DemoProposal

LEMMA FundedAreProposals ==
    /\ Funded \in SUBSET DOMAIN proposals
    /\ \A a : FundedFor(a) \in SUBSET DOMAIN proposals
BY DEF Funded, FundedFor

\* A step that marks nothing as funded leaves what the funded ones add up to.
NothingMarked ==
    /\ Funded' = Funded
    /\ \A id \in Funded : SameTerms(proposals[id], proposals'[id])

LEMMA NothingMarkedSame ==
    ASSUME NothingMarked, NEW a
    PROVE  /\ FundedFor(a)' = FundedFor(a)
           /\ TotalOf(proposals, Funded)' = TotalOf(proposals, Funded)
           /\ TotalOf(proposals, FundedFor(a))' = TotalOf(proposals, FundedFor(a))
<1>1. FundedFor(a)' = FundedFor(a)
  BY DEF NothingMarked, FundedFor, SameTerms
<1>2. /\ SameAmounts(proposals, proposals', Funded)
      /\ SameAmounts(proposals, proposals', FundedFor(a))
  BY DEF NothingMarked, FundedFor, SameTerms, SameAmounts
<1>3. /\ TotalOf(proposals', Funded) = TotalOf(proposals, Funded)
      /\ TotalOf(proposals', FundedFor(a)) = TotalOf(proposals, FundedFor(a))
  BY <1>2, TotalSame
<1>4. Funded' = Funded
  BY DEF NothingMarked
<1> QED
  BY <1>1, <1>3, <1>4

LEMMA BecomesMarksNothing ==
    ASSUME NEW id, NEW q, Becomes(id, q), proposals[id].status # "Funded", q.status # "Funded"
    PROVE  NothingMarked
BY DEF Becomes, NothingMarked, Funded, SameTerms

LEMMA AddedMarksNothing ==
    ASSUME NEW id, NEW q, Submitted(id, q) PROVE NothingMarked
<1>1. /\ DOMAIN proposals' = DOMAIN proposals \cup {id} /\ proposals'[id] = q
      /\ id \notin DOMAIN proposals /\ q.status # "Funded"
      /\ \A x \in DOMAIN proposals : proposals'[x] = proposals[x]
  BY DEF Submitted, Grown
<1> QED
  BY <1>1 DEF NothingMarked, Funded, SameTerms

LEMMA StatusStepMarksNothing ==
    ASSUME Typed, NEW id, NEW q, Submits(id, q) \/ Vets(id, q) \/ Counts(id, q) \/ Closes(id, q)
    PROVE  NothingMarked /\ UNCHANGED <<vendors, treasury, spendingReceipts>>
<1>1. UNCHANGED <<vendors, treasury, spendingReceipts>>
  BY DEF Submits, Vets, Counts, Closes, poolVars, profileVars
<1>2. ASSUME Submits(id, q) PROVE NothingMarked
  BY <1>2, AddedMarksNothing DEF Submits
<1>3. ASSUME Vets(id, q) PROVE NothingMarked
  <2>1. Becomes(id, q) /\ proposals[id].status # "Funded" /\ q.status # "Funded"
    BY <1>3 DEF Vets, Vetted
  <2> QED
    BY <2>1, BecomesMarksNothing
<1>4. ASSUME Counts(id, q) PROVE NothingMarked
  <2>1. Becomes(id, q) /\ proposals[id].status # "Funded" /\ q.status # "Funded"
    BY <1>4 DEF Counts, Counted
  <2> QED
    BY <2>1, BecomesMarksNothing
<1>5. ASSUME Closes(id, q) PROVE NothingMarked
  <2>1. Becomes(id, q) /\ proposals[id].status = "Proposed" /\ q.status \in {"Approved", "Rejected"}
    BY <1>5 DEF Closes, Closed
  <2> QED
    BY <2>1, BecomesMarksNothing
<1> QED
  BY <1>1, <1>2, <1>3, <1>4, <1>5

\* A payout that is marked is one funded proposal more.
LEMMA MarkedMore ==
    ASSUME Typed, NEW id, NEW q, MarkedFunded(id, q), NEW v, v = proposals[id].vendor,
           NEW x, x = proposals[id].amount
    PROVE  /\ x \in Nat /\ id \notin Funded /\ Funded' = Funded \cup {id}
           /\ FundedFor(v)' = FundedFor(v) \cup {id} /\ id \notin FundedFor(v)
           /\ \A a : a # v => FundedFor(a)' = FundedFor(a)
           /\ \A k \in DOMAIN proposals : SameTerms(proposals[k], proposals'[k])
           /\ DOMAIN proposals' = DOMAIN proposals
<1>1. /\ id \in DOMAIN proposals /\ q.vendor = v /\ q.amount = x
      /\ proposals[id].status = "Approved" /\ q.status = "Funded"
      /\ proposals' = [proposals EXCEPT ![id] = q] /\ SameTerms(proposals[id], q)
  BY DEF MarkedFunded, Becomes, SameTerms
<1>2. DOMAIN proposals' = DOMAIN proposals /\ proposals'[id] = q
      /\ \A k \in DOMAIN proposals : k # id => proposals'[k] = proposals[k]
  BY <1>1
<1>3. x \in Nat
  BY <1>1, Entries DEF DemoProposal
<1>4. id \notin Funded /\ Funded' = Funded \cup {id}
  BY <1>1, <1>2 DEF Funded
<1>5. \A k \in DOMAIN proposals : SameTerms(proposals[k], proposals'[k])
  BY <1>1, <1>2 DEF SameTerms
<1>6. FundedFor(v)' = FundedFor(v) \cup {id} /\ id \notin FundedFor(v)
  BY <1>1, <1>2, <1>4 DEF FundedFor, Funded
<1>7. ASSUME NEW a, a # v PROVE FundedFor(a)' = FundedFor(a)
  BY <1>1, <1>2, <1>4, <1>7 DEF FundedFor, Funded
<1> QED
  BY <1>2, <1>3, <1>4, <1>5, <1>6, <1>7

LEMMA MarkedAdds ==
    ASSUME Typed, Typed', NEW id, NEW q, MarkedFunded(id, q), NEW S \in SUBSET DOMAIN proposals, id \notin S,
           NEW T, T = S \cup {id}, NEW x, x = proposals[id].amount
    PROVE  TotalOf(proposals', T) = TotalOf(proposals, S) + x
<1>1. \A k \in DOMAIN proposals : SameTerms(proposals[k], proposals'[k])
  BY MarkedMore
<1>2. DOMAIN proposals' = DOMAIN proposals /\ id \in DOMAIN proposals
  BY MarkedMore DEF MarkedFunded, Becomes
<1>3. SameAmounts(proposals, proposals', S)
  BY <1>1 DEF SameAmounts, SameTerms
<1>4. Amounting(proposals, S) /\ IsFiniteSet(S)
  BY ProposalsAmounting
<1>5. Amounting(proposals', T)
  <2>1. IsFiniteSet(T)
    BY <1>4, FS_AddElement
  <2>2. \A k \in T : AmountOf(proposals', k) = AmountOf(proposals, k)
    BY <1>1, <1>2 DEF SameTerms, AmountOf
  <2>3. \A k \in T : AmountOf(proposals, k) \in Nat
    BY <1>2, Entries DEF AmountOf, DemoProposal
  <2> QED
    BY <2>1, <2>2, <2>3 DEF Amounting
<1>6. TotalOf(proposals', T) = TotalOf(proposals, S) + AmountOf(proposals', id)
  BY <1>3, <1>4, <1>5, TotalOneMore
<1>7. AmountOf(proposals', id) = x
  BY <1>1, <1>2 DEF AmountOf, SameTerms
<1> QED
  BY <1>6, <1>7

LEMMA VendorsSame ==
    ASSUME VendorsInv, NothingMarked, UNCHANGED vendors, treasury'.totalDisbursed = treasury.totalDisbursed
    PROVE  VendorsMatchFunded'
<1>1. \A a \in DOMAIN vendors : BookOf(a)'
  <2>1. ASSUME NEW a \in DOMAIN vendors PROVE BookOf(a)'
    BY NothingMarkedSame, VendorsAreThose DEF VendorsInv, BookOf
  <2> QED
    BY <2>1
<1> QED
  BY <1>1, NothingMarkedSame, VendorsAreThose DEF VendorsInv

LEMMA VendorAdded ==
    ASSUME VendorsInv, NEW category \in Categories, RegisterVendor(category)
    PROVE  VendorsMatchFunded'
<1>1. UNCHANGED <<proposals, treasury>> /\ CITIZEN \notin DOMAIN vendors
  BY DEF RegisterVendor, votingVars, poolVars
<1>2. NothingMarked
  BY <1>1 DEF NothingMarked, Funded, SameTerms
<1>3. /\ DOMAIN vendors' = DOMAIN vendors \cup {CITIZEN}
      /\ vendors'[CITIZEN].totalReceived = 0 /\ vendors'[CITIZEN].proposalsFunded = 0
      /\ \A a \in DOMAIN vendors : vendors'[a] = vendors[a]
  BY <1>1 DEF RegisterVendor, Put
<1>4. ASSUME NEW a \in DOMAIN vendors PROVE BookOf(a)'
  <2>1. BookOf(a)
    BY VendorsAreThose DEF VendorsInv
  <2> QED
    BY <1>2, <1>3, <2>1, NothingMarkedSame DEF BookOf
<1>5. BookOf(CITIZEN)'
  <2>1. FundedFor(CITIZEN)' = {}
    BY <1>1 DEF FundedFor, Funded, VendorsInv, Typed, ProposalLinks
  <2>2. TotalOf(proposals', {}) = 0 /\ Cardinality({}) = 0
    BY TotalOfNone, FS_EmptySet
  <2> QED
    BY <1>3, <2>1, <2>2 DEF BookOf
<1> QED
  BY <1>1, <1>2, <1>3, <1>4, <1>5, NothingMarkedSame, VendorsAreThose DEF VendorsInv

LEMMA VendorPaid ==
    ASSUME VendorsInv, Typed', NEW id \in DOMAIN proposals, PotPays(id), Marked(id)
    PROVE  VendorsMatchFunded'
<1>1. PICK v, x : v = proposals[id].vendor /\ x = proposals[id].amount
  OBVIOUS
<1>2. PICK q : MarkedFunded(id, q)
  BY DEF Marked
<1>3. Credited(v, x) /\ treasury'.totalDisbursed = treasury.totalDisbursed + x
  BY <1>1 DEF Marked, PotPays
<1>4. /\ x \in Nat /\ id \notin Funded /\ Funded' = Funded \cup {id}
      /\ FundedFor(v)' = FundedFor(v) \cup {id} /\ id \notin FundedFor(v)
      /\ \A a : a # v => FundedFor(a)' = FundedFor(a)
      /\ \A k \in DOMAIN proposals : SameTerms(proposals[k], proposals'[k])
  BY <1>1, <1>2, MarkedMore DEF VendorsInv
<1>5. TotalOf(proposals, Funded)' = TotalOf(proposals, Funded) + x
  BY <1>1, <1>2, <1>4, MarkedAdds, FundedAreProposals DEF VendorsInv
<1>6. BookOf(v)'
  <2>1. TotalOf(proposals, FundedFor(v))' = TotalOf(proposals, FundedFor(v)) + x
    BY <1>1, <1>2, <1>4, MarkedAdds, FundedAreProposals DEF VendorsInv
  <2>2. IsFiniteSet(FundedFor(v))
    BY ProposalsAmounting, FundedAreProposals DEF VendorsInv
  <2>3. Cardinality(FundedFor(v)') = Cardinality(FundedFor(v)) + 1
    BY <1>4, <2>2, FS_AddElement
  <2>4. v \in DOMAIN vendors /\ BookOf(v)
    BY <1>3, VendorsAreThose DEF VendorsInv, Credited
  <2>5. /\ vendors'[v].totalReceived = vendors[v].totalReceived + x
        /\ vendors'[v].proposalsFunded = vendors[v].proposalsFunded + 1
    BY <1>3 DEF Credited
  <2> QED
    BY <2>1, <2>3, <2>4, <2>5 DEF BookOf
<1>7. ASSUME NEW a \in DOMAIN vendors, a # v PROVE BookOf(a)'
  <2>1. FundedFor(a)' = FundedFor(a) /\ vendors'[a] = vendors[a]
    BY <1>3, <1>4, <1>7 DEF Credited
  <2>2. SameAmounts(proposals, proposals', FundedFor(a))
    BY <1>4, FundedAreProposals DEF SameAmounts, SameTerms
  <2>3. TotalOf(proposals', FundedFor(a)) = TotalOf(proposals, FundedFor(a))
    BY <2>2, TotalSame
  <2>4. BookOf(a)
    BY VendorsAreThose DEF VendorsInv
  <2> QED
    BY <2>1, <2>3, <2>4 DEF BookOf
<1>8. DOMAIN vendors' = DOMAIN vendors
  BY <1>3 DEF Credited
<1>9. TotalOf(proposals, Funded)' <= treasury'.totalDisbursed
  <2>1. TotalOf(proposals, Funded) \in Nat
    BY ProposalsAmounting, FundedAreProposals, TotalNumber DEF VendorsInv
  <2>2. TotalOf(proposals, Funded) <= treasury.totalDisbursed /\ treasury.totalDisbursed \in Nat
    BY VendorsAreThose DEF VendorsInv, Typed
  <2> QED
    BY <1>3, <1>4, <1>5, <2>1, <2>2
<1> QED
  BY <1>6, <1>7, <1>8, <1>9, VendorsAreThose

LEMMA VendorsInit == DemoInit => VendorsInv
<1> SUFFICES ASSUME DemoInit PROVE VendorsMatchFunded
  BY InitTyped DEF VendorsInv
<1>1. DOMAIN proposals = 0 .. 9 /\ proposals = createDemoProposals /\ vendors = createDemoVendors
      /\ treasury.totalDisbursed = SeedAmount(FundedSeeds)
  BY ProposalTable DEF DemoInit, createDemoTreasury
<1>2. Funded = FundedSeeds
  BY <1>1, SeedIds DEF Funded, FundedSeeds
<1>3. ASSUME NEW a PROVE SeedAmount(FundedFor(a)) = TotalOf(proposals, FundedFor(a))
  BY <1>1 DEF SeedAmount, TotalOf
<1>4. SeedAmount(FundedSeeds) = TotalOf(proposals, Funded)
  BY <1>1, <1>2 DEF SeedAmount, TotalOf
<1>5. ASSUME NEW a \in DOMAIN vendors PROVE BookOf(a)
  <2>1. FundedFor(a) = {id \in FundedSeeds : createDemoProposals[id].vendor = a}
    BY <1>1, <1>2 DEF FundedFor
  <2>2. vendors[a].totalReceived = SeedAmount(FundedFor(a))
        /\ vendors[a].proposalsFunded = Cardinality(FundedFor(a))
    BY <1>1, <2>1 DEF createDemoVendors
  <2> QED
    BY <1>3, <2>2 DEF BookOf
<1>6. TotalOf(proposals, Funded) <= treasury.totalDisbursed
  <2>1. TotalOf(proposals, Funded) \in Nat
    BY <1>4, SeedAmountNumber
  <2> QED
    BY <1>1, <1>4, <2>1
<1> QED
  BY <1>5, <1>6, VendorsAreThose

LEMMA VendorsNext == VendorsInv /\ [DemoNext]_demoVars => VendorsInv'
<1> SUFFICES ASSUME VendorsInv, [DemoNext]_demoVars PROVE VendorsInv'
  OBVIOUS
<1>1. Typed'
  BY NextTyped DEF VendorsInv
<1>2. CASE UNCHANGED <<vendors, proposals>> /\ treasury'.totalDisbursed = treasury.totalDisbursed
  <2>1. NothingMarked
    BY <1>2 DEF NothingMarked, Funded, SameTerms
  <2> QED
    BY <1>1, <1>2, <2>1, VendorsSame DEF VendorsInv
<1>3. ASSUME NEW id, NEW q, Submits(id, q) \/ Vets(id, q) \/ Counts(id, q) \/ Closes(id, q)
      PROVE  VendorsMatchFunded'
  <2>1. NothingMarked /\ UNCHANGED vendors /\ treasury'.totalDisbursed = treasury.totalDisbursed
    BY <1>3, StatusStepMarksNothing DEF VendorsInv
  <2> QED
    BY <2>1, VendorsSame
<1>4. ASSUME NEW id \in DOMAIN proposals, PotPays(id), UNCHANGED <<vendors, proposals>>
      PROVE  VendorsMatchFunded'
  <2>1. NothingMarked
    BY <1>4 DEF NothingMarked, Funded, SameTerms
  <2>2. \A a \in DOMAIN vendors : BookOf(a)'
    BY <1>4, <2>1, NothingMarkedSame, VendorsAreThose DEF VendorsInv, BookOf
  <2>3. /\ treasury'.totalDisbursed = treasury.totalDisbursed + proposals[id].amount
        /\ proposals[id].amount \in Nat /\ treasury.totalDisbursed \in Nat
    BY <1>4, Entries DEF PotPays, DemoProposal, VendorsInv, Typed
  <2>4. TotalOf(proposals, Funded) \in Nat
    BY ProposalsAmounting, FundedAreProposals, TotalNumber DEF VendorsInv
  <2>5. TotalOf(proposals, Funded) <= treasury.totalDisbursed
    BY VendorsAreThose DEF VendorsInv
  <2>6. TotalOf(proposals, Funded)' <= treasury'.totalDisbursed
    <3>1. TotalOf(proposals, Funded)' = TotalOf(proposals, Funded)
      BY <2>1, NothingMarkedSame
    <3> QED
      BY <2>3, <2>4, <2>5, <3>1
  <2> QED
    BY <1>4, <2>2, <2>6, VendorsAreThose
<1>5. CASE ProposalStep
  <2>1. ASSUME NEW id \in DOMAIN proposals, PaidOut(id) PROVE VendorsInv'
    <3>1. CASE UNCHANGED <<vendors, proposals, treasury>>
      BY <1>2, <3>1
    <3> QED
      BY <1>1, <1>4, <2>1, <3>1, VendorPaid DEF PaidOut, VendorsInv
  <2> QED
    BY <1>1, <1>3, <1>5, <2>1 DEF ProposalStep, VendorsInv
<1>6. CASE IncomeStep
  BY <1>2, <1>6 DEF IncomeStep, Contributes, Contributed, RegisterDonor, Gives, Given, Received,
                    votingVars
<1>7. ProfileStep \/ (\E k, r : Receipts(k, r)) \/ UNCHANGED demoVars
      => UNCHANGED <<vendors, proposals, treasury>>
  BY DEF ProfileStep, Receipts, demoVars, votingVars, poolVars
<1> QED
  BY <1>1, <1>2, <1>5, <1>6, <1>7, VendorAdded, StepKinds DEF StepKind, VendorsInv

\* A vendor's totals are those of the funded proposals that name it, whenever
\* React ran the updaters.
THEOREM DemoVendorsMatch == DemoSpec => []VendorsMatchFunded
<1>1. VendorsInv => VendorsMatchFunded
  BY DEF VendorsInv
<1> QED
  BY <1>1, VendorsInit, VendorsNext, PTL DEF DemoSpec

-----------------------------------------------------------------------------
\* The books of the income.

GrantsOf(d) == {g \in DOMAIN grants : grants[g].donor = d}

\* What GiftsAddUp says of the treasury, and of one donor.
Balanced == treasury.potBalance + treasury.totalDisbursed = treasury.totalReceived
AccountedFor ==
    treasury.totalReceived =
        TotalOf(grants, DOMAIN grants) + TotalOf(treasuryContributions, DOMAIN treasuryContributions)
DonorBook(d) ==
    /\ donors[d].totalContributed = TotalOf(grants, GrantsOf(d))
    /\ donors[d].grantsMade = Cardinality(GrantsOf(d))

LEMMA GiftsAreThose ==
    /\ GiftsAddUp <=> Balanced /\ AccountedFor /\ \A d \in DOMAIN donors : DonorBook(d)
    /\ GiftsAddUp' <=> Balanced' /\ AccountedFor' /\ \A d \in DOMAIN donors' : DonorBook(d)'
BY DEF GiftsAddUp, Balanced, AccountedFor, DonorBook, GrantsOf, TotalOf

LEMMA GiftsAmounting ==
    ASSUME Typed, NEW S \in SUBSET DOMAIN grants
    PROVE  /\ Amounting(grants, S) /\ IsFiniteSet(S)
           /\ Amounting(treasuryContributions, DOMAIN treasuryContributions)
<1>1. IsFiniteSet(S)
  BY Finite, FS_Subset
<1>2. Amounting(grants, S)
  BY <1>1, Entries DEF Amounting, AmountOf, DemoGrant
<1>3. Amounting(treasuryContributions, DOMAIN treasuryContributions)
  BY Finite, Entries DEF Amounting, AmountOf, DemoContribution
<1> QED
  BY <1>1, <1>2, <1>3

\* An entry more in a list adds its amount to a total that takes it in.
LEMMA GrownAdds ==
    ASSUME NEW f, NEW g, NEW id, NEW v, Grown(f, g, id, v), NEW S \in SUBSET DOMAIN f,
           Amounting(f, S), NEW n \in Nat, n = v.amount, NEW T, T = S \cup {id}
    PROVE  TotalOf(g, T) = TotalOf(f, S) + n /\ id \notin S
<1>1. id \notin S /\ g[id] = v /\ \A k \in S : g[k] = f[k]
  BY DEF Grown
<1>2. SameAmounts(f, g, S)
  BY <1>1 DEF SameAmounts
<1>3. Amounting(g, T)
  <2>1. IsFiniteSet(T)
    BY FS_AddElement DEF Amounting
  <2> QED
    BY <1>1, <2>1 DEF Amounting, AmountOf
<1>4. TotalOf(g, T) = TotalOf(f, S) + AmountOf(g, id)
  BY <1>1, <1>2, <1>3, TotalOneMore
<1> QED
  BY <1>1, <1>4 DEF AmountOf

LEMMA GrownKeeps ==
    ASSUME NEW f, NEW g, NEW id, NEW v, Grown(f, g, id, v), NEW S \in SUBSET DOMAIN f
    PROVE  TotalOf(g, S) = TotalOf(f, S)
<1>1. SameAmounts(f, g, S)
  BY DEF SameAmounts, Grown
<1> QED
  BY <1>1, TotalSame

LEMMA GiftsContributed ==
    ASSUME Typed, GiftsAddUp, NEW id, NEW c, Contributed(id, c), UNCHANGED <<donors, grants>>
    PROVE  GiftsAddUp'
<1>1. PICK x \in Nat : x = c.amount
  BY DEF Contributed, Received
<1>2. Received(x) /\ Grown(treasuryContributions, treasuryContributions', id, c)
  BY <1>1 DEF Contributed
<1>3. PICK S : S = DOMAIN treasuryContributions
  OBVIOUS
<1>4. DOMAIN treasuryContributions' = S \cup {id}
  BY <1>2, <1>3 DEF Grown
<1>5. TotalOf(treasuryContributions', S \cup {id}) = TotalOf(treasuryContributions, S) + x
  <2>1. Amounting(treasuryContributions, S)
    <3>1. {} \in SUBSET DOMAIN grants
      OBVIOUS
    <3> QED
      BY <1>3, <3>1, GiftsAmounting
  <2> QED
    BY <1>1, <1>2, <1>3, <2>1, GrownAdds
<1>6. /\ TotalOf(treasuryContributions, S) \in Nat
      /\ TotalOf(grants, DOMAIN grants) \in Nat
  BY <1>3, GiftsAmounting, TotalNumber
<1>7. Balanced /\ AccountedFor /\ \A d \in DOMAIN donors : DonorBook(d)
  BY GiftsAreThose
<1>8. Balanced'
  BY <1>2, <1>7 DEF Balanced, Received, Typed
<1>9. AccountedFor'
  BY <1>2, <1>3, <1>4, <1>5, <1>6, <1>7 DEF AccountedFor, Received
<1>10. \A d \in DOMAIN donors' : DonorBook(d)'
  BY <1>7 DEF DonorBook, GrantsOf
<1> QED
  BY <1>8, <1>9, <1>10, GiftsAreThose

LEMMA GiftsGiven ==
    ASSUME Typed, GiftsAddUp, NEW id, NEW g, Given(id, g), UNCHANGED treasuryContributions
    PROVE  GiftsAddUp'
<1>1. PICK x \in Nat : x = g.amount
  BY DEF Given, Received
<1>2. PICK a : a = g.donor
  OBVIOUS
<1>3. Received(x) /\ Grown(grants, grants', id, g)
  BY <1>1 DEF Given
<1>4. /\ a \in DOMAIN donors /\ DOMAIN donors' = DOMAIN donors
      /\ donors'[a].totalContributed = donors[a].totalContributed + x
      /\ donors'[a].grantsMade = donors[a].grantsMade + 1
      /\ \A d \in DOMAIN donors : d # a => donors'[d] = donors[d]
  BY <1>1, <1>2 DEF Given
<1>5. /\ DOMAIN grants' = DOMAIN grants \cup {id} /\ grants'[id] = g
      /\ id \notin DOMAIN grants /\ \A k \in DOMAIN grants : grants'[k] = grants[k]
  BY <1>3 DEF Grown
<1>6. /\ GrantsOf(a)' = GrantsOf(a) \cup {id} /\ id \notin GrantsOf(a)
      /\ \A d : d # a => GrantsOf(d)' = GrantsOf(d)
      /\ \A d : GrantsOf(d) \in SUBSET DOMAIN grants
  BY <1>2, <1>5 DEF GrantsOf
<1>7. Balanced /\ AccountedFor /\ \A d \in DOMAIN donors : DonorBook(d)
  BY GiftsAreThose
<1>8. Balanced'
  BY <1>3, <1>7 DEF Balanced, Received, Typed
<1>9. AccountedFor'
  <2>1. PICK S : S = DOMAIN grants
    OBVIOUS
  <2>2. TotalOf(grants', S \cup {id}) = TotalOf(grants, S) + x
    BY <1>1, <1>3, <2>1, GiftsAmounting, GrownAdds
  <2>3. /\ TotalOf(grants, S) \in Nat
        /\ TotalOf(treasuryContributions, DOMAIN treasuryContributions) \in Nat
    BY <2>1, GiftsAmounting, TotalNumber
  <2> QED
    BY <1>3, <1>5, <1>7, <2>1, <2>2, <2>3 DEF AccountedFor, Received
<1>10. DonorBook(a)'
  <2>1. PICK S : S = GrantsOf(a)
    OBVIOUS
  <2>2. S \in SUBSET DOMAIN grants /\ id \notin S
    BY <1>6, <2>1
  <2>3. TotalOf(grants', S \cup {id}) = TotalOf(grants, S) + x
    BY <1>1, <1>3, <2>2, GiftsAmounting, GrownAdds
  <2>4. IsFiniteSet(S)
    BY <2>2, GiftsAmounting
  <2>5. Cardinality(S \cup {id}) = Cardinality(S) + 1
    BY <2>2, <2>4, FS_AddElement
  <2>6. DonorBook(a)
    BY <1>4, <1>7
  <2> QED
    BY <1>4, <1>6, <2>1, <2>3, <2>5, <2>6 DEF DonorBook
<1>11. ASSUME NEW d \in DOMAIN donors, d # a PROVE DonorBook(d)'
  <2>1. GrantsOf(d)' = GrantsOf(d) /\ donors'[d] = donors[d]
    BY <1>4, <1>6, <1>11
  <2>2. TotalOf(grants', GrantsOf(d)) = TotalOf(grants, GrantsOf(d))
    BY <1>3, <1>6, GrownKeeps
  <2>3. DonorBook(d)
    BY <1>7
  <2> QED
    BY <2>1, <2>2, <2>3 DEF DonorBook
<1> QED
  BY <1>4, <1>8, <1>9, <1>10, <1>11, GiftsAreThose

LEMMA GiftsRegistered ==
    ASSUME Typed, GiftsAddUp, RegisterDonor PROVE GiftsAddUp'
<1>1. UNCHANGED <<treasury, treasuryContributions, grants>> /\ CITIZEN \notin DOMAIN donors
  BY DEF RegisterDonor
<1>2. /\ DOMAIN donors' = DOMAIN donors \cup {CITIZEN}
      /\ donors'[CITIZEN].totalContributed = 0 /\ donors'[CITIZEN].grantsMade = 0
      /\ \A d \in DOMAIN donors : donors'[d] = donors[d]
  BY <1>1 DEF RegisterDonor, Put
<1>3. Balanced /\ AccountedFor /\ \A d \in DOMAIN donors : DonorBook(d)
  BY GiftsAreThose
<1>4. GrantsOf(CITIZEN)' = {}
  BY <1>1 DEF Typed, GrantLinks, GrantsOf
<1>5. DonorBook(CITIZEN)'
  <2>1. TotalOf(grants', {}) = 0 /\ Cardinality({}) = 0
    BY TotalOfNone, FS_EmptySet
  <2> QED
    BY <1>2, <1>4, <2>1 DEF DonorBook
<1>6. \A d \in DOMAIN donors : DonorBook(d)'
  BY <1>1, <1>2, <1>3 DEF DonorBook, GrantsOf
<1>7. Balanced' /\ AccountedFor'
  BY <1>1, <1>3 DEF Balanced, AccountedFor
<1> QED
  BY <1>2, <1>5, <1>6, <1>7, GiftsAreThose

LEMMA GiftsPaidOut ==
    ASSUME Typed, GiftsAddUp, NEW id \in DOMAIN proposals, PotPays(id),
           UNCHANGED <<treasuryContributions, donors, grants>>
    PROVE  GiftsAddUp'
<1>1. Balanced /\ AccountedFor /\ \A d \in DOMAIN donors : DonorBook(d)
  BY GiftsAreThose
<1>2. PICK x \in Nat : x = proposals[id].amount
  BY Entries DEF DemoProposal
<1>3. /\ treasury'.potBalance = treasury.potBalance - x
      /\ treasury'.totalDisbursed = treasury.totalDisbursed + x
      /\ treasury'.totalReceived = treasury.totalReceived
  BY <1>2 DEF PotPays
<1>4. Balanced' /\ AccountedFor'
  BY <1>1, <1>2, <1>3 DEF Balanced, AccountedFor, Typed
<1>5. \A d \in DOMAIN donors' : DonorBook(d)'
  BY <1>1 DEF DonorBook, GrantsOf
<1> QED
  BY <1>4, <1>5, GiftsAreThose

LEMMA GiftsSame ==
    ASSUME GiftsAddUp, UNCHANGED poolVars PROVE GiftsAddUp'
BY DEF GiftsAddUp, poolVars

-----------------------------------------------------------------------------
\* The totals of a few entries.
LEMMA TotalAdds ==
    ASSUME NEW f, NEW S, Amounting(f, S), NEW x, x \notin S, NEW T, T = S \cup {x},
           NEW n \in Nat, n = AmountOf(f, x)
    PROVE  TotalOf(f, T) = TotalOf(f, S) + n /\ Amounting(f, T)
<1>1. Amounting(f, T)
  <2>1. IsFiniteSet(T)
    BY FS_AddElement DEF Amounting
  <2> QED
    BY <2>1 DEF Amounting
<1>2. SameAmounts(f, f, S)
  BY DEF SameAmounts
<1> QED
  BY <1>1, <1>2, TotalOneMore

LEMMA TotalOfTwo ==
    ASSUME NEW f, NEW a, NEW b, a # b, NEW x \in Nat, NEW y \in Nat,
           x = AmountOf(f, a), y = AmountOf(f, b), NEW T, T = {a, b}
    PROVE  TotalOf(f, T) = x + y /\ Amounting(f, T)
<1>1. PICK N, S : N = {} /\ S = {a}
  OBVIOUS
<1>2. Amounting(f, N) /\ TotalOf(f, N) = 0 /\ a \notin N /\ S = N \cup {a}
  BY <1>1, TotalOfNone, FS_EmptySet DEF Amounting
<1>3. TotalOf(f, S) = TotalOf(f, N) + x /\ Amounting(f, S)
  BY <1>2, TotalAdds
<1>4. b \notin S /\ T = S \cup {b}
  BY <1>1
<1>5. TotalOf(f, T) = TotalOf(f, S) + y /\ Amounting(f, T)
  BY <1>3, <1>4, TotalAdds
<1> QED
  BY <1>2, <1>3, <1>5

LEMMA TotalOfThree ==
    ASSUME NEW f, NEW a, NEW b, NEW c, a # b, a # c, b # c,
           NEW x \in Nat, NEW y \in Nat, NEW z \in Nat,
           x = AmountOf(f, a), y = AmountOf(f, b), z = AmountOf(f, c), NEW T, T = {a, b, c}
    PROVE  TotalOf(f, T) = x + y + z
<1>1. PICK S : S = {a, b}
  OBVIOUS
<1>2. TotalOf(f, S) = x + y /\ Amounting(f, S)
  BY <1>1, TotalOfTwo
<1>3. c \notin S /\ T = S \cup {c}
  BY <1>1
<1>4. TotalOf(f, T) = TotalOf(f, S) + z
  BY <1>2, <1>3, TotalAdds
<1> QED
  BY <1>2, <1>4

\* What the seeds add up to.
LEMMA SeedTotals ==
    /\ SeedAmount(FundedSeeds) = 247
    /\ TotalOf(createDemoGrants, 0 .. 2) = 618
    /\ TotalOf(createDemoTreasuryContributions, 0 .. 1) = 67
    /\ TotalOf(createDemoSpendingReceipts, {<<0, 0>>, <<0, 1>>, <<0, 2>>}) = 172
    /\ TotalOf(createDemoSpendingReceipts, {<<1, 3>>, <<1, 4>>}) = 54
<1>1. TotalOf(createDemoProposals, {0, 1}) = 247
  <2>1. PICK f, a, b : f = createDemoProposals /\ a = 0 /\ b = 1
    OBVIOUS
  <2>2. PICK x \in Nat, y \in Nat : x = 185 /\ y = 62
    OBVIOUS
  <2>3. a # b /\ x = AmountOf(f, a) /\ y = AmountOf(f, b)
    BY <2>1, <2>2, PayoutTable DEF AmountOf
  <2>4. PICK T : T = {a, b}
    OBVIOUS
  <2>5. TotalOf(f, T) = x + y
    BY <2>3, <2>4, TotalOfTwo
  <2> QED
    BY <2>1, <2>2, <2>4, <2>5
<1>2. TotalOf(createDemoGrants, 0 .. 2) = 618
  <2>1. PICK f, a, b, c : f = createDemoGrants /\ a = 0 /\ b = 1 /\ c = 2
    OBVIOUS
  <2>2. PICK x \in Nat, y \in Nat, z \in Nat : x = 500 /\ y = 100 /\ z = 18
    OBVIOUS
  <2>3. a # b /\ a # c /\ b # c /\ x = AmountOf(f, a) /\ y = AmountOf(f, b) /\ z = AmountOf(f, c)
    BY <2>1, <2>2, IncomeTable DEF AmountOf
  <2>4. PICK T : T = {a, b, c}
    OBVIOUS
  <2>5. TotalOf(f, T) = x + y + z
    BY <2>3, <2>4, TotalOfThree
  <2>6. T = 0 .. 2
    BY <2>1, <2>4
  <2> QED
    BY <2>1, <2>2, <2>5, <2>6
<1>3. TotalOf(createDemoTreasuryContributions, 0 .. 1) = 67
  <2>1. PICK f, a, b : f = createDemoTreasuryContributions /\ a = 0 /\ b = 1
    OBVIOUS
  <2>2. PICK x \in Nat, y \in Nat : x = 45 /\ y = 22
    OBVIOUS
  <2>3. a # b /\ x = AmountOf(f, a) /\ y = AmountOf(f, b)
    BY <2>1, <2>2, IncomeTable DEF AmountOf
  <2>4. PICK T : T = {a, b}
    OBVIOUS
  <2>5. TotalOf(f, T) = x + y
    BY <2>3, <2>4, TotalOfTwo
  <2>6. T = 0 .. 1
    BY <2>1, <2>4
  <2> QED
    BY <2>1, <2>2, <2>5, <2>6
<1>4. TotalOf(createDemoSpendingReceipts, {<<0, 0>>, <<0, 1>>, <<0, 2>>}) = 172
  <2>1. PICK f, a, b, c : /\ f = createDemoSpendingReceipts
                          /\ a = <<0, 0>> /\ b = <<0, 1>> /\ c = <<0, 2>>
    OBVIOUS
  <2>2. PICK x \in Nat, y \in Nat, z \in Nat : x = 92 /\ y = 68 /\ z = 12
    OBVIOUS
  <2>3. a # b /\ a # c /\ b # c
    BY <2>1
  <2>4. x = AmountOf(f, a) /\ y = AmountOf(f, b) /\ z = AmountOf(f, c)
    BY <2>1, <2>2, ReceiptTable DEF AmountOf
  <2>5. PICK T : T = {a, b, c}
    OBVIOUS
  <2>6. TotalOf(f, T) = x + y + z
    BY <2>3, <2>4, <2>5, TotalOfThree
  <2> QED
    BY <2>1, <2>2, <2>5, <2>6
<1>5. TotalOf(createDemoSpendingReceipts, {<<1, 3>>, <<1, 4>>}) = 54
  <2>1. PICK f, a, b : f = createDemoSpendingReceipts /\ a = <<1, 3>> /\ b = <<1, 4>>
    OBVIOUS
  <2>2. PICK x \in Nat, y \in Nat : x = 24 /\ y = 30
    OBVIOUS
  <2>3. a # b /\ x = AmountOf(f, a) /\ y = AmountOf(f, b)
    BY <2>1, <2>2, ReceiptTable DEF AmountOf
  <2>4. PICK T : T = {a, b}
    OBVIOUS
  <2>5. TotalOf(f, T) = x + y
    BY <2>3, <2>4, TotalOfTwo
  <2> QED
    BY <2>1, <2>2, <2>4, <2>5
<1>6. SeedAmount(FundedSeeds) = TotalOf(createDemoProposals, {0, 1})
  BY PayoutTable DEF SeedAmount, TotalOf
<1> QED
  BY <1>1, <1>2, <1>3, <1>4, <1>5, <1>6

LEMMA GiftsInit == DemoInit => GiftsAddUp
<1> SUFFICES ASSUME DemoInit PROVE Balanced /\ AccountedFor /\ \A d \in DOMAIN donors : DonorBook(d)
  BY GiftsAreThose
<1>1. /\ treasury.potBalance = 438 /\ treasury.totalDisbursed = SeedAmount(FundedSeeds)
      /\ treasury.totalReceived = SeedAmount(FundedSeeds) + 438
      /\ grants = createDemoGrants /\ treasuryContributions = createDemoTreasuryContributions
      /\ donors = createDemoDonors
  BY DEF DemoInit, createDemoTreasury
<1>2. DOMAIN grants = 0 .. 2 /\ DOMAIN treasuryContributions = 0 .. 1
  BY <1>1, IncomeTable
<1>3. Balanced
  BY <1>1, SeedTotals DEF Balanced
<1>4. AccountedFor
  BY <1>1, <1>2, SeedTotals DEF AccountedFor
<1>5. ASSUME NEW d \in DOMAIN donors PROVE DonorBook(d)
  <2>1. PICK given : given = {id \in 0 .. 2 : GrantSeeds[id + 1].donor = d}
    OBVIOUS
  <2>2. /\ donors[d].totalContributed = SumFunction([id \in given |-> GrantSeeds[id + 1].amount])
        /\ donors[d].grantsMade = Cardinality(given)
    BY <1>1, <2>1, SeedIds DEF createDemoDonors
  <2>3. \A g \in 0 .. 2 : grants[g] = GrantSeeds[g + 1]
    BY <1>1, IncomeTable
  <2>4. GrantsOf(d) = given
    BY <1>2, <2>1, <2>3 DEF GrantsOf
  <2>5. [id \in given |-> GrantSeeds[id + 1].amount] = [id \in given |-> grants[id].amount]
    BY <2>1, <2>3
  <2> QED
    BY <2>2, <2>4, <2>5 DEF DonorBook, TotalOf
<1> QED
  BY <1>3, <1>4, <1>5

-----------------------------------------------------------------------------
\* The receipts.

\* A receipt is of a proposal that is there: a proposal that is submitted has none.
ReceiptLinks == \A k \in DOMAIN spendingReceipts : k[1] \in DOMAIN proposals

\* What DemoReceiptsCovered says of one proposal.
Covered(id) ==
    ReceiptsOf(id) # {} =>
        /\ id \in Funded
        /\ TotalOf(spendingReceipts, ReceiptsOf(id)) <= proposals[id].amount
        /\ \A k \in ReceiptsOf(id) : spendingReceipts[k].vendor = proposals[id].vendor

LEMMA CoveredAreThose ==
    /\ DemoReceiptsCovered <=> \A id \in DOMAIN proposals : Covered(id)
    /\ DemoReceiptsCovered' <=> \A id \in DOMAIN proposals' : Covered(id)'
BY DEF DemoReceiptsCovered, Covered, Receipted, TotalOf

\* What keeps the books balanced.
BooksInv == Typed /\ DemoBooksBalance /\ ReceiptLinks

\* A proposal that is funded stays so, with its amount and its vendor.
FundedStay ==
    /\ DOMAIN proposals \subseteq DOMAIN proposals'
    /\ \A id \in Funded : id \in Funded' /\ SameTerms(proposals[id], proposals'[id])

LEMMA NothingMarkedStays ==
    ASSUME NothingMarked, DOMAIN proposals \subseteq DOMAIN proposals' PROVE FundedStay
BY DEF NothingMarked, FundedStay

LEMMA MarkedStays ==
    ASSUME Typed, NEW id, NEW q, MarkedFunded(id, q) PROVE FundedStay
<1>1. PICK v, x : v = proposals[id].vendor /\ x = proposals[id].amount
  OBVIOUS
<1>2. /\ Funded' = Funded \cup {id} /\ DOMAIN proposals' = DOMAIN proposals
      /\ \A k \in DOMAIN proposals : SameTerms(proposals[k], proposals'[k])
  BY <1>1, MarkedMore
<1> QED
  BY <1>2 DEF FundedStay, Funded

LEMMA ReceiptsKept ==
    ASSUME DemoReceiptsCovered, ReceiptLinks, FundedStay, UNCHANGED spendingReceipts
    PROVE  DemoReceiptsCovered' /\ ReceiptLinks'
<1>1. ReceiptLinks'
  BY DEF ReceiptLinks, FundedStay
<1>2. ASSUME NEW id \in DOMAIN proposals' PROVE Covered(id)'
  <2>1. ReceiptsOf(id)' = ReceiptsOf(id)
    BY DEF ReceiptsOf
  <2>2. CASE ReceiptsOf(id) = {}
    BY <2>1, <2>2 DEF Covered
  <2>3. CASE ReceiptsOf(id) # {}
    <3>1. id \in DOMAIN proposals
      BY <2>3 DEF ReceiptsOf, ReceiptLinks
    <3>2. Covered(id)
      BY <3>1, CoveredAreThose
    <3>3. id \in Funded' /\ SameTerms(proposals[id], proposals'[id])
      BY <2>3, <3>2 DEF Covered, FundedStay
    <3> QED
      BY <2>1, <2>3, <3>2, <3>3 DEF Covered, SameTerms
  <2> QED
    BY <2>2, <2>3
<1> QED
  BY <1>1, <1>2, CoveredAreThose

LEMMA ReceiptsAmounting ==
    ASSUME Typed, NEW S \in SUBSET DOMAIN spendingReceipts
    PROVE  Amounting(spendingReceipts, S)
<1>1. IsFiniteSet(S)
  BY Finite, FS_Subset
<1> QED
  BY <1>1, Entries DEF Amounting, AmountOf, DemoReceipt

LEMMA ReceiptCovered ==
    ASSUME Typed, DemoReceiptsCovered, ReceiptLinks, NEW k, NEW r, Receipts(k, r)
    PROVE  DemoReceiptsCovered' /\ ReceiptLinks'
<1>1. PICK id, x, a : id = k[1] /\ x = r.amount /\ a = proposals[id].amount
  OBVIOUS
<1>2. /\ k \notin DOMAIN spendingReceipts /\ r \in DemoReceipt
      /\ id \in DOMAIN proposals /\ proposals[id].status = "Funded"
      /\ r.vendor = proposals[id].vendor /\ x <= Remaining(id)
      /\ spendingReceipts' = Put(spendingReceipts, k, r)
      /\ UNCHANGED proposals
  BY <1>1 DEF Receipts, Receipted1, votingVars
<1>3. x \in Nat /\ a \in Nat
  BY <1>1, <1>2, Entries DEF DemoReceipt, DemoProposal
<1>4. /\ DOMAIN spendingReceipts' = DOMAIN spendingReceipts \cup {k}
      /\ spendingReceipts'[k] = r
      /\ \A j \in DOMAIN spendingReceipts : spendingReceipts'[j] = spendingReceipts[j]
  BY <1>2 DEF Put
<1>5. /\ ReceiptsOf(id)' = ReceiptsOf(id) \cup {k}
      /\ \A y : y # id => ReceiptsOf(y)' = ReceiptsOf(y)
      /\ \A y : ReceiptsOf(y) \in SUBSET DOMAIN spendingReceipts
  BY <1>1, <1>4 DEF ReceiptsOf
<1>6. ReceiptLinks'
  BY <1>1, <1>2, <1>4 DEF ReceiptLinks
<1>7. Funded' = Funded /\ id \in Funded
  BY <1>2 DEF Funded
<1>8. Covered(id)'
  <2>1. PICK S : S = ReceiptsOf(id)
    OBVIOUS
  <2>2. Amounting(spendingReceipts, S) /\ S \subseteq DOMAIN spendingReceipts
    BY <1>5, <2>1, ReceiptsAmounting
  <2>3. TotalOf(spendingReceipts', S \cup {k}) = TotalOf(spendingReceipts, S) + x
    BY <1>1, <1>2, <1>3, <2>2, TotalOfPut
  <2>4. Remaining(id) = a - TotalOf(spendingReceipts, S)
    BY <1>1, <2>1 DEF Remaining, Receipted, TotalOf
  <2>5. TotalOf(spendingReceipts, S) \in Nat
    BY <2>2, TotalNumber
  <2>6. TotalOf(spendingReceipts', S \cup {k}) <= a
    BY <1>2, <1>3, <2>3, <2>4, <2>5
  <2>7. \A j \in S : spendingReceipts[j].vendor = proposals[id].vendor
    BY <1>2, <2>1, CoveredAreThose DEF Covered
  <2>8. \A j \in S \cup {k} : spendingReceipts'[j].vendor = proposals[id].vendor
    BY <1>2, <1>4, <2>2, <2>7
  <2> QED
    BY <1>1, <1>2, <1>5, <1>7, <2>1, <2>6, <2>8 DEF Covered
<1>9. ASSUME NEW y \in DOMAIN proposals, y # id PROVE Covered(y)'
  <2>1. ReceiptsOf(y)' = ReceiptsOf(y) /\ ReceiptsOf(y) \in SUBSET DOMAIN spendingReceipts
    BY <1>5, <1>9
  <2>2. SameAmounts(spendingReceipts, spendingReceipts', ReceiptsOf(y))
    BY <1>4, <2>1 DEF SameAmounts
  <2>3. TotalOf(spendingReceipts', ReceiptsOf(y)) = TotalOf(spendingReceipts, ReceiptsOf(y))
    BY <2>2, TotalSame
  <2>4. Covered(y)
    BY CoveredAreThose
  <2> QED
    BY <1>2, <1>4, <1>7, <2>1, <2>3, <2>4 DEF Covered
<1> QED
  BY <1>2, <1>6, <1>8, <1>9, CoveredAreThose

LEMMA ReceiptsInit == DemoInit => DemoReceiptsCovered /\ ReceiptLinks
<1> SUFFICES ASSUME DemoInit PROVE (\A id \in DOMAIN proposals : Covered(id)) /\ ReceiptLinks
  BY CoveredAreThose
<1>1. /\ spendingReceipts = createDemoSpendingReceipts /\ proposals = createDemoProposals
      /\ DOMAIN proposals = 0 .. 9
  BY ProposalTable DEF DemoInit
<1>2. DOMAIN spendingReceipts = {<<0, 0>>, <<0, 1>>, <<0, 2>>, <<1, 3>>, <<1, 4>>}
  BY <1>1, ReceiptTable
<1>3. Funded = {0, 1}
  BY <1>1, PayoutTable, SeedIds DEF Funded, FundedSeeds
<1>4. /\ ReceiptsOf(0) = {<<0, 0>>, <<0, 1>>, <<0, 2>>}
      /\ ReceiptsOf(1) = {<<1, 3>>, <<1, 4>>}
      /\ \A id : id # 0 /\ id # 1 => ReceiptsOf(id) = {}
  BY <1>2 DEF ReceiptsOf
<1>5. \A k \in DOMAIN spendingReceipts : spendingReceipts[k].vendor = proposals[k[1]].vendor
  BY <1>1, ReceiptTable
<1>6. ASSUME NEW id \in DOMAIN proposals PROVE Covered(id)
  <2>1. \A k \in ReceiptsOf(id) : spendingReceipts[k].vendor = proposals[id].vendor
    BY <1>5 DEF ReceiptsOf
  <2>2. CASE id = 0
    <3>1. TotalOf(spendingReceipts, ReceiptsOf(0)) = 172
      BY <1>1, <1>4, SeedTotals
    <3>2. proposals[0].amount = 185
      BY <1>1, PayoutTable
    <3> QED
      BY <1>3, <2>1, <2>2, <3>1, <3>2 DEF Covered
  <2>3. CASE id = 1
    <3>1. TotalOf(spendingReceipts, ReceiptsOf(1)) = 54
      BY <1>1, <1>4, SeedTotals
    <3>2. proposals[1].amount = 62
      BY <1>1, PayoutTable
    <3> QED
      BY <1>3, <2>1, <2>3, <3>1, <3>2 DEF Covered
  <2>4. CASE id # 0 /\ id # 1
    BY <1>4, <2>4 DEF Covered
  <2> QED
    BY <2>2, <2>3, <2>4
<1>7. ReceiptLinks
  BY <1>1, <1>2 DEF ReceiptLinks
<1> QED
  BY <1>6, <1>7

LEMMA BooksInit == DemoInit => BooksInv
BY InitTyped, GiftsInit, ReceiptsInit DEF BooksInv, DemoBooksBalance

LEMMA BooksNext == BooksInv /\ [DemoNext]_demoVars => BooksInv'
<1> SUFFICES ASSUME BooksInv, [DemoNext]_demoVars PROVE BooksInv'
  OBVIOUS
<1>1. Typed /\ GiftsAddUp /\ DemoReceiptsCovered /\ ReceiptLinks /\ Typed'
  BY NextTyped DEF BooksInv, DemoBooksBalance
<1>2. ASSUME NEW id, NEW q, Submits(id, q) \/ Vets(id, q) \/ Counts(id, q) \/ Closes(id, q)
      PROVE  GiftsAddUp' /\ DemoReceiptsCovered' /\ ReceiptLinks'
  <2>1. NothingMarked /\ UNCHANGED spendingReceipts
    BY <1>1, <1>2, StatusStepMarksNothing
  <2>2. UNCHANGED poolVars
    BY <1>2 DEF Submits, Vets, Counts, Closes
  <2>3. DOMAIN proposals \subseteq DOMAIN proposals'
    BY <1>2 DEF Submits, Vets, Counts, Closes, Submitted, Grown, Vetted, Counted, Closed, Becomes
  <2>4. FundedStay
    BY <2>1, <2>3, NothingMarkedStays
  <2> QED
    BY <1>1, <2>1, <2>2, <2>4, GiftsSame, ReceiptsKept
<1>3. ASSUME UNCHANGED <<proposals, spendingReceipts>>
      PROVE  DemoReceiptsCovered' /\ ReceiptLinks'
  <2>1. FundedStay
    BY <1>3 DEF FundedStay, Funded, SameTerms
  <2> QED
    BY <1>1, <1>3, <2>1, ReceiptsKept
<1>4. ASSUME NEW id \in DOMAIN proposals, PaidOut(id)
      PROVE  GiftsAddUp' /\ DemoReceiptsCovered' /\ ReceiptLinks'
  <2>1. UNCHANGED <<treasuryContributions, donors, grants>> /\ UNCHANGED spendingReceipts
    BY <1>4 DEF PaidOut, profileVars
  <2>2. UNCHANGED treasury \/ PotPays(id)
    BY <1>4 DEF PaidOut
  <2>3. GiftsAddUp'
    BY <1>1, <2>1, <2>2, GiftsPaidOut, GiftsSame DEF poolVars
  <2>4. ASSUME UNCHANGED proposals PROVE DemoReceiptsCovered' /\ ReceiptLinks'
    BY <1>3, <2>1, <2>4
  <2>5. ASSUME NEW q, MarkedFunded(id, q) PROVE DemoReceiptsCovered' /\ ReceiptLinks'
    <3>1. FundedStay
      BY <1>1, <2>5, MarkedStays
    <3> QED
      BY <1>1, <2>1, <3>1, ReceiptsKept
  <2> QED
    BY <1>4, <2>3, <2>4, <2>5 DEF PaidOut, Marked
<1>5. ASSUME ProposalStep
      PROVE  GiftsAddUp' /\ DemoReceiptsCovered' /\ ReceiptLinks'
  BY <1>2, <1>4, <1>5 DEF ProposalStep
<1>6. ASSUME IncomeStep
      PROVE  GiftsAddUp' /\ DemoReceiptsCovered' /\ ReceiptLinks'
  <2>1. UNCHANGED <<proposals, spendingReceipts>>
    BY <1>6 DEF IncomeStep, Contributes, RegisterDonor, Gives, votingVars, profileVars
  <2>2. GiftsAddUp'
    BY <1>1, <1>6, GiftsContributed, GiftsGiven, GiftsRegistered DEF IncomeStep, Contributes, Gives
  <2> QED
    BY <1>3, <2>1, <2>2
<1>7. ASSUME UNCHANGED poolVars /\ UNCHANGED <<proposals, spendingReceipts>>
      PROVE  GiftsAddUp' /\ DemoReceiptsCovered' /\ ReceiptLinks'
  BY <1>1, <1>3, <1>7, GiftsSame
<1>8. ProfileStep \/ UNCHANGED demoVars \/ (\E category \in Categories : RegisterVendor(category))
      => UNCHANGED poolVars /\ UNCHANGED <<proposals, spendingReceipts>>
  BY DEF ProfileStep, demoVars, votingVars, RegisterVendor, profileVars
<1>9. ASSUME NEW k, NEW r, Receipts(k, r) PROVE GiftsAddUp' /\ DemoReceiptsCovered' /\ ReceiptLinks'
  <2>1. UNCHANGED poolVars
    BY <1>9 DEF Receipts
  <2> QED
    BY <1>1, <1>9, <2>1, GiftsSame, ReceiptCovered
<1>10. GiftsAddUp' /\ DemoReceiptsCovered' /\ ReceiptLinks'
  BY <1>1, <1>5, <1>6, <1>7, <1>8, <1>9, StepKinds DEF StepKind
<1> QED
  BY <1>1, <1>10 DEF BooksInv, DemoBooksBalance

\* The pot and the payouts add up to what was received, that to the
\* contributions and the grants, each donor's totals to its grants, and the
\* receipts of a payout to no more than its amount.
THEOREM DemoBooksHold == DemoSpec => []DemoBooksBalance
<1>1. BooksInv => DemoBooksBalance
  BY DEF BooksInv
<1> QED
  BY <1>1, BooksInit, BooksNext, PTL DEF DemoSpec

-----------------------------------------------------------------------------
\* The views: what the ledger page and the dashboard add up.

ViewsInv == VendorsInv /\ BooksInv

\* The rows that carry money, and those of how a proposal ended.
GrantRow(g) == Row(grants[g].submittedAt, "GrantSubmitted", g, grants[g].amount, grants[g].donor)
GiftRow(c) ==
    Row(treasuryContributions[c].block, "TreasuryContribution", c, treasuryContributions[c].amount,
        treasuryContributions[c].from)
PayoutRow(id) ==
    Row(proposals[id].votingEnd, "ProposalFunded", id, proposals[id].amount, proposals[id].vendor)

LEMMA RowFields ==
    ASSUME NEW b, NEW t, NEW k, NEW x, NEW a
    PROVE  /\ Row(b, t, k, x, a).type = t /\ Row(b, t, k, x, a).key = k
           /\ Row(b, t, k, x, a).amount = x /\ Row(b, t, k, x, a).block = b
BY DEF Row

LEMMA MoneyRowFields ==
    /\ \A g : GrantRow(g).type = "GrantSubmitted" /\ GrantRow(g).key = g
              /\ GrantRow(g).amount = grants[g].amount /\ GrantRow(g).block = grants[g].submittedAt
    /\ \A c : GiftRow(c).type = "TreasuryContribution" /\ GiftRow(c).key = c
              /\ GiftRow(c).amount = treasuryContributions[c].amount
              /\ GiftRow(c).block = treasuryContributions[c].block
    /\ \A id : PayoutRow(id).type = "ProposalFunded" /\ PayoutRow(id).key = id
               /\ PayoutRow(id).amount = proposals[id].amount
               /\ PayoutRow(id).block = proposals[id].votingEnd
BY RowFields DEF GrantRow, GiftRow, PayoutRow

\* Of how a proposal ended, only a payout is a row with money.
LEMMA DecisionIsPayout ==
    ASSUME NEW id \in DOMAIN proposals
    PROVE  /\ \A r \in DecisionRows(proposals[id], id) :
                 \/ r = PayoutRow(id) /\ id \in Funded
                 \/ r.type \in {"ProposalRejected", "ProposalCancelled"}
           /\ id \in Funded => DecisionRows(proposals[id], id) = {PayoutRow(id)}
<1>1. CASE proposals[id].status = "Funded"
  <2>1. DecisionRows(proposals[id], id) = {PayoutRow(id)} /\ id \in Funded
    BY <1>1 DEF DecisionRows, PayoutRow, Funded
  <2> QED
    BY <2>1
<1>2. CASE proposals[id].status # "Funded"
  <2>1. \A r \in DecisionRows(proposals[id], id) : r.type \in {"ProposalRejected", "ProposalCancelled"}
    BY <1>2, RowFields DEF DecisionRows
  <2>2. id \notin Funded
    BY <1>2 DEF Funded
  <2> QED
    BY <2>1, <2>2
<1> QED
  BY <1>1, <1>2

\* The rows of these types in the ledger of these donors and grants.
OtherTypes ==
    {"VendorRegistered", "DonorRegistered", "ProposalSubmitted", "ProposalRejected",
     "ProposalCancelled"}

SubmittedRow(id) ==
    Row(proposals[id].createdAt, "ProposalSubmitted", id, proposals[id].amount,
        proposals[id].vendor)

LEMMA MoneyRows ==
    ASSUME NEW ds, NEW gs, gs = grants \/ gs = EmptyMap, NEW page,
           page = buildLedger(proposals, vendors, treasuryContributions, ds, gs)
    PROVE  /\ \A r \in page :
                 \/ r.type \in OtherTypes
                 \/ \E g \in DOMAIN gs : r = GrantRow(g)
                 \/ \E c \in DOMAIN treasuryContributions : r = GiftRow(c)
                 \/ \E id \in Funded : r = PayoutRow(id)
           /\ \A g \in DOMAIN gs : GrantRow(g) \in page
           /\ \A c \in DOMAIN treasuryContributions : GiftRow(c) \in page
           /\ \A id \in Funded : PayoutRow(id) \in page
<1>p. PICK ps, vs, cs : ps = proposals /\ vs = vendors /\ cs = treasuryContributions
  OBVIOUS
<1> DEFINE
      A == {Row(vs[a].registeredAt, "VendorRegistered", a, NoAmount, a) : a \in DOMAIN vs}
      B == {Row(ds[a].registeredAt, "DonorRegistered", a, NoAmount, a) : a \in DOMAIN ds}
      G == {Row(gs[g].submittedAt, "GrantSubmitted", g, gs[g].amount, gs[g].donor)
              : g \in DOMAIN gs}
      D == UNION {{Row(ps[id].createdAt, "ProposalSubmitted", id, ps[id].amount,
                       ps[id].vendor)} \cup DecisionRows(ps[id], id) : id \in DOMAIN ps}
      C == {Row(cs[c].block, "TreasuryContribution", c, cs[c].amount, cs[c].from)
              : c \in DOMAIN cs}
<1>1. page = A \cup B \cup G \cup D \cup C
  <2>1. buildLedger(ps, vs, cs, ds, gs) = A \cup B \cup G \cup D \cup C
    BY DEF buildLedger
  <2> HIDE DEF A, B, G, D, C
  <2> QED
    BY <1>p, <2>1
<1>2. /\ \A r \in A : r.type = "VendorRegistered"
      /\ \A r \in B : r.type = "DonorRegistered"
      /\ \A id : SubmittedRow(id).type = "ProposalSubmitted"
  BY RowFields DEF SubmittedRow
<1>3. G = {GrantRow(g) : g \in DOMAIN gs}
  <2>1. CASE gs = grants
    BY <2>1 DEF GrantRow
  <2>2. CASE gs # grants
    BY <2>2 DEF EmptyMap
  <2> QED
    BY <2>1, <2>2
<1>4. C = {GiftRow(c) : c \in DOMAIN treasuryContributions}
  BY <1>p DEF GiftRow
<1>5. /\ \A r \in D : \E id \in DOMAIN proposals :
             r = SubmittedRow(id) \/ r \in DecisionRows(proposals[id], id)
      /\ \A id \in DOMAIN proposals : DecisionRows(proposals[id], id) \subseteq D
  BY <1>p DEF SubmittedRow
<1> HIDE DEF A, B, G, D, C
<1>6. \A r \in D : r.type \in OtherTypes \/ \E id \in Funded : r = PayoutRow(id)
  BY <1>2, <1>5, DecisionIsPayout DEF OtherTypes
<1>7. \A id \in Funded : PayoutRow(id) \in D
  BY <1>5, DecisionIsPayout DEF Funded
<1>8. \A r \in A \cup B : r.type \in OtherTypes
  BY <1>2 DEF OtherTypes
<1> QED
  BY <1>1, <1>3, <1>4, <1>6, <1>7, <1>8

\* The page's rows of the types that the totals are of.
RowsOfType(page, types) == {r \in page : r.type \in types}

LEMMA RowsOfTypes ==
    ASSUME NEW ds, NEW gs, gs = grants \/ gs = EmptyMap, NEW page,
           page = buildLedger(proposals, vendors, treasuryContributions, ds, gs)
    PROVE  /\ RowsOfType(page, {"ProposalFunded"}) = {PayoutRow(id) : id \in Funded}
           /\ RowsOfType(page, {"TreasuryContribution"})
                  = {GiftRow(c) : c \in DOMAIN treasuryContributions}
           /\ RowsOfType(page, IncomeTypes)
                  = {GrantRow(g) : g \in DOMAIN gs} \cup {GiftRow(c) : c \in DOMAIN treasuryContributions}
<1>1. /\ \A r \in page :
             \/ r.type \in OtherTypes
             \/ \E g \in DOMAIN gs : r = GrantRow(g)
             \/ \E c \in DOMAIN treasuryContributions : r = GiftRow(c)
             \/ \E id \in Funded : r = PayoutRow(id)
      /\ \A g \in DOMAIN gs : GrantRow(g) \in page
      /\ \A c \in DOMAIN treasuryContributions : GiftRow(c) \in page
      /\ \A id \in Funded : PayoutRow(id) \in page
  BY MoneyRows
<1> USE MoneyRowFields DEF RowsOfType, OtherTypes, IncomeTypes
<1>2. RowsOfType(page, {"ProposalFunded"}) = {PayoutRow(id) : id \in Funded}
  BY <1>1
<1>3. RowsOfType(page, {"TreasuryContribution"}) = {GiftRow(c) : c \in DOMAIN treasuryContributions}
  BY <1>1
<1>4. RowsOfType(page, IncomeTypes)
      = {GrantRow(g) : g \in DOMAIN gs} \cup {GiftRow(c) : c \in DOMAIN treasuryContributions}
  BY <1>1
<1> QED
  BY <1>2, <1>3, <1>4

RowsAmount(rows) == SumFunction([r \in rows |-> r.amount])

\* The rows with the amounts of a map's records add up to what the records do.
RowsFor(f, S, row, rows) ==
    /\ DOMAIN row = S /\ rows = {row[k] : k \in S}
    /\ \A k \in S : row[k].key = k /\ row[k].amount = f[k].amount

MoneyIn(rows, x) ==
    RowsAmount(rows) = x /\ IsFiniteSet(rows) /\ \A r \in rows : r.amount \in Nat

LEMMA RowsAmountIs ==
    ASSUME NEW f, NEW S, Amounting(f, S), NEW row, NEW rows, RowsFor(f, S, row, rows)
    PROVE  MoneyIn(rows, TotalOf(f, S))
<1> USE DEF RowsFor
<1>1. PICK it \in Surjection(S, rows) : it = [k \in S |-> row[k]]
  <2>1. PICK it : it = [k \in S |-> row[k]]
    OBVIOUS
  <2>2. /\ it \in [S -> rows] /\ \A k \in S : it[k] = row[k]
        /\ \A r \in rows : \E k \in S : it[k] = r
    BY <2>1
  <2>3. it \in Surjection(S, rows)
    BY <2>2 DEF Surjection
  <2> QED
    BY <2>1, <2>3
<1>2. \A k \in S : it[k].key = k /\ it[k].amount = f[k].amount
  BY <1>1
<1>3. RowsAmount(rows) = TotalOf(f, S)
  BY <1>2, RowsAddUp DEF RowsAmount
<1>4. IsFiniteSet(rows)
  BY <1>1, FS_Surjection DEF Amounting
<1>5. \A r \in rows : r.amount \in Nat
  BY DEF Amounting, AmountOf
<1> QED
  BY <1>3, <1>4, <1>5 DEF MoneyIn

LEMMA PayoutRowsAmount ==
    ASSUME Typed, NEW rows, rows = {PayoutRow(id) : id \in Funded}
    PROVE  MoneyIn(rows, FundedAmount(Funded))
<1>1. PICK row : row = [id \in Funded |-> PayoutRow(id)]
  OBVIOUS
<1>2. RowsFor(proposals, Funded, row, rows)
  BY <1>1, MoneyRowFields DEF RowsFor
<1>3. Amounting(proposals, Funded)
  BY ProposalsAmounting, FundedAreProposals
<1> QED
  BY <1>2, <1>3, RowsAmountIs, FundedAmounts

LEMMA GiftRowsAmount ==
    ASSUME Typed, NEW rows, rows = {GiftRow(c) : c \in DOMAIN treasuryContributions}
    PROVE  MoneyIn(rows, TotalOf(treasuryContributions, DOMAIN treasuryContributions))
<1>1. PICK row : row = [c \in DOMAIN treasuryContributions |-> GiftRow(c)]
  OBVIOUS
<1>2. PICK S : S = DOMAIN treasuryContributions
  OBVIOUS
<1>3. RowsFor(treasuryContributions, S, row, rows)
  BY <1>1, <1>2, MoneyRowFields DEF RowsFor
<1>4. Amounting(treasuryContributions, S)
  <2>1. {} \in SUBSET DOMAIN grants
    OBVIOUS
  <2> QED
    BY <1>2, <2>1, GiftsAmounting
<1> QED
  BY <1>2, <1>3, <1>4, RowsAmountIs

LEMMA GrantRowsAmount ==
    ASSUME Typed, NEW rows, rows = {GrantRow(g) : g \in DOMAIN grants}
    PROVE  MoneyIn(rows, TotalOf(grants, DOMAIN grants))
<1>1. PICK row : row = [g \in DOMAIN grants |-> GrantRow(g)]
  OBVIOUS
<1>2. PICK S : S = DOMAIN grants
  OBVIOUS
<1>3. RowsFor(grants, S, row, rows)
  BY <1>1, <1>2, MoneyRowFields DEF RowsFor
<1>4. Amounting(grants, S)
  BY <1>2, GiftsAmounting
<1> QED
  BY <1>2, <1>3, <1>4, RowsAmountIs

\* The income rows are what the treasury says it received.
LEMMA IncomeRowsAmount ==
    ASSUME BooksInv, NEW rows, rows = RowsOfType(DemoLedgerPage, IncomeTypes)
    PROVE  RowsAmount(rows) = treasury.totalReceived
<1>1. PICK A, B : /\ A = {GrantRow(g) : g \in DOMAIN grants}
                  /\ B = {GiftRow(c) : c \in DOMAIN treasuryContributions}
  OBVIOUS
<1>2. rows = A \cup B
  <2>1. PICK ds, gs : ds = donors /\ gs = grants
    OBVIOUS
  <2> QED
    BY <1>1, <2>1, RowsOfTypes DEF DemoLedgerPage
<1>3. A \cap B = {}
  BY <1>1, MoneyRowFields
<1>4. /\ RowsAmount(A) = TotalOf(grants, DOMAIN grants)
      /\ IsFiniteSet(A) /\ \A r \in A : r.amount \in Nat
  BY <1>1, GrantRowsAmount DEF BooksInv, MoneyIn
<1>5. /\ RowsAmount(B) = TotalOf(treasuryContributions, DOMAIN treasuryContributions)
      /\ IsFiniteSet(B) /\ \A r \in B : r.amount \in Nat
  BY <1>1, GiftRowsAmount DEF BooksInv, MoneyIn
<1>6. PICK f \in [A -> Nat] : f = [r \in A |-> r.amount]
  BY <1>4
<1>7. PICK g \in [B -> Nat] : g = [r \in B |-> r.amount]
  BY <1>5
<1>8. PICK h \in [rows -> Nat] : h = [r \in rows |-> r.amount]
  BY <1>2, <1>4, <1>5
<1>9. AgreesOn(h, f, A) /\ AgreesOn(h, g, B)
  BY <1>2, <1>6, <1>7, <1>8 DEF AgreesOn
<1>10. SumFunction(h) = SumFunction(f) + SumFunction(g)
  <2>1. IsFiniteSet(A) /\ IsFiniteSet(B)
    BY <1>4, <1>5
  <2> QED
    BY <1>2, <1>3, <1>9, <2>1, SumOfParts
<1>11. AccountedFor
  BY GiftsAreThose DEF BooksInv, DemoBooksBalance
<1> QED
  BY <1>4, <1>5, <1>6, <1>7, <1>8, <1>10, <1>11 DEF RowsAmount, AccountedFor

\* The payouts, grouped by any key of theirs; K has no other keys.
Grouped(k) == [x \in {k[id] : id \in Funded} |-> {id \in Funded : k[id] = x}]
KeysOf(k, K) == k \in [Funded -> K] /\ K = {k[id] : id \in Funded}

LEMMA PayoutsGrouped ==
    ASSUME Typed, NEW K, NEW k, KeysOf(k, K)
    PROVE  ChartTotal(proposals, Grouped(k)) = FundedAmount(Funded)
<1>1. k \in [Funded -> K] /\ K = {k[id] : id \in Funded}
  BY DEF KeysOf
<1>2. Amounting(proposals, Funded)
  BY ProposalsAmounting, FundedAreProposals
<1>3. SumFunction(GroupTotals(proposals, k, Funded, K)) = TotalOf(proposals, Funded)
  BY <1>1, <1>2, GroupTotalsAddUp
<1>4. Grouped(k) = [x \in K |-> {id \in Funded : k[id] = x}]
  BY <1>1 DEF Grouped
<1>5. [x \in DOMAIN Grouped(k) |-> Worth(proposals, Grouped(k)[x])]
      = GroupTotals(proposals, k, Funded, K)
  BY <1>4 DEF Worth, GroupTotals, TotalOf
<1> QED
  BY <1>3, <1>5, FundedAmounts DEF ChartTotal

LEMMA FundedInIsFunded == FundedIn(proposals) = Funded
BY DEF FundedIn, Funded

LEMMA WardsChart ==
    ASSUME Typed PROVE ChartTotal(proposals, buildWardBreakdown(proposals)) = FundedAmount(Funded)
<1>1. PICK K : K = {proposals[id].ward : id \in Funded}
  OBVIOUS
<1>2. PICK k \in [Funded -> K] : k = [id \in Funded |-> proposals[id].ward]
  BY <1>1
<1>3. KeysOf(k, K)
  BY <1>1, <1>2 DEF KeysOf
<1>4. buildWardBreakdown(proposals) = Grouped(k)
  BY <1>1, <1>2, FundedInIsFunded DEF buildWardBreakdown, FundedBy, Grouped
<1> QED
  BY <1>3, <1>4, PayoutsGrouped

\* The category under which the page books a payout.
CategoryOf(id) ==
    IF proposals[id].vendor \in DOMAIN vendors THEN vendors[proposals[id].vendor].category
    ELSE "Other"

LEMMA CategoriesChart ==
    ASSUME Typed
    PROVE  ChartTotal(proposals, buildCategoryBreakdown(proposals, vendors)) = FundedAmount(Funded)
<1>1. PICK K : K = {CategoryOf(id) : id \in Funded}
  OBVIOUS
<1>2. PICK k \in [Funded -> K] : k = [id \in Funded |-> CategoryOf(id)]
  BY <1>1
<1>3. KeysOf(k, K)
  BY <1>1, <1>2 DEF KeysOf
<1>4. buildCategoryBreakdown(proposals, vendors)
      = [x \in {CategoryOf(id) : id \in Funded} |-> {id \in Funded : CategoryOf(id) = x}]
  BY FundedInIsFunded DEF buildCategoryBreakdown, FundedBy, CategoryOf
<1>5. \A x : {id \in Funded : CategoryOf(id) = x} = {id \in Funded : k[id] = x}
  BY <1>2
<1>6. buildCategoryBreakdown(proposals, vendors) = [x \in K |-> {id \in Funded : k[id] = x}]
  BY <1>1, <1>4, <1>5
<1>7. buildCategoryBreakdown(proposals, vendors) = Grouped(k)
  BY <1>3, <1>6 DEF Grouped, KeysOf
<1> QED
  BY <1>3, <1>7, PayoutsGrouped

\* A vendor's slice is the total that its profile shows.
SlicesAreProfiles(slices) ==
    \A a \in DOMAIN slices : Worth(proposals, slices[a].totalFunded) = vendors[a].totalReceived

LEMMA VendorsChart ==
    ASSUME VendorsInv PROVE SlicesAreProfiles(buildVendorBreakdown(proposals, vendors))
<1>1. PICK slices : slices = buildVendorBreakdown(proposals, vendors)
  OBVIOUS
<1>2. PICK payees : payees = {proposals[id].vendor : id \in Funded}
  OBVIOUS
<1>3. DOMAIN slices = payees /\ \A a \in payees : slices[a].totalFunded = FundedFor(a)
  BY <1>1, <1>2, FundedInIsFunded DEF buildVendorBreakdown, FundedBy, FundedFor
<1>4. \A S : Worth(proposals, S) = TotalOf(proposals, S)
  BY DEF Worth, TotalOf
<1>5. payees \subseteq DOMAIN vendors
  BY <1>2 DEF VendorsInv, Typed, ProposalLinks, Funded
<1>6. \A a \in payees : vendors[a].totalReceived = TotalOf(proposals, FundedFor(a))
  BY <1>5, VendorsAreThose DEF VendorsInv, BookOf
<1> QED
  BY <1>1, <1>3, <1>4, <1>6 DEF SlicesAreProfiles

-----------------------------------------------------------------------------
\* The dashboard's curves: their last point is at the block of the last row
\* with money, by which all of it has moved.

\* The latest of finitely many rows.
LEMMA LatestRow ==
    ASSUME NEW rows, IsFiniteSet(rows), rows # {}, \A r \in rows : r.block \in Nat
    PROVE  \E last \in rows : \A r \in rows : r.block <= last.block
<1>1. PICK S : S = {r.block : r \in rows}
  OBVIOUS
<1>2. PICK f \in Surjection(rows, S) : f = [r \in rows |-> r.block]
  BY <1>1 DEF Surjection
<1>3. IsFiniteSet(S) /\ S # {} /\ S \in SUBSET Int
  BY <1>1, <1>2, FS_Surjection
<1>4. Max(S) \in S /\ \A y \in S : Max(S) >= y
  BY <1>3, HasMax
<1>5. PICK last \in rows : last.block = Max(S)
  BY <1>1, <1>4
<1> QED
  BY <1>1, <1>3, <1>4, <1>5

PointIs(point, received, disbursed) ==
    point.received = received /\ point.disbursed = disbursed

\* By the block of the latest of these rows, all rows of a type are counted.
LEMMA RowTotalAtEnd ==
    ASSUME NEW ledger, NEW types, NEW block,
           \A r \in ledger : r.type \in types => r.block <= block
    PROVE  RowTotal(ledger, types, block) = RowsAmount(RowsOfType(ledger, types))
<1>1. {r \in ledger : r.type \in types /\ r.block <= block} = RowsOfType(ledger, types)
  BY DEF RowsOfType
<1> QED
  BY <1>1 DEF RowTotal, RowsAmount

LEMMA CurvesEnd ==
    ASSUME Typed
    PROVE  \E point \in DemoHistory :
               PointIs(point, RowsAmount(RowsOfType(DemoLedgerPage, {"TreasuryContribution"})),
                       FundedAmount(Funded))
<1>1. PICK A, B : /\ A = {GiftRow(c) : c \in DOMAIN treasuryContributions}
                  /\ B = {PayoutRow(id) : id \in Funded}
  OBVIOUS
<1>2. PICK page : page = DashboardLedger(proposals, vendors, treasuryContributions)
  OBVIOUS
<1>3. /\ RowsOfType(page, IncomeTypes) = A
      /\ RowsOfType(page, {"ProposalFunded"}) = B
  <2>1. PICK ds, gs : ds = EmptyMap /\ gs = EmptyMap
    OBVIOUS
  <2>2. page = buildLedger(proposals, vendors, treasuryContributions, ds, gs)
    BY <1>2, <2>1 DEF DashboardLedger
  <2>3. /\ RowsOfType(page, {"ProposalFunded"}) = {PayoutRow(id) : id \in Funded}
        /\ RowsOfType(page, IncomeTypes)
             = {GrantRow(g) : g \in DOMAIN gs} \cup {GiftRow(c) : c \in DOMAIN treasuryContributions}
    BY <2>1, <2>2, RowsOfTypes
  <2>4. DOMAIN gs = {}
    BY <2>1 DEF EmptyMap
  <2> QED
    BY <1>1, <2>3, <2>4
<1>4. RowsOfType(DemoLedgerPage, {"TreasuryContribution"}) = A
  <2>1. PICK ds, gs : ds = donors /\ gs = grants
    OBVIOUS
  <2> QED
    BY <1>1, <2>1, RowsOfTypes DEF DemoLedgerPage
<1>5. RowsAmount(B) = FundedAmount(Funded) /\ IsFiniteSet(A) /\ IsFiniteSet(B)
  BY <1>1, PayoutRowsAmount, GiftRowsAmount DEF MoneyIn
<1>6. PICK M : M = A \cup B
  OBVIOUS
<1>7. {r \in page : r.type \in IncomeTypes \cup {"ProposalFunded"}} = M
  BY <1>3, <1>6 DEF RowsOfType
<1>8. DemoHistory = {[block |-> 0, received |-> 0, disbursed |-> 0]} \cup
                    {[block |-> r.block, received |-> RowTotal(page, IncomeTypes, r.block),
                      disbursed |-> RowTotal(page, {"ProposalFunded"}, r.block)] : r \in M}
  <2>1. buildFundingHistory(page)
        = {[block |-> 0, received |-> 0, disbursed |-> 0]} \cup
          {[block |-> r.block, received |-> RowTotal(page, IncomeTypes, r.block),
            disbursed |-> RowTotal(page, {"ProposalFunded"}, r.block)] : r \in M}
    BY <1>7 DEF buildFundingHistory
  <2> QED
    BY <1>2, <2>1 DEF DemoHistory
<1>9. CASE M = {}
  <2>1. A = {} /\ B = {}
    BY <1>6, <1>9
  <2>2. RowsAmount({}) = 0
    BY SumOfNone DEF RowsAmount
  <2>3. PICK point \in DemoHistory : point = [block |-> 0, received |-> 0, disbursed |-> 0]
    BY <1>8
  <2> QED
    BY <1>4, <1>5, <2>1, <2>2, <2>3 DEF PointIs
<1>10. CASE M # {}
  <2>1. IsFiniteSet(M)
    BY <1>5, <1>6, FS_Union
  <2>2. \A r \in M : r.block \in Nat
    <3>1. \A c \in DOMAIN treasuryContributions : treasuryContributions[c].block \in Nat
      BY Entries DEF DemoContribution
    <3>2. \A id \in Funded : proposals[id].votingEnd \in Nat
      BY Entries DEF DemoProposal, Funded
    <3> QED
      BY <1>1, <1>6, <3>1, <3>2, MoneyRowFields
  <2>3. PICK last \in M : \A r \in M : r.block <= last.block
    BY <1>10, <2>1, <2>2, LatestRow
  <2>4. PICK b : b = last.block
    OBVIOUS
  <2>5. /\ \A r \in page : r.type \in IncomeTypes => r.block <= b
        /\ \A r \in page : r.type \in {"ProposalFunded"} => r.block <= b
    BY <1>7, <2>3, <2>4
  <2>6. RowTotal(page, IncomeTypes, b) = RowsAmount(A)
    BY <1>3, <2>5, RowTotalAtEnd
  <2>7. RowTotal(page, {"ProposalFunded"}, b) = RowsAmount(B)
    BY <1>3, <2>5, RowTotalAtEnd
  <2>8. PICK point \in DemoHistory :
            point = [block |-> b, received |-> RowTotal(page, IncomeTypes, b),
                     disbursed |-> RowTotal(page, {"ProposalFunded"}, b)]
    BY <1>8, <2>3, <2>4
  <2>9. point.received = RowsAmount(A) /\ point.disbursed = RowsAmount(B)
    BY <2>6, <2>7, <2>8
  <2> QED
    BY <1>4, <1>5, <2>9 DEF PointIs
<1> QED
  BY <1>9, <1>10

LEMMA ViewsAre == ViewsInv => DemoViewsAddUp
<1> SUFFICES ASSUME ViewsInv PROVE DemoViewsAddUp
  OBVIOUS
<1>1. Typed /\ VendorsInv /\ BooksInv
  BY DEF ViewsInv, BooksInv
<1> DEFINE total(types) ==
        SumFunction([r \in {r \in DemoLedgerPage : r.type \in types} |-> r.amount])
<1>2. \A types : total(types) = RowsAmount(RowsOfType(DemoLedgerPage, types))
  BY DEF RowsAmount, RowsOfType
<1>3. total(IncomeTypes) = treasury.totalReceived
  BY <1>1, <1>2, IncomeRowsAmount
<1>4. total({"ProposalFunded"}) = FundedAmount(Funded)
  <2>1. PICK ds, gs : ds = donors /\ gs = grants
    OBVIOUS
  <2>2. RowsOfType(DemoLedgerPage, {"ProposalFunded"}) = {PayoutRow(id) : id \in Funded}
    BY <2>1, RowsOfTypes DEF DemoLedgerPage
  <2> QED
    BY <1>1, <1>2, <2>2, PayoutRowsAmount DEF MoneyIn
<1>5. /\ ChartTotal(proposals, buildCategoryBreakdown(proposals, vendors)) = FundedAmount(Funded)
      /\ ChartTotal(proposals, buildWardBreakdown(proposals)) = FundedAmount(Funded)
  BY <1>1, CategoriesChart, WardsChart
<1>6. \A a \in DOMAIN buildVendorBreakdown(proposals, vendors) :
          Worth(proposals, buildVendorBreakdown(proposals, vendors)[a].totalFunded)
              = vendors[a].totalReceived
  <2>1. PICK slices : slices = buildVendorBreakdown(proposals, vendors)
    OBVIOUS
  <2>2. SlicesAreProfiles(slices)
    BY <1>1, <2>1, VendorsChart
  <2> QED
    BY <2>1, <2>2 DEF SlicesAreProfiles
<1>7. \E point \in DemoHistory : /\ point.received = total({"TreasuryContribution"})
                                 /\ point.disbursed = FundedAmount(Funded)
  BY <1>1, <1>2, CurvesEnd DEF PointIs
<1> QED
  BY <1>3, <1>4, <1>5, <1>6, <1>7 DEF DemoViewsAddUp

\* What demo mode's ledger page and dashboard add up is what its treasury and
\* its vendors' profiles show.
THEOREM DemoPagesAddUp == DemoSpec => []DemoViewsAddUp
<1>1. DemoInit => ViewsInv
  BY VendorsInit, BooksInit DEF ViewsInv
<1>2. ViewsInv /\ [DemoNext]_demoVars => ViewsInv'
  BY VendorsNext, BooksNext DEF ViewsInv
<1> QED
  BY <1>1, <1>2, ViewsAre, PTL DEF DemoSpec
=============================================================================

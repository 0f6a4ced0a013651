----------------------------- MODULE Treasury -----------------------------
(***************************************************************************)
(* The treasury side of the pallet: the pot, its two running totals, the   *)
(* donor registry and the grants ledger, and the gateway's mint.  A call   *)
(* that returns an error changes no storage (FRAME runs every dispatch in  *)
(* a storage layer), so an action is the Ok path of its call and a failing *)
(* call is a stuttering step.                                              *)
(***************************************************************************)
EXTENDS Balances

CONSTANTS
    Contributions,  \* amounts tried in fund_treasury and submit_grant
    Transfers,      \* amounts tried in plain balance transfers
    Mints,          \* amounts tried in stake_mint
    MaxGrants       \* bound on the number of grants

ASSUME TreasuryAssumption ==
    /\ Contributions \subseteq Nat
    /\ Transfers \subseteq Nat
    /\ Mints \subseteq Nat
    /\ MaxGrants \in Nat

VARIABLES
    totalReceived,   \* TotalFundsReceived
    totalDisbursed,  \* TotalFundsDisbursed
    donors,          \* Donors: account -> its donor profile
    grantCount,      \* GrantCount: the next grant id
    grants,          \* Grants: id -> grant
    offLedger        \* history: currency that reached the pot by any other way

treasuryVars ==
    <<balance, potDust, minted, totalReceived, totalDisbursed, donors, grantCount,
      grants, offLedger>>

GrantId == Nat
DonorInfo == [total_contributed : Nat, grants_made : Nat]
Grant == [donor : Account, amount : Nat]

TreasuryInit ==
    /\ BalancesInit
    /\ totalReceived = 0
    /\ totalDisbursed = 0
    /\ donors = EmptyMap
    /\ grantCount = 0
    /\ grants = EmptyMap
    /\ offLedger = Genesis[Pot]

\* The transfer into the pot shared by fund_treasury and submit_grant.
Contribute(from, amount) ==
    /\ amount # 0
    /\ CanTransfer(from, Pot, amount)
    /\ Move(from, Pot, amount)
    /\ totalReceived' = totalReceived + amount

FundTreasury(from, amount) ==
    /\ Contribute(from, amount)
    /\ UNCHANGED <<totalDisbursed, donors, grantCount, grants, offLedger>>

RegisterDonor(who) ==
    /\ who \notin DOMAIN donors
    /\ donors' = Put(donors, who, [total_contributed |-> 0, grants_made |-> 0])
    /\ UNCHANGED <<balance, potDust, minted, totalReceived, totalDisbursed,
                   grantCount, grants, offLedger>>

\* A donor's profile after one more grant.
WithGrant(info, amount) ==
    [total_contributed |-> info.total_contributed + amount,
     grants_made |-> info.grants_made + 1]

\* Mutant of SubmitGrant: a grant is not counted as received.
SubmitGrantUncounted(donor, amount) ==
    /\ grantCount < MaxGrants
    /\ donor \in DOMAIN donors
    /\ amount # 0
    /\ CanTransfer(donor, Pot, amount)
    /\ Move(donor, Pot, amount)
    /\ grants' = Put(grants, grantCount, [donor |-> donor, amount |-> amount])
    /\ grantCount' = grantCount + 1
    /\ donors' = [donors EXCEPT ![donor] = WithGrant(@, amount)]
    /\ UNCHANGED <<totalReceived, totalDisbursed, offLedger>>

\* Mutant of SubmitGrant: the id counter is not advanced.
SubmitGrantSameId(donor, amount) ==
    /\ grantCount < MaxGrants
    /\ donor \in DOMAIN donors
    /\ Contribute(donor, amount)
    /\ grants' = Put(grants, grantCount, [donor |-> donor, amount |-> amount])
    /\ donors' = [donors EXCEPT ![donor] = WithGrant(@, amount)]
    /\ UNCHANGED <<grantCount, totalDisbursed, offLedger>>

SubmitGrant(donor, amount) ==
    /\ grantCount < MaxGrants
    /\ donor \in DOMAIN donors
    /\ Contribute(donor, amount)
    /\ grants' = Put(grants, grantCount, [donor |-> donor, amount |-> amount])
    /\ grantCount' = grantCount + 1
    /\ donors' = [donors EXCEPT ![donor] = WithGrant(@, amount)]
    /\ UNCHANGED <<totalDisbursed, offLedger>>

\* The share of amount that reached the pot outside the pallet's two calls.
ToPot(to, amount) == IF to = Pot THEN amount ELSE 0

\* The gateway chooses who from the payment's metadata: any address at all.
StakeMint(who, amount) ==
    /\ amount # 0
    /\ CanMint(who, amount)
    /\ MintInto(who, amount)
    /\ offLedger' = offLedger + ToPot(who, amount)
    /\ UNCHANGED <<totalReceived, totalDisbursed, donors, grantCount, grants>>

\* pallet_balances' own transfer call, which any account may use and which
\* knows nothing of the treasury.
PlainTransfer(from, to, amount) ==
    /\ from # to
    /\ CanTransfer(from, to, amount)
    /\ Move(from, to, amount)
    /\ offLedger' = offLedger + ToPot(to, amount)
    /\ UNCHANGED <<totalReceived, totalDisbursed, donors, grantCount, grants>>

\* Mutant of CanPay: only the receiving side of the transfer is checked.
CanPayUnfunded(vendor, amount) == Viable(balance[vendor] + amount)

\* The Ok arm of try_disburse, as far as the treasury goes.
CanPay(vendor, amount) == CanTransfer(Pot, vendor, amount)

PayOut(vendor, amount) ==
    /\ Move(Pot, vendor, amount)
    /\ totalDisbursed' = totalDisbursed + amount
    /\ UNCHANGED <<totalReceived, donors, grantCount, grants, offLedger>>
---------------------------------------------------------------------------
TreasuryTypeOK ==
    /\ BalancesTypeOK
    /\ totalReceived \in Nat
    /\ totalDisbursed \in Nat
    /\ IsMap(donors, Account, DonorInfo)
    /\ grantCount \in Nat
    /\ IsMap(grants, GrantId, Grant)
    /\ offLedger \in Nat

\* Every unit that ever reached the pot is still there, was paid to a vendor,
\* or was burnt as dust when a payout emptied the pot: the two public totals
\* and the pot's balance account for all money, whatever the order of
\* contributions, gifts, mints and payouts.
PotAccounted ==
    balance[Pot] + totalDisbursed + potDust = totalReceived + offLedger

\* The public grants registry and the donors' own profiles, which submit_grant
\* keeps separately, tell the same story: each donor's count and total are
\* those of the grants recorded under its name, and grant ids are dense.
GrantsOf(a) == {g \in DOMAIN grants : grants[g].donor = a}

DonorBooksBalance ==
    /\ \A a \in Account : GrantsOf(a) # {} => a \in DOMAIN donors
    /\ \A a \in DOMAIN donors :
        /\ donors[a].grants_made = Cardinality(GrantsOf(a))
        /\ donors[a].total_contributed = SumFunction([g \in GrantsOf(a) |-> grants[g].amount])
===========================================================================

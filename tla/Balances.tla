----------------------------- MODULE Balances -----------------------------
(***************************************************************************)
(* The native currency behind Config::NativeBalance.  The implementation   *)
(* is FRAME's pallet_balances, which is not in this repository: it is      *)
(* modelled from how the pallet calls it (transfer with Expendable,        *)
(* mint_into, balance) and from the runtime's configuration of it (an      *)
(* existential deposit, dust burnt because DustRemoval is the unit type).  *)
(* Fees, locks and the u128 limit on the issuance are left out.            *)
(***************************************************************************)
EXTENDS Frame

CONSTANTS
    Pot,                 \* the treasury's sovereign account, which has no key
    ExistentialDeposit,  \* an account holding less is reaped
    Genesis,             \* the balances the chain starts with
    MaxMinted            \* bound on the currency minted after genesis

Holder == Account \cup {Pot}

ASSUME BalancesAssumption ==
    /\ Pot \notin Account
    /\ ExistentialDeposit \in Nat
    /\ Genesis \in [Holder -> Nat]
    /\ \A h \in Holder : Genesis[h] = 0 \/ Genesis[h] >= ExistentialDeposit
    /\ MaxMinted \in Nat

VARIABLES
    balance,    \* free balance of every account; 0 for one that does not exist
    potDust,    \* history: dust burnt when a payout reaped the pot's account
    minted      \* history: currency created since genesis

balanceVars == <<balance, potDust, minted>>

BalancesInit ==
    /\ balance = Genesis
    /\ potDust = 0
    /\ minted = 0

\* A balance of amount is allowed to exist.
Viable(amount) == amount >= ExistentialDeposit

\* fungible::Mutate::transfer(from, to, amount, Expendable) returns Ok.
CanTransfer(from, to, amount) ==
    /\ balance[from] >= amount
    /\ Viable(balance[to] + amount)

\* What an account that is left with rest keeps: a reaped one keeps nothing.
Kept(rest) == IF Viable(rest) THEN rest ELSE 0

\* The Ok branch of the transfer between two different accounts.
Move(from, to, amount) ==
    LET rest == balance[from] - amount IN
    /\ balance' = [balance EXCEPT ![from] = Kept(rest), ![to] = @ + amount]
    /\ potDust' = potDust + (IF from = Pot THEN rest - Kept(rest) ELSE 0)
    /\ UNCHANGED minted

\* fungible::Mutate::mint_into(who, amount) returns Ok.
CanMint(who, amount) ==
    /\ minted + amount <= MaxMinted
    /\ Viable(balance[who] + amount)

MintInto(who, amount) ==
    /\ balance' = [balance EXCEPT ![who] = @ + amount]
    /\ minted' = minted + amount
    /\ UNCHANGED potDust

BalancesTypeOK ==
    /\ balance \in [Holder -> Nat]
    /\ potDust \in Nat
    /\ minted \in Nat
===========================================================================

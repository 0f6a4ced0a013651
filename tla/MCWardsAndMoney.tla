-------------------------- MODULE MCWardsAndMoney --------------------------
(***************************************************************************)
(* VendorDao with the constants' values of MCVendorDao, in behaviours that *)
(* are about either residents and their wards, while no money moves, or    *)
(* about money, while nobody's residency matters: TLC need not explore a   *)
(* mixture of the two.                                                     *)
(***************************************************************************)
EXTENDS MCVendorDao

VARIABLE about

EitherInit == Init /\ about \in {"wards", "money"}

KeepsToEither ==
    \/ /\ about = "wards"
       /\ treasuryVars' = treasuryVars
       /\ \A id \in DOMAIN proposals' : proposals'[id].amount = MaxProposalAmount
    \/ /\ about = "money"
       /\ kyc' = kyc
       /\ \A a \in DOMAIN vendors' : ~vendors'[a].verified
       /\ \A id \in DOMAIN proposals' : proposals'[id].ward = Citywide

EitherNext == Next /\ KeepsToEither /\ UNCHANGED about

EitherSpec == EitherInit /\ [][EitherNext]_<<vars, about>>
=============================================================================

------------------------------ MODULE MCFilings ------------------------------
(***************************************************************************)
(* The two forms that file a document by its hash, a resident's request    *)
(* and a vendor's receipt.  They are on pages of different people and      *)
(* share nothing: a behaviour is one of either, chosen initially, and      *)
(* leaves the variables of the other as they are.  One of requests either  *)
(* changes accounts within a block, or keeps to one through the blocks in  *)
(* which its verification ends: TLC need not explore a mixture of the two. *)
(***************************************************************************)
EXTENDS KycDesk, ReceiptForm

VARIABLE about   \* which of these a behaviour is of

filingVars == <<kycPageVars, receiptFormVars, about>>

\* The accounts of the wallet are interchangeable: it may start with either.
FilingsInit ==
    /\ about \in {"accounts", "expiry", "receipts"}
    /\ KycDeskInit /\ FormInit
    /\ selected = CHOOSE a \in Applicants : TRUE

FilingsNext ==
    /\ UNCHANGED about
    /\ \/ about = "accounts" /\ KycDeskNext /\ now' = now /\ UNCHANGED receiptFormVars
       \/ about = "expiry" /\ KycDeskNext /\ selected' = selected
          /\ UNCHANGED receiptFormVars
       \/ about = "receipts" /\ FormNext /\ UNCHANGED kycPageVars

FilingsSpec == FilingsInit /\ [][FilingsNext]_filingVars
=============================================================================

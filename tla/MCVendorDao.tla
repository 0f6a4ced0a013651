---------------------------- MODULE MCVendorDao ----------------------------
(***************************************************************************)
(* Values for the constants of VendorDao that a cfg cannot write down.     *)
(***************************************************************************)
EXTENDS VendorDaoMandate, TLC

\* Genesis balances: everybody has a little, and the pot has money or not.
PoorPot == [h \in Holder |-> IF h = Pot THEN 0 ELSE 5]
RichPot == [h \in Holder |-> 4]

\* One account without money: it can only be paid what makes it viable.
NewVendor == [h \in Holder |-> IF h \in Candidate \cup {Pot} THEN 0 ELSE 5]

\* Accounts that only vote and prove their residency are interchangeable.
Citizens == Permutations(Resident)
============================================================================

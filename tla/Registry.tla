----------------------------- MODULE Registry -----------------------------
(***************************************************************************)
(* The public vendor registry.  What a vendor writes about itself is one   *)
(* opaque profile; names, dates and texts are left out.                    *)
(***************************************************************************)
EXTENDS Frame

CONSTANT Profile   \* the descriptions a vendor can give of itself

ASSUME RegistryAssumption == Profile # {}

VARIABLE vendors   \* Vendors: account -> its vendor profile

VendorInfo ==
    [profile : Profile, verified : BOOLEAN, total_received : Nat,
     proposals_funded : Nat]

RegistryInit == vendors = EmptyMap

RegisterVendor(who, profile) ==
    /\ who \notin DOMAIN vendors
    /\ vendors' = Put(vendors, who, [profile |-> profile, verified |-> FALSE,
                                     total_received |-> 0, proposals_funded |-> 0])

UpdateVendorProfile(who, profile) ==
    /\ who \in DOMAIN vendors
    /\ vendors' = [vendors EXCEPT ![who].profile = profile]

SetVendorVerified(vendor, verified) ==
    /\ vendor \in DOMAIN vendors
    /\ vendors' = [vendors EXCEPT ![vendor].verified = verified]

\* A vendor's profile after one more payout.
WithPayout(info, amount) ==
    [profile |-> info.profile, verified |-> info.verified,
     total_received |-> info.total_received + amount,
     proposals_funded |-> info.proposals_funded + 1]

\* The share of try_disburse's Ok arm that updates the vendor, if it exists.
CreditVendor(vendor, amount) ==
    vendors' = IF vendor \in DOMAIN vendors
               THEN [vendors EXCEPT ![vendor] = WithPayout(@, amount)]
               ELSE vendors

RegistryTypeOK == IsMap(vendors, Account, VendorInfo)
===========================================================================

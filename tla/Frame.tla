------------------------------- MODULE Frame -------------------------------
(***************************************************************************)
(* What the pallet takes from FRAME: accounts, Option, and storage maps.   *)
(* A StorageMap or StorageDoubleMap is a function whose domain is the set  *)
(* of keys that hold a value (contains_key is membership of the domain, a  *)
(* double map is a map on pairs).  No call of the pallet ever removes a    *)
(* key.  The block number is in module Residency, where it first matters.  *)
(***************************************************************************)
EXTENDS Naturals, FiniteSets, Functions

CONSTANTS
    Account,  \* accounts that can sign an extrinsic
    None      \* Option::None, and the lack of an account or an id

ASSUME FrameAssumption ==
    /\ IsFiniteSet(Account)
    /\ None \notin Nat

\* The value of a storage map before anything is inserted.
EmptyMap == [k \in {} |-> None]

\* StorageMap::insert(k, v): also the effect of a successful mutate of k.
Put(f, k, v) == [x \in DOMAIN f \cup {k} |-> IF x = k THEN v ELSE f[x]]

\* f is a storage map with keys in K and values in V.
IsMap(f, K, V) == DOMAIN f \subseteq K /\ f \in [DOMAIN f -> V]
=============================================================================

--------------------------- MODULE MCStakeGateway ---------------------------
(***************************************************************************)
(* Values for the constants of StakeGateway that a cfg cannot write down.  *)
(***************************************************************************)
EXTENDS StakeGateway

\* Nobody has anything before the first stake.
NoBalances == [h \in Holder |-> 0]
=============================================================================

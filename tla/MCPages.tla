------------------------------- MODULE MCPages -------------------------------
(***************************************************************************)
(* The parts of the front end, one at a time.  A browser tab has one page  *)
(* open, and the parts share no state that either of two changes: what     *)
(* they all stand on is the shell, whose mode and connection each takes as *)
(* its input.  A behaviour is therefore one of one part, chosen initially; *)
(* the variables of the others stay as they are.                           *)
(*                                                                         *)
(* The map has two vendors of two categories, the second of which has to   *)
(* be geocoded also in demo mode, a project, and an RFP.                   *)
(***************************************************************************)
EXTENDS ClientShell, ProposalPage, EmailProof, VendorMap, TokenAmount

CONSTANTS v1, v2, p1, r1, c1, c2, w1

TwoCategories == [v \in {v1, v2} |-> IF v = v1 THEN c1 ELSE c2]
OneProject == [p \in {p1} |-> v1]
OneWard == [p \in {p1, r1} |-> w1]

VARIABLE part

pagesVars == <<shellVars, pageVars, emailVars, mapVars, amountVars, part>>

Parts == {"shell", "proposal", "email", "map", "amount"}

Nothing == [whole |-> <<0>>, frac |-> <<>>]

\* Where a part has several initial states the others need only one of them.
\* Of the map's two one leads to the other before anything is drawn.
PagesInit ==
    /\ part \in Parts
    /\ ShellInit /\ PageInit /\ EmailInit /\ MapInit /\ AmountInit
    /\ part # "proposal" => status = "Proposed"
    /\ part # "email" => email \in Owned /\ smtp
    /\ ~demoOn
    /\ part # "amount" => typed = Nothing

In(p) == part = p /\ UNCHANGED part

PagesNext ==
    \/ /\ In("shell") /\ ShellNext
       /\ UNCHANGED <<pageVars, emailVars, mapVars, amountVars>>
    \/ /\ In("proposal") /\ PageNext
       /\ UNCHANGED <<shellVars, emailVars, mapVars, amountVars>>
    \/ /\ In("email") /\ EmailNext
       /\ UNCHANGED <<shellVars, pageVars, mapVars, amountVars>>
    \/ /\ In("map") /\ MapNext
       /\ UNCHANGED <<shellVars, pageVars, emailVars, amountVars>>
    \/ /\ In("amount") /\ AmountNext
       /\ UNCHANGED <<shellVars, pageVars, emailVars, mapVars>>

\* The fairness of each part, if it is the one that is open.
PagesSpec ==
    /\ PagesInit /\ [][PagesNext]_pagesVars
    /\ WF_pageVars(part = "proposal" /\ UserAnswers)
    /\ WF_pageVars(part = "proposal" /\ Include)
    /\ WF_pageVars(part = "proposal" /\ Notify)
    /\ WF_pageVars(part = "proposal" /\ OwnRead)
    /\ SF_emailVars(part = "email" /\ Persist)
    /\ WF_emailVars(part = "email" /\ ServerAnswers)
    /\ WF_mapVars(part = "map" /\ ScriptEnds)
=============================================================================

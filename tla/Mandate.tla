------------------------------ MODULE Mandate ------------------------------
(***************************************************************************)
(* What VendorDAO promises about public money, with none of its mechanism: *)
(* a ballot box that only takes first ballots while a poll is open, a      *)
(* decision that is a count of the box, and a payment that follows such a  *)
(* decision once, in full, to the named payee.  No clock, no counters, no  *)
(* residency, no pot: module VendorDaoMandate shows the pallet implements  *)
(* this.                                                                   *)
(***************************************************************************)
EXTENDS Frame

CONSTANTS
    MinimumQuorum,  \* ballots a decision to pay needs
    Id,             \* the ids proposals can have
    Amount          \* the amounts they can ask for

VARIABLES
    stage,   \* id -> where a proposal is
    terms,   \* id -> whom it would pay, and what
    box,     \* <<id, voter>> -> TRUE for aye
    income,  \* account -> what it has been paid
    spent    \* what was paid out in all

mandateVars == <<stage, terms, box, income, spent>>

Stage == {"review", "poll", "awarded", "paid", "dropped"}

Init ==
    /\ stage = EmptyMap
    /\ terms = EmptyMap
    /\ box = EmptyMap
    /\ income = [a \in Account |-> 0]
    /\ spent = 0

At(id, s) == id \in DOMAIN stage /\ stage[id] = s
GoTo(id, s) == stage' = [stage EXCEPT ![id] = s]

Ballots(id, b) == {a \in Account : <<id, a>> \in DOMAIN box /\ box[<<id, a>>] = b}

Mandated(id) ==
    LET ayes == Cardinality(Ballots(id, TRUE))
        nays == Cardinality(Ballots(id, FALSE))
    IN  ayes + nays >= MinimumQuorum /\ ayes > nays

Propose(id, payee, amount) ==
    /\ id \notin DOMAIN stage
    /\ stage' = Put(stage, id, "review")
    /\ terms' = Put(terms, id, [payee |-> payee, amount |-> amount])
    /\ UNCHANGED <<box, income, spent>>

OpenPoll(id) ==
    /\ At(id, "review")
    /\ GoTo(id, "poll")
    /\ UNCHANGED <<terms, box, income, spent>>

\* Vetoed, or withdrawn by its proposer: nothing but its stage changes.
Withdraw(id) ==
    /\ At(id, "review") \/ At(id, "poll")
    /\ GoTo(id, "dropped")
    /\ UNCHANGED <<terms, box, income, spent>>

Cast(id, voter, b) ==
    /\ At(id, "poll")
    /\ <<id, voter>> \notin DOMAIN box
    /\ box' = Put(box, <<id, voter>>, b)
    /\ UNCHANGED <<stage, terms, income, spent>>

Defeat(id) ==
    /\ At(id, "poll")
    /\ ~Mandated(id)
    /\ GoTo(id, "dropped")
    /\ UNCHANGED <<terms, box, income, spent>>

Award(id) ==
    /\ At(id, "poll")
    /\ Mandated(id)
    /\ GoTo(id, "awarded")
    /\ UNCHANGED <<terms, box, income, spent>>

\* The payment: at once with the award, or at some later time.
Pay(id) ==
    /\ At(id, "awarded") \/ (At(id, "poll") /\ Mandated(id))
    /\ GoTo(id, "paid")
    /\ income' = [income EXCEPT ![terms[id].payee] = @ + terms[id].amount]
    /\ spent' = spent + terms[id].amount
    /\ UNCHANGED <<terms, box>>

Next ==
    \/ \E id \in Id, a \in Account, x \in Amount : Propose(id, a, x)
    \/ \E id \in DOMAIN stage :
        \/ OpenPoll(id)
        \/ Withdraw(id)
        \/ \E a \in Account, b \in BOOLEAN : Cast(id, a, b)
        \/ Defeat(id)
        \/ Award(id)
        \/ Pay(id)

Spec == Init /\ [][Next]_mandateVars
============================================================================

---------------------------- MODULE ProposalPage ----------------------------
(***************************************************************************)
(* The page of one proposal off demo mode and on: what it shows, whether   *)
(* its vote buttons are greyed, and the one transaction it has under way,  *)
(* over a node that answers in any order.  useProposal and the page's      *)
(* effect on voteOf send reads, which nothing cancels; runAction signs,    *)
(* waits for a block, reads again.  The chain is the proposal's status and *)
(* voters; VendorDao has the rest.                                         *)
(***************************************************************************)
EXTENDS Naturals, Sequences, SequencesExt

CONSTANTS
    Accounts, Admin,  \* the wallet's accounts; Admin is the city's
    Nil,              \* no account, no value yet, no transaction
    MaxEvents, MaxReads  \* bounds

VARIABLES
    status, voters,     \* the chain's: Proposals[id], VoteOf[id, _]
    demoEnabled, pageApi,  \* demo.enabled; whether there is a connection
    signer,             \* the wallet's account
    asked,              \* history: the accounts whose vote was asked for
    shown, readError,  \* useProposal's state
    hasVoted, error,    \* the page's state
    demoVoted,          \* demo.votedProposalIds has this proposal
    reads,              \* the effects' reads that have not ended
    tx,                 \* runAction: its transaction, then its own read
    acted,              \* history: the status right after the last own one
    events              \* clicks, changes and failures, for the bound

chainVars == <<status, voters>>
modeVars == <<demoEnabled, pageApi, signer, asked, demoVoted>>
shownVars == <<shown, readError, hasVoted>>
actionVars == <<error, tx, acted>>
pageVars == <<chainVars, modeVars, shownVars, actionVars, reads, events>>

Rank == [PendingReview |-> 0, Proposed |-> 1, Vetoed |-> 1, Approved |-> 2,
         Rejected |-> 2, Cancelled |-> 2, Funded |-> 3]
Status == DOMAIN Rank
PageRead == [kind : {"proposal", "voteOf"}, of : Accounts \cup {Nil},
             value : Status \cup {"voted", "none", Nil}]

\* What each button's call needs, and what it may make of the proposal.
Needs == [vet |-> "PendingReview", veto |-> "PendingReview", vote |-> "Proposed",
          close |-> "Proposed", disburse |-> "Approved"]
Leads == [vet |-> {"Proposed"}, veto |-> {"Vetoed"}, vote |-> {"Proposed"},
          close |-> {"Approved", "Funded", "Rejected"},
          disburse |-> {"Approved", "Funded"}]
Calls == DOMAIN Needs
Stages == {"signing", "sent", "lost", "ok", "refused", "reading"}
Transaction == [call : Calls, by : Accounts, stage : Stages, read : Status \cup {Nil}]

\* The buttons are disabled while runAction waits for something.
busy == tx # Nil

ASSUME PageAssumption ==
    /\ Admin \in Accounts
    /\ Nil \notin Accounts \cup Status \cup {"voted", "none"} /\ Nil \notin Transaction
    /\ {MaxEvents, MaxReads} \subseteq Nat

PageTypeOK ==
    /\ status \in Status /\ voters \subseteq Accounts
    /\ {demoEnabled, pageApi, readError, hasVoted, error, demoVoted} \subseteq BOOLEAN
    /\ signer \in Accounts \cup {Nil} /\ asked \subseteq Accounts
    /\ shown \in Status \cup {"Nothing", "Demo"}
    /\ reads \in Seq(PageRead)
    /\ tx \in Transaction \cup {Nil}
    /\ acted \in Status

PageInit ==
    /\ status \in {"PendingReview", "Proposed"} /\ voters = {}
    /\ demoEnabled = FALSE /\ pageApi = FALSE /\ demoVoted = FALSE
    /\ signer = Nil /\ asked = {}
    /\ shown = "Nothing" /\ readError = FALSE
    /\ hasVoted = FALSE /\ error = FALSE
    /\ reads = <<>> /\ tx = Nil /\ acted = "PendingReview"
    /\ events = 0

\* useProposal's effect, when there is a connection.
ProposalRead == [kind |-> "proposal", of |-> Nil, value |-> Nil]

\* The page's effect on voteOf asks for the account now selected.
VoteOf(a) == IF a = Nil THEN <<>> ELSE <<[kind |-> "voteOf", of |-> a, value |-> Nil]>>

\* getApi's promise resolves: both effects run with the new api.
Connected ==
    /\ ~demoEnabled /\ ~pageApi
    /\ Len(reads) + 2 <= MaxReads
    /\ pageApi' = TRUE
    /\ readError' = FALSE
    /\ reads' = Append(reads, ProposalRead) \o VoteOf(signer)
    /\ asked' = asked \cup ({signer} \ {Nil})
    /\ hasVoted' = IF signer = Nil THEN FALSE ELSE hasVoted
    /\ UNCHANGED <<chainVars, demoEnabled, signer, demoVoted, shown, actionVars,
                   events>>

\* Another account: what is shown about the last one stays until the answer.
SelectSigner(a) ==
    /\ a # signer
    /\ Len(reads) < MaxReads
    /\ signer = Nil \/ events < MaxEvents
    /\ events' = IF signer = Nil THEN events ELSE events + 1
    /\ signer' = a
    /\ IF pageApi /\ ~demoEnabled
       THEN reads' = reads \o VoteOf(a) /\ asked' = asked \cup {a}
       ELSE UNCHANGED <<reads, asked>>
    /\ hasVoted' = IF demoEnabled \/ pageApi THEN hasVoted ELSE FALSE
    /\ UNCHANGED <<chainVars, demoEnabled, pageApi, demoVoted, shown, readError,
                   actionVars>>

\* Mutant of ToggleDemo: the effect on voteOf does not depend on the mode.
ToggleDemoKeepsVote ==
    /\ events < MaxEvents
    /\ events' = events + 1
    /\ demoEnabled' = ~demoEnabled
    /\ pageApi' = FALSE
    /\ signer' = IF demoEnabled THEN Nil ELSE Admin
    /\ hasVoted' = IF demoEnabled THEN hasVoted ELSE demoVoted
    /\ IF demoEnabled
       THEN UNCHANGED <<shown, readError>>
       ELSE shown' = "Demo" /\ readError' = FALSE
    /\ UNCHANGED <<chainVars, asked, demoVoted, reads, actionVars>>

\* The demo's proposal replaces what is shown; leaving the demo replaces
\* nothing, and the wallet's accounts are gone.
ToggleDemo ==
    /\ events < MaxEvents
    /\ events' = events + 1
    /\ demoEnabled' = ~demoEnabled
    /\ pageApi' = FALSE
    /\ signer' = IF demoEnabled THEN Nil ELSE Admin
    /\ hasVoted' = IF demoEnabled THEN FALSE ELSE demoVoted
    /\ IF demoEnabled
       THEN UNCHANGED <<shown, readError>>
       ELSE shown' = "Demo" /\ readError' = FALSE
    /\ UNCHANGED <<chainVars, asked, demoVoted, reads, actionVars>>

\* The buttons, by what is shown.
Offered(call) ==
    /\ shown \in Status
    /\ shown = Needs[call]
    /\ signer # Nil
    /\ call \in {"vet", "veto"} => signer = Admin
    /\ call = "vote" => ~hasVoted
    /\ ~busy

\* Without a connection runAction ends where it began.
Click(call) ==
    /\ ~demoEnabled
    /\ Offered(call)
    /\ events < MaxEvents
    /\ events' = events + 1
    /\ error' = FALSE
    /\ tx' = IF pageApi
             THEN [call |-> call, by |-> signer, stage |-> "signing", read |-> Nil]
             ELSE Nil
    /\ UNCHANGED <<chainVars, modeVars, shownVars, reads, acted>>

\* In demo mode the action runs at once, refresh reads nothing, and the demo's
\* proposal, which has changed, is shown.
DemoVote ==
    /\ demoEnabled /\ shown \in {"Demo", "Proposed"} /\ ~busy /\ ~hasVoted
    /\ demoVoted' = TRUE
    /\ hasVoted' = TRUE
    /\ shown' = "Demo" /\ readError' = FALSE
    /\ error' = FALSE
    /\ UNCHANGED <<chainVars, demoEnabled, pageApi, signer, asked, reads, tx, acted,
                   events>>

\* The wallet's user signs.
Sign ==
    /\ tx # Nil /\ tx.stage = "signing"
    /\ tx' = [tx EXCEPT !.stage = "sent"]
    /\ UNCHANGED <<chainVars, modeVars, shownVars, reads, error, acted, events>>

\* The wallet refuses, or the node does not take the extrinsic.
Reject ==
    /\ tx # Nil /\ tx.stage = "signing"
    /\ tx' = Nil
    /\ error' = TRUE
    /\ UNCHANGED <<chainVars, modeVars, shownVars, reads, acted, events>>

\* The pool drops the extrinsic: no callback's branch ends the promise.
Lose ==
    /\ tx # Nil /\ tx.stage = "sent"
    /\ events < MaxEvents
    /\ events' = events + 1
    /\ tx' = [tx EXCEPT !.stage = "lost"]
    /\ UNCHANGED <<chainVars, modeVars, shownVars, reads, error, acted>>

\* A block includes the extrinsic, and the call is done or refused (for what
\* is modelled here, or for its deadline, residency or quorum).
Include ==
    /\ tx # Nil /\ tx.stage = "sent"
    /\ \/ /\ status = Needs[tx.call]
          /\ tx.call = "vote" => tx.by \notin voters
          /\ status' \in Leads[tx.call]
          /\ voters' = IF tx.call = "vote" THEN voters \cup {tx.by} ELSE voters
          /\ acted' = status'
          /\ tx' = [tx EXCEPT !.stage = "ok"]
       \/ /\ tx' = [tx EXCEPT !.stage = "refused"]
          /\ UNCHANGED <<status, voters, acted>>
    /\ UNCHANGED <<modeVars, shownVars, reads, error, events>>

\* Mutant of Notify: runAction ends without reading the proposal again.
NotifyOnly ==
    /\ busy /\ tx.stage \in {"ok", "refused"}
    /\ tx' = Nil
    /\ error' = (tx.stage = "refused")
    /\ UNCHANGED <<chainVars, modeVars, shownVars, reads, acted, events>>

\* Mutant of Notify: the buttons come back after what succeeded only.
NotifyNoFinally ==
    /\ busy
    /\ \/ /\ tx.stage = "ok"
          /\ tx' = [tx EXCEPT !.stage = "reading"]
          /\ readError' = FALSE
          /\ UNCHANGED error
       \/ /\ tx.stage = "refused"
          /\ error' = TRUE
          /\ UNCHANGED <<tx, readError>>
    /\ UNCHANGED <<chainVars, modeVars, shown, hasVoted, reads, acted, events>>

\* The callback: a refusal is an error; else runAction reads the proposal
\* again, with the api of its click, whatever the mode is by now.
Notify ==
    /\ busy
    /\ \/ /\ tx.stage = "ok"
          /\ tx' = [tx EXCEPT !.stage = "reading"]
          /\ readError' = FALSE
          /\ UNCHANGED error
       \/ /\ tx.stage = "refused"
          /\ tx' = Nil
          /\ error' = TRUE
          /\ UNCHANGED readError
    /\ UNCHANGED <<chainVars, modeVars, shown, hasVoted, reads, acted, events>>

\* Other people act on the proposal, or an account of this wallet votes in
\* another browser.
OthersAct ==
    /\ \E call \in Calls :
        /\ status = Needs[call] /\ status' \in Leads[call]
        /\ IF call = "vote" THEN \E a \in Accounts : voters' = voters \cup {a}
                            ELSE UNCHANGED voters
    /\ UNCHANGED <<modeVars, shownVars, reads, actionVars, events>>

\* The node reads its state for the i-th read, or for runAction's.
NodeReads(i) ==
    /\ reads[i].value = Nil
    /\ reads' = [reads EXCEPT ![i].value =
                   IF reads[i].kind = "proposal" THEN status
                   ELSE IF reads[i].of \in voters THEN "voted" ELSE "none"]
    /\ UNCHANGED <<chainVars, modeVars, shownVars, actionVars, events>>

NodeReadsOwn ==
    /\ busy /\ tx.stage = "reading" /\ tx.read = Nil
    /\ tx' = [tx EXCEPT !.read = status]
    /\ UNCHANGED <<chainVars, modeVars, shownVars, reads, error, acted, events>>

\* The end of a read by an effect, in whichever order the answers come.
Ends(i) ==
    /\ reads' = RemoveAt(reads, i)
    /\ UNCHANGED <<chainVars, modeVars, actionVars>>

PageAnswer(i) ==
    /\ reads[i].value # Nil
    /\ Ends(i)
    /\ IF reads[i].kind = "proposal"
       THEN shown' = reads[i].value /\ UNCHANGED hasVoted
       ELSE hasVoted' = (reads[i].value = "voted") /\ UNCHANGED shown
    /\ UNCHANGED <<readError, events>>

\* The read fails: the hook notes it (and the page does not say so), and a
\* vote that cannot be read counts as none.
Fail(i) ==
    /\ events < MaxEvents
    /\ events' = events + 1
    /\ Ends(i)
    /\ IF reads[i].kind = "proposal"
       THEN readError' = TRUE /\ UNCHANGED hasVoted
       ELSE hasVoted' = FALSE /\ UNCHANGED readError
    /\ UNCHANGED shown

\* The end of runAction's read, and of runAction.
EndsOwn ==
    /\ busy /\ tx.stage = "reading"
    /\ tx' = Nil
    /\ UNCHANGED <<chainVars, modeVars, hasVoted, reads, error, acted>>

OwnAnswer ==
    /\ EndsOwn
    /\ tx.read # Nil
    /\ shown' = tx.read
    /\ UNCHANGED <<readError, events>>

OwnFail ==
    /\ EndsOwn
    /\ events < MaxEvents
    /\ events' = events + 1
    /\ readError' = TRUE
    /\ UNCHANGED shown

OwnRead == NodeReadsOwn \/ OwnAnswer

PageNext ==
    \/ Connected \/ ToggleDemo \/ \E a \in Accounts : SelectSigner(a)
    \/ \E call \in Calls : Click(call)
    \/ DemoVote \/ Sign \/ Reject \/ Lose \/ Include \/ Notify \/ OwnRead \/ OwnFail
    \/ OthersAct
    \/ \E i \in DOMAIN reads : NodeReads(i) \/ PageAnswer(i) \/ Fail(i)

PageSpec == PageInit /\ [][PageNext]_pageVars

\* The wallet's user answers its window, blocks are made, callbacks run and the
\* node answers what runAction asks it, however many other reads there are.
UserAnswers == Sign \/ Reject

FairPageSpec ==
    /\ PageSpec
    /\ WF_pageVars(UserAnswers)
    /\ WF_pageVars(Include)
    /\ WF_pageVars(Notify)
    /\ WF_pageVars(OwnRead)
-----------------------------------------------------------------------------
\* Off demo mode the vote buttons are greyed only if an account that was
\* selected while connected has voted, in whatever order answers arrive: not
\* by the demo's vote, nor by a read that failed.
GreyedOnlyAfterVote == ~demoEnabled /\ hasVoted => asked \cap voters # {}

\* When the buttons come back after an action, and nothing failed, the page
\* shows the proposal as the action left it or later, also when other reads
\* have overlapped with it, or demo mode was switched on and off meanwhile.
ActionShown ==
    [][busy /\ ~busy' /\ ~error' /\ ~readError' =>
           shown' \in Status /\ Rank[shown'] >= Rank[acted]]_pageVars

\* The buttons come back after every click, refused, failed or done, unless the
\* pool has forgotten the extrinsic: nothing then ends signAndSend's promise.
BusyEnds == busy ~> (~busy \/ tx.stage = "lost")
=============================================================================

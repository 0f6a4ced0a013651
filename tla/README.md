# VendorDAO: specifications, model checking and proofs

VendorDAO is a public treasury for small vendors. Residents and donors put money into a pot;
vendors ask for a share of it; an administrator vets what they ask; residents vote; what passes
is paid. The rules are one FRAME pallet (`chain/pallets/vendor-dao`); around it are a Next.js
front end, a Stripe gateway that mints currency, a KYC review and a demo mode that replays the
rules in the browser. This directory holds TLA+ specifications of the system, the TLC
configurations that check them, and TLAPS proofs about them.

    tlc -workers 2 -config voting.cfg MCVendorDao.tla     # one run
    tlapm VendorDaoVotes.tla                              # one module of proofs

Paths below are relative to the repository's root (`src/` in `PROJECT.json`); `lib.rs` is
`chain/pallets/vendor-dao/src/lib.rs`, `F/` is `frontend/src/`.

## 1. Inventory

| component | where | state | operations | hard behaviour |
|---|---|---|---|---|
| treasury | `lib.rs` | pot account, `TotalFundsReceived`, `TotalFundsDisbursed`, `Donors`, `Grants`, `GrantCount` | `fund_treasury`, `register_donor`, `submit_grant`, `stake_mint`, the money side of `try_disburse` | money that reaches the pot without the pallet, the existential deposit, payouts that fail |
| residency | `lib.rs` | `KycRecords` | `submit_kyc`, `set_kyc_status`, the test in `vote` | resubmission in every state, expiry, stale approvals |
| vendor registry | `lib.rs` | `Vendors`, `VendorUpdates`, `VendorUpdateCount` | `register_vendor`, `update_vendor_profile`, `set_vendor_verified`, `post_vendor_update` | payout totals kept apart from the proposals |
| funding process | `lib.rs` | `Rfps`, `Proposals`, `VoteOf` and their counters | `post_rfp`, `close_rfp`, `submit_proposal`, `vet_proposal`, `vote`, `close_proposal`, `disburse`, `cancel_proposal` | seven statuses, calls racing around a deadline nobody announces, retried payouts |
| receipts | `lib.rs` | `SpendingReceipts`, `SpendingReceiptCount` | `post_spending_receipt` | a cap over a sum |
| runtime, node | `chain/runtime`, `chain/node` | - | constants and origins | `DustRemoval = ()`, `AllowDeath` transfers |
| stake gateway | `F/app/stake`, `F/app/api/stake`, `F/lib/server/chainSigner.ts` | Stripe's sessions and what it still has to deliver, webhook requests in hand, the process's connection, extrinsics in the pool | checkout, webhook, sign, status callback | at-least-once delivery, two requests with one nonce, restarts, dropped extrinsics, forks, an answer that never comes, errors that every retry meets again |
| demo mode | `F/lib/demo` | a replica of the pallet in the state of one React component | the pallet's calls, as the pages make them | updaters that run at once or with the next render, and read what other updaters write |
| client shell | `DemoModeContext.tsx`, `F/lib/polkadotApi.ts`, `usePolkadotApi.ts`, `useWallet.tsx` | the mode and its memory, the cached connection, the wallet's accounts | switch, reload, connect, select | effects of the first render, answers that come after a switch |
| proposal page | `F/app/proposals/[id]/page.tsx`, `useProposal.ts`, `signAndSend.ts` | what is shown, whether one has voted, one transaction under way | open, select, vote and the other buttons | overlapping reads answered in any order, failed reads, a transaction the pool forgets, a visit to demo mode in between |
| receipt form | the same page, `fileHash.ts`, `attachmentCache.ts`, `useSpendingReceipts.ts` | the attachment, its preview, the copy kept in the browser | choose, detach, post | a file that is changed while it is previewed, hashed, read and signed |
| KYC page and desk | `F/app/kyc/page.tsx`, `useKyc.ts` | the selected account's record, the administrator's list | read, submit, approve, reject | decisions on replaced requests, reads for another account that are answered late, the block at which an approval ends |
| email proof | `F/app/vendors/register/page.tsx`, `EmailVerification.tsx`, `F/app/api/vendor-verification`, `verificationToken.ts` | the form; the server keeps nothing but what it signs | challenge, send, confirm, register | an address that changes between two steps, tokens that expire and that the page can read, answers that are lost |
| map | `VendorMap.tsx` | the script's promise, pins, filters | open, filter, draw, geocode | geocoder answers after a redrawing, scripts that fail, visits that end early |
| ledger and dashboard | `F/lib/ledger.ts`, `F/app/ledger`, `F/app/page.tsx`, `decode.ts`, the list hooks | - | rows, history, breakdowns | five derivations of the same totals, from lists read one by one |
| token amounts | `F/lib/chain.ts` | - | parse, format | digits and decimals |
| other pages, presentation | `F/app`, `F/components`, `F/lib/translate.ts`, ... | one read or submission each, caches | - | the patterns of the proposal page and the receipt form |

How they interact: every account talks to the pallet by signed extrinsics, which run one after
the other, each in a storage layer that is rolled back if it fails. Origins are checked by the
runtime: the administrator vets, verifies and opens RFPs, the gateway's account mints, anybody
else does the rest. The pallet moves money through `pallet_balances`. Inside the pallet the
funding process reads residency (who may vote) and the registry (who may be paid), and writes
treasury and registry when it pays. There is no hook: nothing happens unless somebody sends a
call, which is why deadlines and payouts need a keeper. The front end reads the chain's storage
and sends extrinsics; the gateway sends `stake_mint` when Stripe reports a payment. In demo mode
every page reads and writes the replica instead and is given no connection; the promise that
`getApi` keeps, and the socket behind it, stay open.

What makes each part correct:

* treasury - every unit that reached the pot can be accounted for; the donors' books, the grants
  and the totals agree;
* residency - an approval is good for the ward that was approved, once, and for one period;
* registry - what a vendor is said to have received is what the proposals say it was paid;
* funding process - a tally is a count of recorded votes, a decision is a function of the tally
  at the deadline, a payment follows exactly one decision and happens once, and no poll or
  approved payment is stuck;
* receipts - they never claim more than was paid;
* gateway - nothing is minted that was not paid, an acknowledged payment is minted, what is minted
  twice had a fault outside the code, and every payment for an account is minted in the end;
* demo mode - its books balance, and payouts and votes are counted once, whenever React runs the
  updaters;
* shell and pages - in demo mode the pages are offline, the choice survives, an action's effect is
  on the page when its buttons come back, and they do come back;
* forms - a receipt has the file and the amount it was clicked with, and an address is confirmed by
  the code that was issued for it. Not more: without `SMTP_HOST` the code is not mailed but returned
  and shown (`F/lib/server/mailer.ts:16`, `EmailVerification.tsx:127`), and the token that the page
  holds is signed and not encrypted (`verificationToken.ts:12`), so confirming an address does not
  take reading its mail;
* views - every derived total is the pallet's, as far as the lists on the page go.

## 2. Modules

    Frame <- Balances <- Treasury \
    Frame <- Residency             -> Proposals <- VendorDao <- VendorDaoMandate <- MCVendorDao <- MCWardsAndMoney
    Frame <- Registry             /                    |               + INSTANCE Mandate
                                                       +- ChainViews (with LedgerView) <- MCChainViews
    Treasury <- StakeGateway <- MCStakeGateway
    Frame <- DemoSeeds <- DemoMode <- DemoLedger (with LedgerView) <- MCDemo
    ClientShell, ProposalPage, EmailProof, VendorMap, TokenAmount <- MCPages
    Residency <- KycDesk ; KycDesk, ReceiptForm <- MCFilings
    proofs: MapLemmas <- VendorDaoTypes <- { VendorDaoVotes (with VendorDaoMandate),
                                             VendorDaoMoney (with ChainViews) } ;
            MapLemmas <- StakeGatewayProofs, FilingProofs, DemoProofs (with DemoLedger) ; PageProofs

The pallet:

* **Frame** - accounts, `Option::None`, storage maps (a function on the keys that hold a value).
* **Balances** - `pallet_balances`, which is not in the repository: modelled from the two calls
  the pallet makes and the runtime's configuration of it. A transfer is `Expendable`: a sender
  left with less than the existential deposit is reaped and the rest burnt.
* **Treasury** - pot, totals, donors, grants and mint. `offLedger` and `potDust` are history
  variables: money that reached the pot by a plain transfer or a mint, and dust the pot lost.
* **Residency** - block number and KYC records. `approvals` is a history variable.
* **Registry** - vendors.
* **Proposals** - RFPs, proposals, votes, tally, payout. `wardBallots` is a history variable:
  under which approval of its voter each ward-scoped vote was cast.
* **VendorDao** - receipts and updates, the whole `Next`, `Spec`, `KeeperSpec` and all properties
  that relate several parts.
* **Mandate** - the abstract specification: a ballot box, decisions that count it, payments that
  follow a decision once. No clock, tally, residency or pot.
* **VendorDaoMandate** - the refinement mapping and the property `ImplementsMandate`.

Around it:

* **StakeGateway** - Stripe's sessions, webhook requests as the steps between their `await`s, the
  connection that the process keeps (`api`: a promise that was rejected is never made again before a
  restart), the pool, blocks and forks, on the pallet's own `StakeMint`. A session may be for an
  address that no account has (`Undecodable`), which the checkout takes and the mint throws at. What
  goes wrong outside the code (a second delivery, a hang-up, a restart, a failed connection, a
  dropped or retracted extrinsic) draws on one budget, `faults`, so that properties can say how many
  faults an anomaly needs.
* **DemoSeeds**, **DemoMode** - the example data, and one action per operation that a page calls,
  with the page's condition for calling it. React runs an updater at once or during the next
  render; the two handlers that depend on it (`disburse`, `closeProposal`) take that as a
  parameter, `eager`, and the microtask of `closeProposal` is an action of its own.
* **LedgerView** - `ledger.ts` as operators. A slice of a breakdown is the set of payouts that it adds
  up: the number drawn is a sum of `Number(formatTokenAmount(..))`, floating-point tokens, and exact
  only for amounts like the demo's, which are whole. **ChainViews** lets the pages load the pallet's
  lists, each by a read of its own at any moment (`loaded`), and looks at what is on the page then;
  **DemoLedger** applies all of it to the demo's lists.
* **ClientShell** - the mode switch with `localStorage`, the connection promise that `getApi`
  caches, `usePolkadotApi`'s effect with its `cancelled` flags, the wallet. The switch may be
  clicked before the first effects have run; `chosen` is a history variable: the modes that were
  chosen by the last click and may rightly show.
* **ProposalPage** - reads with the steps sent, answered by the node, received, any of them first;
  one transaction with its stages and the read that ends it; other people's calls. The chain is a
  status and a set of voters; `asked` and `acted` are history variables.
* **KycDesk** - two browsers over module `Residency`. The reads of the effect, `handleSubmit`'s own
  read, the desk's lists and its decisions each end in any order; a header that reaches the page is
  that of a sealed block, so that extrinsics run in a later one. `decided` and `since` are history
  variables: how often an account's last request was decided, and the records it had since.
* **ReceiptForm** - the attachment and its preview, the post as its steps, the browser's cache;
  `clicked`, a history variable, is what the button was last clicked with.
* **EmailProof** - the form, the component's stages, the tokens, a server with and without mail; a
  request at a time. `issued` and `confirmed` are history variables; any code issued so far may be
  typed, whoever reads the mail.
* **VendorMap** - script, map, filters, pins by the drawing that made them, geocoder calls.
* **TokenAmount** - `parseTokenAmount` and `formatTokenAmount` on digit sequences, with powers of ten
  as a recursive function (`Ten`), which the proofs can unfold.

Modules with `MC` in front give constants their values. Two of them compose parts that share no
state. **MCPages** puts the shell and four pages side by side: a browser tab has one page open, so a
behaviour is one of one part, chosen initially, and the state space is the sum of the parts' and
not their product. **MCFilings** does the same for the two forms that file a document. It also splits
the requests by what a behaviour is about, as **MCDemo**, **MCChainViews** and **MCWardsAndMoney** do
(changes of account or the end of a verification; money, votes or forms of the demo; RFPs and
responses, payouts and books, or lists of the pallet; wards or money): the actions are the module's
own, and a constraint on steps says what may change.

### From code to model

One action of the pallet is one extrinsic, from its first `ensure!` to its last write, including
the nested `try_disburse`, whose failed transfer is swallowed and leaves the proposal `Approved`. A
call that returns an error changes nothing in FRAME, so it is a stuttering step and not an action.
The order of two extrinsics, in one block or in two, is the interleaving of actions; `Tick` is the
next block.

In the front end and on the server an action is what runs between two `await`s or two events: a
handler with the render and the effects it causes, an answer of the node, of the wallet's
extension, of Stripe or of Google. A closure of an older render keeps what it captured: the account
a read is for, the file a post was clicked with, the api of a click. `map` in `PROJECT.json` gives
the lines of every definition; definitions marked external stand for what is not in the repository
(balances, Stripe, pool and forks, mail).

Left out on purpose: names, descriptions, hashes, dates that no rule reads; events and weights;
fees; the `u128` and `u32` limits of amounts and ids (the arithmetic saturates, far above any
issuance a chain of this kind has; ids count extrinsics that cost a fee). `set_kyc_status`,
`vet_proposal`, `post_rfp`, `close_rfp`, `set_vendor_verified` and `stake_mint` need an origin the
runtime grants to the administrator or the gateway: their actions have no signer. In
`StakeGateway` an amount is counted in thousandths; in `DemoMode` in thousands of tokens.

Bounds: constants named `Max...` and, in the demo, `New...` are guards that exist only to make the
state space finite. The sets `Contributor`, `Resident`, `Candidate`, `Proposer`, `Voter` say which
accounts try which signed call, `Visited`, `Opened` and `OpenedRfps` which accounts and pages a
visit of the demo uses. The proofs hold for every value of all of them.

## 3. Runs

State counts are of the complete state graph.

| run | module | properties | instance | states |
|---|---|---|---|---|
| `voting` | MCVendorDao | `TypeOK`, `TallyIsRecount`, `DecisionMatchesRecount`, `PollsStayClosed` | 3 voters, 2 of them residents of one district (symmetric), 1 proposal, quorum 2, blocks 0..3 around a deadline one block after vetting, records that expire one block after approval, a pot filled during the run | 742 056 |
| `wards_money` | MCWardsAndMoney | wards: `OneWardPerApproval`, `WardFixedByApproval`; money: `PotAccounted`, `PayoutsBooked`, `DonorBooksBalance` | wards: 1 resident, 2 districts and citywide, 2 proposals, 2 approvals, resubmission and rejection at any time; money: existential deposit 2, amounts 1 to 3, gifts, mints, grants, a vendor whose account does not exist yet, a receipt for a payout | 1 338 339 |
| `records` | MCChainViews | `ViewsAddUp`, `RfpTermsHold`, `ReceiptsCovered`, `AppendOnly` | 2 proposals, 1 RFP, 1 grant, 2 profiles, 2 receipts, 1 update, lists of proposals and vendors read at any moments | 596 129 |
| `progress` | MCVendorDao | `ImplementsMandate`, `PollsEnd`, `ApprovedGetPaid` | `KeeperSpec`, 2 proposals of amounts 1 and 2, 2 voters, a pot filled in steps of 2, a receipt | 152 604 |
| `stake` | MCStakeGateway | `MintsArePaid`, `ExtraMintsNeedFaults`, `AnsweredIsMinted`, `PaidGetMinted` | 2 sessions, 2 requests at a time, 2 faults, a seed that is missing, wrong or right, an account's address or one that no account has | 162 957 |
| `demo` | MCDemo | `DemoTypeOK`, `DemoBooksBalance`, `VendorsMatchFunded`, `DemoViewsAddUp`, `VotesDecide` | the seeds, 3 kinds of visit, both timings of every updater | 118 626 |
| `pages` | MCPages | shell: `DemoOffline`, `ChoiceSurvives`; proposal: `GreyedOnlyAfterVote`, `ActionShown`, `BusyEnds`; email: `ConfirmedByItsCode`, `ReaderIsVerified`; map: `PinsAsFiltered`, `MapOrList`; amounts: `AmountsKept` | see the head of `pages.cfg` | 434 594 |
| `filings` | MCFilings | requests: `OneDecisionPerRequest`, `SubmissionShown`, `ExpiryAgrees`; receipts: `KeptBeforePosted`, `PostedAsClicked` | 2 requests, 2 decisions, a failed read, of 2 accounts in one block or of 1 in blocks 0..3 with records that expire one block after approval; 3 files, receipts of 1 and 2 | 2 719 894 |
| `ward_lock` | MCVendorDao | `WardLockedUntilExpiry` (violated) | 1 resident, 2 districts | - |
| `late_cancel` | MCVendorDao | `WithdrawnBeforeClose` (violated) | 1 proposal | - |
| `receipt_preview` | ReceiptForm | `KeyedByHash` (violated) | 2 images | - |
| `stake_unmintable` | MCStakeGateway | `CheckoutsAreMinted` (violated) | 1 session, no faults | - |

Why the bounds are enough to be interesting. A tally can go wrong with a repeated vote, a vote
before opening or one after the deadline: one proposal and three voters reach every combination
of quorum, majority and tie, and the clock passes both the deadline and the expiry of a record.
Two proposals are needed wherever they compete (for the pot, for ids, for an RFP) and where one
resident could vote in two districts. Two approvals of one resident are the least with which an
old ballot could meet a new approval. In `wards_money` the amounts lie on both sides of the existential
deposit, so that a payout may empty the pot to dust, fail because the vendor would stay below the
deposit, or fail for lack of funds. In `stake` two requests of one or of two sessions can read the
same nonce, and one fault is enough for a second mint or a connection that stays refused, two for a
lost payment. In `demo` three
approved or open proposals compete for the seeds' pot. In `records` a list may be older than the
other by any number of calls. In `pages` and `filings` two reads of effects can overlap, with each
other and with the one that ends an action, and are answered in either order; a switch
of mode or account falls between any two steps of a transaction or a request, and every failure happens at least once; a redrawing of the map follows another while the geocoder has
not answered; two decimals and a digit more let an amount be padded, cut and exact.

The runs spend their properties on what can go wrong between steps. `TypeOK` and `DemoTypeOK` are
the type invariants among them; those of the shell, the receipt form and the gateway, `IdsDense` and
`ApprovalDated` are proved and in no run; the `...TypeOK` of the other front-end modules say which
values their variables take, hold on the same instances, and are in no run either.

`CHECK_DEADLOCK FALSE` is set where all bounded calls can be used up: the model then stops, as
the real system would when nobody does anything.

### What the runs say

* `TallyIsRecount`, `DecisionMatchesRecount`: the tally in `Proposals` and the records in `VoteOf`
  are two storage items; they agree in every state, and every decision stands in a recount. (That
  an extrinsic takes effect as a whole is FRAME's doing, and no property is about it.)
* `AppendOnly`: votes, grants, receipts and updates are never rewritten, and a decision is final:
  nothing but the payment follows an approval, and nothing follows the other outcomes.
* `PayoutsBooked`: `close_proposal` and any number of `disburse` calls pay each proposal once; the
  total and each vendor's totals are what the funded proposals add up to.
* `PotAccounted`: `balance + disbursed + dust = received + offLedger`. The two public totals alone
  do not explain the balance: gifts, mints to the pot's address and dust are the difference.
* `OneWardPerApproval`: a resident that resubmits, is approved again and votes elsewhere never
  votes in two wards under one approval.
* `ImplementsMandate`: all of it seen from outside. Decisions in `Mandate` count the ballot box,
  not the tallies.
* `ViewsAddUp`: of lists that were read at different moments, every breakdown accounts for each payout
  once, all of them are worth no more than the pallet's total, and where bar and vendor's record
  count the same payouts they are worth the same. `DemoViewsAddUp`: rows, curves and breakdowns of
  the demo add up to the totals kept beside them.
* `MintsArePaid`, `ExtraMintsNeedFaults`, `AnsweredIsMinted`, `PaidGetMinted`: the webhook keeps no
  record of what it minted, so a second mint is possible; it takes a fault outside the code. A
  payment for an account is minted in the end, given a right seed and a connection. One that
  was acknowledged is minted unless two of them meet (the extrinsic was retracted and then dropped).
* `DemoBooksBalance`, `VendorsMatchFunded`, `VotesDecide`: what the replica keeps under either
  timing of React's updaters.
* `ActionShown`, `SubmissionShown`: nothing cancels a read or compares what it was for, but an action
  that was not refused ends with a read of its own, so when its buttons come back the page shows what
  it did or what became of that since. Nothing stays so: a read of an effect that is still under way
  may put an older answer on the page, or another account's (see below).
* `GreyedOnlyAfterVote`: what answers in any order cannot do. Whoever the notice is shown to, some
  account of this wallet has voted; neither the demo's vote nor a failed read greys the buttons.
* `ExpiryAgrees`: the page compares with the last sealed block and a vote runs in the next one. With
  the record up to date the page never says "expired" of what `vote` takes; at the header of
  `expires_at` itself it says "valid" of what `vote` will refuse, and at no later one.
* `ConfirmedByItsCode`: the token ties the code to its address through edits, second codes and late
  answers.
* `ReaderIsVerified`: two stages of the form have no button that leads on; from everywhere else
  somebody who reads the mail, or is shown the codes, gets through, whatever is lost or expires.
* `KeptBeforePosted`, `PostedAsClicked`: the file may be changed at any step of a post; what is posted
  is nevertheless what was attached and typed at the click, once for each.

### Where code and text differ

Four runs have a counterexample.

* `ward_lock`: `lib.rs:565` and `lib.rs:1094` say that an approval locks the declared ward until
  it expires. The code does not: `submit_kyc` overwrites a verified record at any time
  (`lib.rs:1075`) and loses the approval with it. What holds instead is `WardFixedByApproval`.
* `late_cancel`: `lib.rs:867` and `lib.rs:207` say that a proposal is withdrawn only before its
  voting closes. `cancel_proposal` looks at the status and not at the clock, so between the
  deadline and the first `close_proposal` a proposer can still withdraw, knowing the result.
* `receipt_preview`: `F/lib/attachmentCache.ts:4` calls the cache "keyed by their SHA-256 hash".
  The reader of a preview is not cancelled when another file is chosen
  (`F/app/proposals/[id]/page.tsx:119`), and its result is kept under the other file's hash.
* `stake_unmintable`: `F/app/api/stake/webhook/route.ts:5` says that the webhook mints "on a completed
  checkout". `create-checkout-session/route.ts:15` takes any non-empty address; for one that
  `stakeMint` cannot encode (`chainSigner.ts:29`) every delivery ends in a 500, although seed,
  connection and chain are in order.

Others were met while modelling. They are in the models, and the properties are stated so as to
say what holds in spite of them; no run lists them:

* `F/app/api/stake/webhook/route.ts:40` mints for every delivery of an event it answers, and
  `create-checkout-session/route.ts:43` charges whole cents for an amount that is minted exactly.
* The demo's `closeProposal` (`DemoModeContext.tsx:276`) reads a flag that a late updater has not
  set, so an approval may attempt no payout although the comment says it mirrors the pallet; its
  `disburse` (`:247`) may take the money and leave the proposal approved, to be paid again.
  `submitKyc` (`:428`) writes the citizen's record whichever account is selected.
* The dashboard (`F/app/page.tsx:34`) builds its curves without grants, so more can be shown as
  disbursed than received; `ledger.ts:87` dates a withdrawn proposal by a deadline that may lie in
  the future; `F/app/ledger/page.tsx:46` passes no contributions off demo mode.
* `useWallet.tsx:75` stores the extension's accounts also when demo mode was entered meanwhile;
  `useProposal.ts:28` stores a read that was sent before.
* The effect at `F/app/proposals/[id]/page.tsx:62` stores whichever answer to `voteOf` comes last, so
  "You already voted on this proposal" (`F/i18n/locales/en.json:62`) may be said to an account of the
  wallet that did not. `useKyc.ts:23` stores its answers in the same way, so with all of them there
  the page may show one account's record under another's name.
* `EmailVerification.tsx:85` marks as verified whichever address the form has by then: one typed
  while the code of another is being confirmed is taken for registration, which `README.md:94` says
  "requires verifying a real email address first". The effect that locks it again has run already.
* `F/app/kyc/page.tsx:178` offers the form before the first read is answered, over a verified record
  too. The desk's decision names an account (`lib.rs:1109`), so it may approve a request nobody
  looked at.
* `EmailVerification.tsx:84` has no way on from a verified address that is edited, and `:105` none
  from an expired challenge.
* `DemoModeContext.tsx:121` overwrites a click that came before it with what was stored.
* `polkadotApi.ts:8` keeps a promise that was rejected, on the server too, until the process ends.
* `VendorMap.tsx:304` adds late pins to a map drawn anew, `:337` pins closed RFPs.
* `chain.ts:34` takes zero for a valid positive amount, and anything below one planck for zero.

### Fairness

`Spec` and its like have none; it is added where a property needs it.

* `KeeperSpec`: weak fairness of block production and of `close_proposal` and `disburse` for every
  proposal: both calls may be sent by any account, for ever, and nothing in the pallet can disable
  them except the proposal's own progress. The pallet schedules neither call (there is no
  `on_initialize`), so the claims are about a chain on which somebody sends them. `PollsEnd` speaks
  of deadlines the bounded clock can pass; `ApprovedGetPaid` allows a pot that goes on being unable
  to pay. Nothing is assumed of contributors, voters or the administrator.
* `FairStakeSpec`: Stripe delivers what it owes, the server goes on with the requests in hand,
  and blocks include what waits. Faults are bounded, not fair. That there is in the end a process
  with the right seed whose connection was not refused is a premise of `PaidGetMinted`; a right seed
  is one of `CheckoutsAreMinted`. Stripe's own limit of retries is left out.
* `FairPageSpec`: the wallet's user answers its window, blocks are made, the callback runs, the
  node answers the read that ends an action; of the effects' reads nothing is assumed. A
  forgotten extrinsic is excepted in `BusyEnds` and not assumed away.
* `FairEmailSpec`: the server answers, and whoever fills in the form persists (strong fairness:
  answers may be lost in between, boundedly often). `FairMapSpec`: the script is loaded or fails.
  `PagesSpec` states the same of the part that is open. The shell and the two forms of `filings`
  have no liveness property and no fairness.

## 4. Proofs

Assumptions: those stated with the constants (accounts are finite in number, the pot's account is
none of them, periods, limits and amounts are natural numbers, nobody starts with a balance below
the existential deposit, `None` is not a number, `Citywide` is no district, somebody can describe
itself; for the gateway, that `None` is no request and no signer, and that what cannot be decoded is no
account; for the shell, that `None` is no Boolean; for the
proposal page, that `Nil` is no account, no answer and no transaction; for the KYC page, that `None`
is no submission and no record; for the map, that what a pin stands for is a vendor or else a project
or an RFP; for the receipt form, that `NoFile` is no file; for the demo, `FrameAssumption` and `DemoAssumption`; for amounts, that a
token has decimals and a digit is below ten). TLC evaluates each of them in every run of its part.
No theorem has a hypothesis of its own.

| theorem | module | says |
|---|---|---|
| `TypeCorrect`, `TermsHold`, `IdsAreDense` | VendorDaoTypes | `[]TypeOK`, `[]RfpTermsHold`, `[]IdsDense` |
| `TalliesAreRecounts`, `DecisionsStand`, `ClosedPollsStayClosed` | VendorDaoVotes | `[]TallyIsRecount`, `[]DecisionMatchesRecount`, `PollsStayClosed` |
| `ApprovalsGoodForOneWard`, `ApprovalsDated`, `VerifiedWardsWereDeclared` | VendorDaoVotes | `[]OneWardPerApproval`, `[]ApprovalDated`, `WardFixedByApproval` |
| `RecordsAreKept`, `PalletImplementsMandate` | VendorDaoVotes | `AppendOnly`, `ImplementsMandate` |
| `PotIsAccountedFor`, `DonorsAreBooked`, `PayoutsAreBooked`, `ReceiptsAreCovered` | VendorDaoMoney | `[]PotAccounted`, `[]DonorBooksBalance`, `[]PayoutsBooked`, `[]ReceiptsCovered` |
| `PagesAddUp` | VendorDaoMoney | `[]ViewsAddUp`, of `ViewsSpec` |
| `GatewayTyped`, `ChainHolds`, `MintsAreForPayments` | StakeGatewayProofs | `[]StakeTypeOK`, `[]ChainInv`, `[]MintsArePaid` |
| `ExtraMintsArePaidByFaults`, `AnswersStand` | StakeGatewayProofs | `[]ExtraMintsNeedFaults`, `[]AnsweredIsMinted` |
| `ShellTyped`, `AlwaysDemoOffline`, `AlwaysChoiceSurvives` | PageProofs | `[]ShellTypeOK`, `[]DemoOffline`, `[]ChoiceSurvives` |
| `GreyedButtonsHaveVoted`, `ActionsAreShown` | PageProofs | `[]GreyedOnlyAfterVote`, `ActionShown` |
| `AddressesAreConfirmedByTheirCodes`, `MapShowsWhatIsWanted` | PageProofs | `[]ConfirmedByItsCode`, `[]PinsAsFiltered` |
| `AmountsAreKept` | PageProofs | `[]AmountsKept` |
| `RequestsAreDecidedOnce`, `SubmissionsAreShown`, `PageAndPalletAgreeOnExpiry` | FilingProofs | `[]OneDecisionPerRequest`, `SubmissionShown`, `[]ExpiryAgrees` |
| `FormTyped`, `AlwaysKeptBeforePosted`, `PostsAreAsClicked` | FilingProofs | `[]FormTypeOK`, `[]KeptBeforePosted`, `PostedAsClicked` |
| `DemoTypesHold`, `DemoVotesDecide`, `DemoVendorsMatch` | DemoProofs | `[]DemoTypeOK`, `[]VotesDecide`, `[]VendorsMatchFunded` |
| `DemoBooksHold`, `DemoPagesAddUp` | DemoProofs | `[]DemoBooksBalance`, `[]DemoViewsAddUp` |

The arguments.

* **Types.** `TypeOK` is inductive by itself; the delicate part is that a transfer never takes a
  balance below zero and that the dust is not negative (`MoveType`).
* **Votes.** `TallyIsRecount` is not inductive: a new proposal could meet votes already recorded
  under its id. `VotesInv` adds `KeysKnown`: votes name existing proposals, and ids are below the
  counter. `BallotSteps` reduces `Next` to four cases: nothing, a submission, a change of one
  status with its reason (`Transition`), a vote. A vote adds one account to one of two disjoint
  sets of voters, which is one more in its cardinality. `DecisionMatchesRecount` follows from the
  tally being the recount when `close_proposal` reads it.
* **Wards.** `OneWardPerApproval` needs `BallotsUnderApproval`: a ballot's approval has happened,
  and if it is the voter's last one and the record is verified, the record names the ballot's
  ward. Approving again raises the count, so old ballots are no longer under the current approval.
* **Sums.** Books are sums over a finite set of records, and `SumFunction` is a fold in an order
  nobody specifies. `MapLemmas` proves by a counting argument what the provers cannot get by
  induction over an operator: a sum of natural numbers is the cardinality of its `Units`, `f[k]` of
  them for every `k`. A sum with one more number, one number replaced, under other names
  (`SumRenamed`) or taken group by group (`SumOfGroups`) follows from bijections of finite sets.
* **Money.** `PotAccounted` is inductive with `TypeOK`. The pot never signs, so a transfer from an
  account only adds to it, and a payout takes amount plus dust. `DonorBooksBalance` is inductive
  with dense ids: a grant is a record under a new id. `PayoutsBooked` needs that the payee of every
  proposal is registered (`RfpTermsHold`), or its payout would be credited to nobody, and that
  terms do not change after a payment; each step pays nothing or one proposal that was not yet
  funded (`StepPays`). `ReceiptsCovered` needs in addition that nothing funded stops being so.
* **Views.** `ListsInv`: what a list shows as funded is funded, for the same vendor, ward and amount
  (`Listed`), and a vendor's record is the count and the sum of a set of funded proposals, which is
  part of what the other list shows of that vendor or contains it, whichever was read first
  (`Recorded`): payouts come one after another and none goes away. The bars of a breakdown are groups
  of the payouts by a key, two sets in a chain with as many elements are one set (`SameSize`), and
  what is on the page is worth no more than all there is (`PartWorthLess`).
* **Terms.** `RfpTermsHold` needs that ids are unused before they are given (`CountsAhead`), and
  that no step changes what was agreed (`KeepsTerms`).
* **Refinement.** With the invariants of votes and terms, `close_proposal` is `Award`, `Pay` or
  `Defeat` (the tally is Mandate's count, by `MandatedIsPassed`), `disburse` is `Pay` or nothing,
  the registry and all other calls are stuttering steps. That the payee is registered is needed:
  `try_disburse` would otherwise pay without crediting anybody.
* **Ids and records.** `IdsDense` is inductive with `TypeOK`; only four calls add records
  (`StepIsRecordStep`), and a proposal without a receipt counter has no receipts, which is what a
  missing counter's default of 0 rests on (`ReceiptsBelow`). Since every counter is ahead of the
  ids in use, an insertion never meets an entry; and every call of a proposal's life tests its status
  first (`StepKeepsDecisions`). `AppendOnly` is both.
* **Shell.** `DemoOffline` needs `OfflineInv`: in demo mode every waiting call of `getApi` has been
  cancelled, so no answer can set the connection. `ChoiceSurvives` needs `ChoiceInv`: once
  hydrated, what is stored is what shows; before, what is stored may rightly become the mode, or
  nothing is, and then both what shows and the demo may be.
* **Gateway.** `ChainInv`: a signer's nonces are unique in pool and chain, what is included is below
  the signer's next nonce and what waits is not, whatever is signed is about a paid session, and
  everything is finite. `MintsArePaid` then is a sum with one number replaced, at each inclusion and
  each fork; that a fork can take back what it minted, so that the types hold, comes from the same
  sum. `ExtraMintsNeedFaults` needs a budget (`Within`): of every session the extrinsics, the
  requests that may still send one and the delivery still to come (`Due`) are together at most one
  more than the faults. `Due` is 0 once a request is `Promising`, that is, will not answer with an
  error unless a fault happens; without faults there is no gap among the gateway's nonces
  (`Calm`), so none is stuck. `AnsweredIsMinted` needs what was in the pool when a fork undid its
  block (`AnsweredInv`), with one fault for the fork and one for the drop.
* **Requests.** `DeskInv`: a request that waits was not decided yet (`UndecidedPending`), and what is
  stored for the account of a submission, and what its own read has brought, is among the records
  that account has had since (`SubmissionStored`), whatever other reads bring. `ExpiryAgrees` needs
  that the page's header is that of a sealed block.
* **Receipt form.** Both properties need `UnderWay`: a post that is under way has the file and the
  amount of the last click, which has posted nothing yet, and one that is about to be sent has kept
  its file, or the storage refused it.
* **E-mail.** `EmailInv`: as long as a code can be asked for or confirmed, the form's token is for a
  code that was issued for the token's address, whatever the form's address is by now.
* **Map.** `MapInv`: on a map that is made, projects and RFPs are as the filters want, and each vendor
  that they want is pinned, not found, without an address, or being looked up.
* **Proposal page.** A proposal's status only rises in `Rank` (`RankUp`). `PageInv`: the status is at or
  after what the last action led to, and so is what the action's own read has brought
  (`OwnReadRanked`); and the reads under way (`KnownRead`) that will say "voted" are of accounts that
  were selected while connected and have voted. Nothing is said of their order.
* **Amounts.** `AmountInv` says that what was sent is what the text parses to; the rest is arithmetic
  for any number of decimals and texts of any length. Induction over numbers is induction over the
  set of those that satisfy a claim (`NatSetInduction`), which needs no operator as a parameter. With it
  `Ten` and the left fold of `Value` are shown to be what their recursions say (`TenUnfolds`,
  `ReadsExists`), and a text's value to be the last of its running values (`ValueIs`); every fact about
  a text is then one such list of values: of two texts in a row, of zeros, of the digits of a number
  (`ValueOfPadded`). `ParsedIsTyped` compares both with more and with fewer digits than decimals,
  `ShownIsTyped` undoes `formatTokenAmount`, whose cut-off zeros the padding brings back.
* **Demo.** The seeds are literal tables; that they satisfy each invariant is computed, row by row
  and sum by sum. What a handler and its updaters leave is named once, whatever the timing (`Submits`,
  `Vets`, `Counts`, `Closes`, `PaidOut`, `Contributes`, `Gives`, `Receipts`, and `ProfileStep` for
  what touches no money and no vote): `StepKinds` reduces `Next` to these, and each invariant is
  proved of them. `DemoTypeOK` needs `Typed`: the lists are dense, so that one more than the
  largest id in use is unused (`HasMax`), entries name what is there, and what the microtask of
  `closeProposal` waits to pay was approved. `VotesDecide` needs that seeded proposals stay
  (`SeedsStay`), or a new one could take the id under which the seed's votes are counted.
  `VendorsMatchFunded` and `DemoBooksBalance` are sums to which at most one record is added, or a
  status changed once; the latter needs that a receipt's proposal is there (`ReceiptLinks`), or one
  submitted later would start with a receipt. `DemoViewsAddUp` follows from both in every state: the
  ledger's rows are the records under other names, the breakdowns group them (`GroupTotalsAddUp`),
  and a curve ends at the row with the latest block.

Only model-checked are the liveness properties `PollsEnd`, `ApprovedGetPaid`, `PaidGetMinted`, `BusyEnds`,
`ReaderIsVerified` and `MapOrList`: fairness and ENABLED are out of the prover's reach. Every safety
property of the runs, and every action property, is a theorem.

## 5. Not modelled, and why

* The node is the stock template; the runtime composes standard pallets and only its constants and
  origins matter here.
* `resetDemo` and `cancelProposal` of the demo are called by no page. React's `StrictMode`, which
  runs updaters twice in development builds, is left out.
* Of the demo: an RFP id typed into the address bar by hand.
* Of the proposal page: having left demo mode, the example stays until the next read is answered;
  the page's own vote is not read again after it is cast. Both are in the model as the code has
  them. The other pages read and submit once, with the same hooks: what they submit are actions of
  `VendorDao` and `DemoMode`, and their state adds no behaviour to those modelled.
* Stripe's identity check on the KYC page gates nothing. `payment_status` of a completed session is
  not looked at by the code, so it is no part of the model.
* Floating-point numbers: the sums that the charts draw (`ledger.ts:121`, `:148`, `:169`, `:197`), typed
  amounts, positions on the map. The derivation of addresses.
* Translation, geocoding's cache, icons, layout and languages keep no state that a rule depends on;
  mail delivery, Stripe, Google and the wallet's extension are outside the repository and appear
  only as the code uses them.

What could follow: a refinement of the demo to the pallet for one timing of the updaters; the
remaining list hooks with the connection lost and regained.

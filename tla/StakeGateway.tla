---------------------------- MODULE StakeGateway ----------------------------
(***************************************************************************)
(* Staking by card: the page asks the server for a Stripe checkout         *)
(* session, Stripe reports its end to the webhook, and the webhook mints   *)
(* the tokens with a stake_mint extrinsic of the gateway's account, on the *)
(* pallet's treasury of module Treasury.  Stripe, the transaction pool and *)
(* the chain's forks are outside this repository: they are modelled from   *)
(* how the webhook and the signer use them.  A card amount is counted in   *)
(* thousandths of a dollar (mills), and a token amount in thousandths of a *)
(* token.  What can go wrong outside the code is bounded by one budget.    *)
(***************************************************************************)
EXTENDS Treasury

CONSTANTS
    Undecodable, \* addresses that are none of an account of the chain
    Session,     \* Stripe checkout sessions
    Slot,        \* webhook requests the server may have in hand at a time
    Signer,      \* accounts a configured seed can belong to
    Gateway,     \* the one that PaymentGatewayOrigin accepts
    CardAmounts, \* card amounts tried, in mills
    MinMills,    \* MIN_USD
    MaxMills,    \* MAX_USD
    MaxRefused,  \* bound on the extrinsics sent under a wrong seed
    MaxFaults    \* bound on hang-ups, repeats, restarts, failed connections, drops, forks

ASSUME StakeGatewayAssumption ==
    /\ Gateway \in Signer
    /\ CardAmounts \subseteq Nat
    /\ MinMills \in Nat /\ MaxMills \in Nat
    /\ MaxRefused \in Nat /\ MaxFaults \in Nat
    /\ None \notin Signer
    /\ Undecodable \cap Account = {}

VARIABLES
    sessions,  \* Stripe's sessions: address, amount and how they ended
    owed,      \* sessions whose end Stripe has not been told was received
    seed,      \* the account of PAYMENT_GATEWAY_SEED, or None
    api,       \* apiPromise, the connection that the server's process keeps
    request,   \* the webhook requests in hand: slot -> request, or None
    nonce,     \* each signer's account nonce on the best chain
    pool,      \* the node's transaction pool
    included,  \* the extrinsics on the best chain
    faults     \* how much of the budget is spent

gatewayVars == <<sessions, owed, seed, api, request, nonce, pool, included, faults>>
stakeVars == <<gatewayVars, treasuryVars>>

\* create-checkout-session takes any address: what a wallet lists need not be
\* an account of this chain.
CheckoutSession ==
    [address : Account \cup Undecodable, mills : Nat, status : {"open", "completed", "expired"}]
Request ==
    [session : Session, stage : {"started", "signing", "sent"}, signer : Signer \cup {None},
     nonce : Nat, listening : BOOLEAN]
Extrinsic == [signer : Signer, nonce : Nat, session : Session]

\* No request has called getApi yet; or the promise was fulfilled, or rejected.
ApiPromise == {"none", "ready", "rejected"}

ASSUME NoRequestAssumption == None \notin Request

StakeInit ==
    /\ TreasuryInit
    /\ sessions = EmptyMap
    /\ owed = {}
    /\ seed \in Signer \cup {None}
    /\ api = "none"
    /\ request = [r \in Slot |-> None]
    /\ nonce = [k \in Signer |-> 0]
    /\ pool = {}
    /\ included = {}
    /\ faults = 0

Blame == faults < MaxFaults /\ faults' = faults + 1

\* parseTokenAmount(String(amountUsd)): exact for the decimals a mill has.
Tokens(mills) == mills

\* create-checkout-session's Ok answer: the session carries what the webhook
\* will need as metadata.
CreateSession(s, address, mills) ==
    /\ s \notin DOMAIN sessions
    /\ MinMills <= mills /\ mills <= MaxMills
    /\ sessions' = Put(sessions, s, [address |-> address, mills |-> mills,
                                     status |-> "open"])
    /\ UNCHANGED <<owed, seed, api, request, nonce, pool, included, faults, treasuryVars>>

\* The stake page's button, outside demo mode: an amount of at least a dollar
\* (the page knows no maximum) is posted to the route.
HandleStake(s, address, mills) ==
    /\ mills >= 1000
    /\ CreateSession(s, address, mills)

\* The customer pays, or lets the session expire; either way Stripe owes the
\* webhook an event about it.
EndSession(s, status) ==
    /\ s \in DOMAIN sessions
    /\ sessions[s].status = "open"
    /\ sessions' = [sessions EXCEPT ![s].status = status]
    /\ owed' = owed \cup {s}
    /\ UNCHANGED <<seed, api, request, nonce, pool, included, faults, treasuryVars>>

InHand(r) == request[r] # None
Heard(s) == \E r \in Slot : InHand(r) /\ request[r].session = s /\ request[r].listening

\* A request that passed the signature check starts on a free slot.
Accept(s, r) ==
    /\ request[r] = None
    /\ request' = [request EXCEPT ![r] =
            [session |-> s, stage |-> "started", signer |-> None, nonce |-> 0,
             listening |-> TRUE]]
    /\ UNCHANGED <<sessions, owed, seed, api, nonce, pool, included, treasuryVars>>

\* Stripe delivers what it owes, one attempt at a time, and now and then
\* delivers an event twice.
Deliver(s, r) == s \in owed /\ ~Heard(s) /\ Accept(s, r) /\ UNCHANGED faults

DeliverTwice(s, r) ==
    /\ s \in DOMAIN sessions
    /\ sessions[s].status # "open"
    /\ Accept(s, r)
    /\ Blame

\* Mutant of Answer: the webhook forgets to answer a minted event with a 2xx.
AnswerRetries(r, ok) ==
    /\ request' = [request EXCEPT ![r] = None]
    /\ UNCHANGED owed

\* The request is over: with a 2xx answer Stripe stops retrying, if it still
\* listens; with anything else it goes on.
Answer(r, ok) ==
    /\ owed' = IF ok /\ request[r].listening THEN owed \ {request[r].session} ELSE owed
    /\ request' = [request EXCEPT ![r] = None]

\* Mutant of Completed: the webhook mints for any event it gets.
AnyEvent(s) == TRUE

\* The end of the session that an event reports is a payment.
Completed(s) == sessions[s].status = "completed"

\* The next free nonce of an account, counting what waits in the pool.
NextIndex(k) ==
    LET taken == {x.nonce : x \in {y \in pool : y.signer = k}} IN
    CHOOSE n \in nonce[k] .. nonce[k] + Cardinality(pool) :
        n \notin taken /\ nonce[k] .. n - 1 \subseteq taken

\* The request is about to mint and asks for the connection.
Asks(r) ==
    /\ InHand(r) /\ request[r].stage = "started"
    /\ Completed(request[r].session) /\ seed # None

\* mintStakedTokens throws before it signs: it has no seed or no connection,
\* or stakeMint cannot encode the address.
Throws(s) == seed = None \/ api = "rejected" \/ sessions[s].address \in Undecodable

\* signAndSend reads the account's next nonce and signs.
Sign(r) ==
    /\ request' = [request EXCEPT ![r].stage = "signing", ![r].signer = seed,
                                  ![r].nonce = NextIndex(seed)]
    /\ UNCHANGED owed

\* Mutant of HandleEvent: a missing seed is logged and answered with a 2xx.
HandleEventUnseeded(r) ==
    LET s == request[r].session IN
    /\ InHand(r) /\ request[r].stage = "started"
    /\ seed \in Signer \ {Gateway} => NextIndex(seed) < MaxRefused
    /\ api' = IF Asks(r) /\ api = "none" THEN "ready" ELSE api
    /\ IF ~Completed(s) \/ seed = None THEN Answer(r, TRUE)
       ELSE IF Throws(s) THEN Answer(r, FALSE) ELSE Sign(r)
    /\ UNCHANGED <<sessions, seed, nonce, pool, included, faults, treasuryVars>>

\* POST up to the mint: an event that is not a payment is answered at once;
\* what the mint throws is answered with a 500; else the signer waits for the
\* connection, reads the account's next nonce and signs.
HandleEvent(r) ==
    LET s == request[r].session IN
    /\ InHand(r) /\ request[r].stage = "started"
    /\ seed \in Signer \ {Gateway} => NextIndex(seed) < MaxRefused
    /\ api' = IF Asks(r) /\ api = "none" THEN "ready" ELSE api
    /\ IF ~Completed(s) THEN Answer(r, TRUE)
       ELSE IF Throws(s) THEN Answer(r, FALSE) ELSE Sign(r)
    /\ UNCHANGED <<sessions, seed, nonce, pool, included, faults, treasuryVars>>

\* The extrinsic that request r signs.
Signed(r) ==
    [signer |-> request[r].signer, nonce |-> request[r].nonce,
     session |-> request[r].session]

\* The pool takes an extrinsic unless its nonce is used or taken: of two
\* requests that read the same nonce the second to submit is refused.
Admits(x) ==
    /\ x.nonce >= nonce[x.signer]
    /\ \A y \in pool : y.signer = x.signer => y.nonce # x.nonce

\* Mutant of Submit: the webhook answers as soon as the extrinsic is sent.
SubmitAndAnswer(r) ==
    /\ InHand(r) /\ request[r].stage = "signing"
    /\ Answer(r, Admits(Signed(r)))
    /\ pool' = IF Admits(Signed(r)) THEN pool \cup {Signed(r)} ELSE pool
    /\ UNCHANGED <<sessions, seed, api, nonce, included, faults, treasuryVars>>

\* signAndSend submits; a refusal rejects the promise (.catch(reject)).
Submit(r) ==
    /\ InHand(r) /\ request[r].stage = "signing"
    /\ IF Admits(Signed(r))
       THEN /\ pool' = pool \cup {Signed(r)}
            /\ request' = [request EXCEPT ![r].stage = "sent"]
            /\ UNCHANGED owed
       ELSE Answer(r, FALSE) /\ UNCHANGED pool
    /\ UNCHANGED <<sessions, seed, api, nonce, included, faults, treasuryVars>>

\* stake_mint succeeds for the extrinsic x: the gateway signed it.
Authorised(x) == x.signer = Gateway

\* The next extrinsic of a signer gets into a block.
Include(x) ==
    /\ x \in pool /\ x.nonce = nonce[x.signer]
    /\ pool' = pool \ {x}
    /\ included' = included \cup {x}
    /\ nonce' = [nonce EXCEPT ![x.signer] = @ + 1]
    /\ IF Authorised(x)
       THEN StakeMint(sessions[x.session].address, Tokens(sessions[x.session].mills))
       ELSE UNCHANGED treasuryVars
    /\ UNCHANGED <<sessions, owed, seed, api, request, faults>>

\* The status callback: rejects on a dispatch error, resolves in a block.
Notify(r) ==
    /\ InHand(r) /\ request[r].stage = "sent"
    /\ Signed(r) \in included
    /\ Answer(r, Authorised(Signed(r)))
    /\ UNCHANGED <<sessions, seed, api, nonce, pool, included, faults, treasuryVars>>

\* A promise that may never settle: the extrinsic was forgotten and its nonce
\* perhaps used by another, or it waits for one before it that was forgotten
\* (no branch of the callback handles any of these).  Stripe gives the attempt
\* up, and the platform reaps the request.
Stuck(r) ==
    /\ InHand(r) /\ request[r].stage = "sent"
    /\ Signed(r) \notin included
    /\ \/ request[r].nonce < nonce[request[r].signer]
       \/ \E n \in nonce[request[r].signer] .. request[r].nonce :
             \A x \in pool : x.signer = request[r].signer => x.nonce # n

GiveUp(r) ==
    /\ Stuck(r)
    /\ request' = [request EXCEPT ![r] = None]
    /\ UNCHANGED <<sessions, owed, seed, api, nonce, pool, included, faults, treasuryVars>>

\* Stripe stops waiting for an answer that is still on its way.
HangUp(r) ==
    /\ InHand(r) /\ request[r].listening
    /\ request' = [request EXCEPT ![r].listening = FALSE]
    /\ Blame
    /\ UNCHANGED <<sessions, owed, seed, api, nonce, pool, included, treasuryVars>>

\* The connection that a request asks for cannot be made: the promise that
\* getApi keeps is rejected, for this request and for all after it.
Disconnect ==
    /\ api = "none" /\ \E r \in Slot : Asks(r)
    /\ api' = "rejected"
    /\ Blame
    /\ UNCHANGED <<sessions, owed, seed, request, nonce, pool, included, treasuryVars>>

\* The server restarts, perhaps with another seed in its environment.
Redeploy(k) ==
    /\ seed' = k
    /\ api' = "none"
    /\ request' = [r \in Slot |-> None]
    /\ Blame
    /\ UNCHANGED <<sessions, owed, nonce, pool, included, treasuryVars>>

\* The pool forgets an extrinsic.
Drop(x) ==
    /\ x \in pool
    /\ pool' = pool \ {x}
    /\ Blame
    /\ UNCHANGED <<sessions, owed, seed, api, request, nonce, included, treasuryVars>>

\* Another fork becomes the best one: a signer's last extrinsic is undone and
\* waits in the pool again.
Retract(x) ==
    /\ x \in included /\ x.nonce + 1 = nonce[x.signer]
    /\ included' = included \ {x}
    /\ pool' = {y \in pool : y.signer # x.signer \/ y.nonce # x.nonce} \cup {x}
    /\ nonce' = [nonce EXCEPT ![x.signer] = @ - 1]
    /\ LET to == sessions[x.session].address
           amount == IF Authorised(x) THEN Tokens(sessions[x.session].mills) ELSE 0 IN
        /\ balance' = [balance EXCEPT ![to] = @ - amount]
        /\ minted' = minted - amount
    /\ Blame
    /\ UNCHANGED <<sessions, owed, seed, api, request, potDust, totalReceived,
                   totalDisbursed, donors, grantCount, grants, offLedger>>

Customer ==
    \/ \E s \in Session, a \in Account \cup Undecodable, m \in CardAmounts :
            HandleStake(s, a, m)
    \/ \E s \in Session, e \in {"completed", "expired"} : EndSession(s, e)

Server == \E r \in Slot : HandleEvent(r) \/ Submit(r) \/ Notify(r) \/ GiveUp(r)

Mischief ==
    \/ \E s \in Session, r \in Slot : DeliverTwice(s, r)
    \/ \E r \in Slot : HangUp(r)
    \/ Disconnect
    \/ \E k \in Signer \cup {None} : Redeploy(k)
    \/ \E x \in pool : Drop(x)
    \/ \E x \in included : Retract(x)

StakeNext ==
    \/ Customer
    \/ \E s \in Session, r \in Slot : Deliver(s, r)
    \/ Server
    \/ \E x \in pool : Include(x)
    \/ Mischief

StakeSpec == StakeInit /\ [][StakeNext]_stakeVars

\* Stripe goes on retrying (it does for days), the server answers, blocks are
\* produced.  Nothing is assumed of customers and of faults.
FairStakeSpec ==
    /\ StakeSpec
    /\ \A s \in Session : WF_stakeVars(\E r \in Slot : Deliver(s, r))
    /\ \A r \in Slot :
        WF_stakeVars(HandleEvent(r) \/ Submit(r) \/ Notify(r) \/ GiveUp(r))
    /\ WF_stakeVars(\E x \in pool : Include(x))
-----------------------------------------------------------------------------
GatewayTypeOK ==
    /\ IsMap(sessions, Session, CheckoutSession)
    /\ owed \subseteq DOMAIN sessions
    /\ seed \in Signer \cup {None}
    /\ api \in ApiPromise
    /\ request \in [Slot -> Request \cup {None}]
    /\ \A r \in Slot : InHand(r) /\ request[r].stage # "started" => request[r].signer # None
    /\ nonce \in [Signer -> Nat]
    /\ pool \subseteq Extrinsic /\ included \subseteq Extrinsic
    /\ faults \in 0 .. MaxFaults

StakeTypeOK == TreasuryTypeOK /\ GatewayTypeOK

MintsOf(s) == {x \in included : x.session = s /\ Authorised(x)}

\* Tokens are minted for payments only: what an account holds beyond its
\* genesis balance is what it staked in completed sessions, each counted as
\* often as it was minted, whatever was delivered, retried or undone.
MintsArePaid ==
    /\ \A x \in pool \cup included : sessions[x.session].status = "completed"
    /\ \A a \in Account :
        balance[a] = Genesis[a]
            + SumFunction([s \in {s \in DOMAIN sessions : sessions[s].address = a} |->
                            Cardinality(MintsOf(s)) * Tokens(sessions[s].mills)])

\* A payment is minted again only through a fault outside the code: neither
\* the handler's own errors, nor two requests racing for the same nonce, nor
\* retries after a 500 ever mint a second time.
ExtraMintsNeedFaults ==
    \A s \in Session : Cardinality(MintsOf(s)) <= 1 + faults

\* Once Stripe has been told that a payment was received it has been minted,
\* and only two faults in a row (a fork undoing the block the answer relied
\* on, then the pool forgetting the extrinsic) can lose it.
AnsweredIsMinted ==
    \A s \in DOMAIN sessions :
        sessions[s].status = "completed" /\ s \notin owed =>
            \/ MintsOf(s) # {}
            \/ \E x \in pool : x.session = s
            \/ faults >= 2

\* Whoever has paid for an account's address gets the tokens, if the operator
\* ends up with a process that has the right seed and its connection, and no
\* two faults undo an answered mint: refused extrinsics, lost answers, restarts
\* and lost extrinsics only delay it.
PaidGetMinted ==
    (<>[](seed = Gateway /\ api # "rejected"))
        => \A s \in Session :
            (s \in DOMAIN sessions /\ sessions[s].status = "completed"
                                  /\ sessions[s].address \in Account) ~>
                (MintsOf(s) # {} \/ (s \notin owed /\ faults >= 2))

\* What route.ts says of the webhook: "on a completed checkout, mints the
\* corresponding VDAO for the address that initiated the stake".
CheckoutsAreMinted ==
    (<>[](seed = Gateway))
        => \A s \in Session :
            (s \in DOMAIN sessions /\ sessions[s].status = "completed") ~> (MintsOf(s) # {})
=============================================================================

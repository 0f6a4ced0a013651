------------------------- MODULE StakeGatewayProofs -------------------------
(***************************************************************************)
(* The theorems about card payments, for every number of customers,        *)
(* concurrent webhook requests, seeds and faults: tokens are minted for    *)
(* payments only, a payment is minted again only through a fault outside   *)
(* the code, and an answered payment has been minted.                      *)
(***************************************************************************)
EXTENDS StakeGateway, MapLemmas

-----------------------------------------------------------------------------
\* The chain and the pool hold the extrinsics of a signer in the order of
\* their nonces, none twice.
NoncesInOrder ==
    /\ \A x \in included : x.nonce < nonce[x.signer]
    /\ \A x \in pool : nonce[x.signer] <= x.nonce
    /\ \A x, y \in included : x.signer = y.signer /\ x.nonce = y.nonce => x = y
    /\ \A x, y \in pool : x.signer = y.signer /\ x.nonce = y.nonce => x = y

\* Requests are about sessions that ended, and what is signed about paid ones,
\* for an account's address.
Ended(s) == s \in DOMAIN sessions /\ sessions[s].status # "open"
Paid(s) == s \in DOMAIN sessions /\ Completed(s)
Payable(s) == Paid(s) /\ sessions[s].address \in Account

RequestFounded(r) ==
    InHand(r) =>
        /\ Ended(request[r].session)
        /\ request[r].stage # "started" => Payable(request[r].session)

PaidOnly ==
    /\ \A x \in pool \cup included : Payable(x.session)
    /\ \A s \in owed : Ended(s)
    /\ \A r \in Slot : RequestFounded(r)

\* Only finitely many of anything are under way.
Busy == {r \in Slot : InHand(r)}

FinitelyMany ==
    /\ IsFiniteSet(pool) /\ IsFiniteSet(included)
    /\ IsFiniteSet(DOMAIN sessions) /\ IsFiniteSet(Busy)

ChainInv == GatewayTypeOK /\ NoncesInOrder /\ PaidOnly /\ FinitelyMany

-----------------------------------------------------------------------------
\* A finite set of numbers leaves a number free at or above any other.
LEMMA FreeNumber ==
    ASSUME NEW T, IsFiniteSet(T), NEW b \in Nat, NEW c \in Nat, Cardinality(T) <= c
    PROVE  \E n \in b .. b + c : n \notin T /\ b .. n - 1 \subseteq T
<1> DEFINE I == b .. b + c
           Upto == {i \in SUBSET I : \E n \in I : n \notin T /\ i = b .. n}
<1>1. IsFiniteSet(I) /\ Cardinality(I) = c + 1
  BY FS_Interval
<1>2. Cardinality(T) \in Nat
  BY FS_CardinalityType
<1>3. ~(I \subseteq T)
  BY <1>1, <1>2, FS_Subset
<1>4. PICK m \in I : m \notin T
  BY <1>3
<1>5. b .. m \in Upto
  BY <1>4
<1>6. Upto \subseteq FiniteSubsetsOf(I) /\ Upto # {}
  BY <1>1, <1>5, FS_FiniteSubsetsOfFinite
<1>7. PICK i \in Upto : \A j \in Upto : <<j, i>> \notin StrictSubsetOrdering(I)
  <2> HIDE DEF Upto
  <2> QED
      BY <1>6, FS_StrictSubsetOrderingWellFounded, WFMin
<1>8. PICK n \in I : n \notin T /\ i = b .. n
  BY <1>7
<1>9. ASSUME NEW k \in b .. n - 1, k \notin T PROVE FALSE
  <2>1. k \in I /\ b .. k \subseteq I
    BY <1>8
  <2>2. b .. k \in Upto
    BY <1>9, <2>1
  <2>3. n \in b .. n /\ n \notin b .. k /\ b .. k \subseteq b .. n
    BY <1>8
  <2>4. <<b .. k, i>> \in StrictSubsetOrdering(I)
    BY <1>8, <2>1, <2>3 DEF StrictSubsetOrdering
  <2> QED
      BY <1>7, <2>2, <2>4
<1> QED
  BY <1>8, <1>9

\* The nonces of an account that wait in the pool.
Taken(k) == {x.nonce : x \in {y \in pool : y.signer = k}}

\* The signer's choice of a nonce is well-defined: a number that is free, with
\* none free below it.
LEMMA NextIndexIsFree ==
    ASSUME GatewayTypeOK, IsFiniteSet(pool), NEW k \in Signer
    PROVE  /\ NextIndex(k) \in Nat /\ nonce[k] <= NextIndex(k)
           /\ nonce[k] .. NextIndex(k) - 1 \subseteq Taken(k)
<1> DEFINE P == {y \in pool : y.signer = k}
<1>1. IsFiniteSet(P) /\ Cardinality(P) <= Cardinality(pool)
  BY FS_Subset
<1>2. IsFiniteSet(Taken(k)) /\ Cardinality(Taken(k)) <= Cardinality(P)
  <2>1. [x \in P |-> x.nonce] \in Surjection(P, Taken(k))
    BY DEF Surjection, Taken
  <2> QED
      BY <1>1, <2>1, FS_Surjection
<1>3. Cardinality(Taken(k)) \in Nat /\ Cardinality(P) \in Nat /\ Cardinality(pool) \in Nat
  BY <1>1, <1>2, FS_CardinalityType
<1>4. nonce[k] \in Nat
  BY DEF GatewayTypeOK
<1>5. Cardinality(Taken(k)) <= Cardinality(pool)
  BY <1>1, <1>2, <1>3
<1>6. \E n \in nonce[k] .. nonce[k] + Cardinality(pool) :
         n \notin Taken(k) /\ nonce[k] .. n - 1 \subseteq Taken(k)
  BY <1>2, <1>3, <1>4, <1>5, FreeNumber
<1>7. /\ NextIndex(k) \in nonce[k] .. nonce[k] + Cardinality(pool)
      /\ nonce[k] .. NextIndex(k) - 1 \subseteq Taken(k)
  BY <1>6 DEF NextIndex, Taken
<1> QED
  BY <1>3, <1>4, <1>7

-----------------------------------------------------------------------------
\* What a step does to the request on slot r: it becomes q.
Becomes(r, q) ==
    /\ request' = [request EXCEPT ![r] = q]
    /\ request' \in [Slot -> Request \cup {None}]
    /\ request'[r] = q
    /\ \A o \in Slot : o # r => request'[o] = request[o]

\* A request that is given up, answered or refused is no more.
LEMMA RequestEnds ==
    ASSUME GatewayTypeOK, NEW r \in Slot, request' = [request EXCEPT ![r] = None]
    PROVE  Becomes(r, None)
BY DEF GatewayTypeOK, Becomes

\* The requests that start, sign, send and lose their listener.
LEMMA RequestStarts ==
    ASSUME GatewayTypeOK, NEW r \in Slot, NEW s \in Session, Accept(s, r)
    PROVE  \E q \in Request :
            /\ Becomes(r, q)
            /\ q.session = s
            /\ q.stage = "started"
            /\ q.signer = None
            /\ q.nonce = 0
            /\ q.listening = TRUE
<1> DEFINE q == [session |-> s, stage |-> "started", signer |-> None, nonce |-> 0,
                 listening |-> TRUE]
<1>1. q \in Request
  BY DEF Request
<1>2. q.session = s /\ q.stage = "started" /\ q.signer = None /\ q.nonce = 0 /\ q.listening = TRUE
  OBVIOUS
<1>3. request' = [request EXCEPT ![r] = q]
  BY DEF Accept
<1> HIDE DEF q
<1>4. Becomes(r, q)
  BY <1>1, <1>3 DEF GatewayTypeOK, Becomes
<1> QED
  BY <1>1, <1>2, <1>4

Signs(r, k, n) ==
    request' = [request EXCEPT ![r].stage = "signing", ![r].signer = k, ![r].nonce = n]

LEMMA RequestSigns ==
    ASSUME GatewayTypeOK, NEW r \in Slot, InHand(r), NEW k \in Signer, NEW n \in Nat,
           Signs(r, k, n)
    PROVE  \E q \in Request :
            /\ Becomes(r, q)
            /\ q.session = request[r].session
            /\ q.stage = "signing"
            /\ q.signer = k
            /\ q.nonce = n
            /\ q.listening = request[r].listening
<1> DEFINE v == request[r]
           q == [v EXCEPT !.stage = "signing", !.signer = k, !.nonce = n]
<1>1. request \in [Slot -> Request \cup {None}] /\ v \in Request
  BY DEF GatewayTypeOK, InHand
<1>2. request' = [request EXCEPT ![r] = q]
  BY <1>1 DEF Signs
<1> HIDE DEF v
<1>3. q \in Request
  BY <1>1 DEF Request
<1>4. /\ q.session = v.session
      /\ q.stage = "signing"
      /\ q.signer = k
      /\ q.nonce = n
      /\ q.listening = v.listening
  BY <1>1 DEF Request
<1> HIDE DEF q
<1>5. Becomes(r, q)
  BY <1>1, <1>2, <1>3 DEF Becomes
<1> QED
  BY <1>3, <1>4, <1>5 DEF v

LEMMA RequestSends ==
    ASSUME GatewayTypeOK, NEW r \in Slot, InHand(r),
           request' = [request EXCEPT ![r].stage = "sent"]
    PROVE  \E q \in Request :
            /\ Becomes(r, q)
            /\ q.session = request[r].session
            /\ q.stage = "sent"
            /\ q.signer = request[r].signer
            /\ q.nonce = request[r].nonce
            /\ q.listening = request[r].listening
<1> DEFINE v == request[r]
           q == [v EXCEPT !.stage = "sent"]
<1>1. request \in [Slot -> Request \cup {None}] /\ v \in Request
  BY DEF GatewayTypeOK, InHand
<1>2. request' = [request EXCEPT ![r] = q]
  BY <1>1
<1> HIDE DEF v
<1>3. q \in Request
  BY <1>1 DEF Request
<1>4. /\ q.session = v.session
      /\ q.stage = "sent"
      /\ q.signer = v.signer
      /\ q.nonce = v.nonce
      /\ q.listening = v.listening
  BY <1>1 DEF Request
<1> HIDE DEF q
<1>5. Becomes(r, q)
  BY <1>1, <1>2, <1>3 DEF Becomes
<1> QED
  BY <1>3, <1>4, <1>5 DEF v

LEMMA RequestUnheard ==
    ASSUME GatewayTypeOK, NEW r \in Slot, HangUp(r)
    PROVE  \E q \in Request :
            /\ Becomes(r, q)
            /\ q.session = request[r].session
            /\ q.stage = request[r].stage
            /\ q.signer = request[r].signer
            /\ q.nonce = request[r].nonce
            /\ q.listening = FALSE
<1> DEFINE v == request[r]
           q == [v EXCEPT !.listening = FALSE]
<1>1. request \in [Slot -> Request \cup {None}] /\ v \in Request
  BY DEF GatewayTypeOK, HangUp, InHand
<1>2. request' = [request EXCEPT ![r] = q]
  BY <1>1 DEF HangUp
<1> HIDE DEF v
<1>3. q \in Request
  BY <1>1 DEF Request
<1>4. /\ q.session = v.session
      /\ q.stage = v.stage
      /\ q.signer = v.signer
      /\ q.nonce = v.nonce
      /\ q.listening = FALSE
  BY <1>1 DEF Request
<1> HIDE DEF q
<1>5. Becomes(r, q)
  BY <1>1, <1>2, <1>3 DEF Becomes
<1> QED
  BY <1>3, <1>4, <1>5 DEF v

\* What a request signs once it has a signer is an extrinsic.
LEMMA SignedType ==
    ASSUME GatewayTypeOK, NEW r \in Slot, InHand(r), request[r].stage # "started"
    PROVE  Signed(r) \in Extrinsic /\ request[r] \in Request
BY DEF GatewayTypeOK, Signed, InHand, Request, Extrinsic

\* A request's session, signer and nonce are of their types.
LEMMA InHandType ==
    ASSUME GatewayTypeOK, NEW r \in Slot, InHand(r)
    PROVE  /\ request[r] \in Request /\ request[r].session \in Session
           /\ request[r].nonce \in Nat /\ request[r].listening \in BOOLEAN
           /\ request[r].signer \in Signer \cup {None}
           /\ request[r].stage \in {"started", "signing", "sent"}
BY DEF GatewayTypeOK, InHand, Request

\* An extrinsic in the pool or on the chain, and its parts.
LEMMA ExtrinsicType ==
    ASSUME GatewayTypeOK, NEW x \in pool \cup included
    PROVE  /\ x \in Extrinsic /\ x.signer \in Signer /\ x.nonce \in Nat
           /\ x.session \in Session /\ nonce[x.signer] \in Nat
BY DEF GatewayTypeOK, Extrinsic

-----------------------------------------------------------------------------
\* Type correctness of the gateway.
RequestsTyped ==
    /\ request \in [Slot -> Request \cup {None}]
    /\ \A r \in Slot : InHand(r) /\ request[r].stage # "started" => request[r].signer # None

LEMMA BecomesTyped ==
    ASSUME GatewayTypeOK, NEW r \in Slot, NEW q, Becomes(r, q),
           q # None => (q.stage # "started" => q.signer # None)
    PROVE  RequestsTyped'
BY DEF GatewayTypeOK, Becomes, RequestsTyped, InHand

LEMMA AnswerTyped ==
    ASSUME GatewayTypeOK, NEW r \in Slot, NEW ok, InHand(r), Answer(r, ok)
    PROVE  RequestsTyped' /\ owed' \subseteq owed /\ Becomes(r, None)
<1>1. Becomes(r, None)
  BY RequestEnds DEF Answer
<1>2. RequestsTyped'
  BY <1>1, BecomesTyped
<1> QED
  BY <1>1, <1>2 DEF Answer

LEMMA GatewayTypeInit == StakeInit => GatewayTypeOK
<1> SUFFICES ASSUME StakeInit PROVE GatewayTypeOK
  OBVIOUS
<1>1. IsMap(sessions, Session, CheckoutSession)
  BY EmptyMapType DEF StakeInit
<1>3. api \in ApiPromise
  BY DEF StakeInit, ApiPromise
<1>2. faults \in 0 .. MaxFaults
  BY StakeGatewayAssumption DEF StakeInit
<1> QED
  BY <1>1, <1>2, <1>3 DEF StakeInit, GatewayTypeOK, InHand

LEMMA GatewayTypeStep == GatewayTypeOK /\ IsFiniteSet(pool) /\ [StakeNext]_stakeVars => GatewayTypeOK'
<1> SUFFICES ASSUME GatewayTypeOK, IsFiniteSet(pool), [StakeNext]_stakeVars
             PROVE  GatewayTypeOK'
  OBVIOUS
<1> DEFINE Others ==
        /\ IsMap(sessions, Session, CheckoutSession)
        /\ owed \subseteq DOMAIN sessions
        /\ seed \in Signer \cup {None} /\ api \in ApiPromise
        /\ nonce \in [Signer -> Nat]
        /\ pool \subseteq Extrinsic /\ included \subseteq Extrinsic
        /\ faults \in 0 .. MaxFaults
<1>a. RequestsTyped' /\ Others' => GatewayTypeOK'
  BY DEF GatewayTypeOK, RequestsTyped
<1>b. RequestsTyped /\ Others
  BY DEF GatewayTypeOK, RequestsTyped
<1>c. Blame => faults' \in 0 .. MaxFaults
  BY <1>b, StakeGatewayAssumption DEF Blame
<1>d. UNCHANGED request => RequestsTyped'
  BY <1>b DEF RequestsTyped, InHand
<1>1. ASSUME NEW s \in Session, NEW a \in Account \cup Undecodable, NEW m \in CardAmounts,
             HandleStake(s, a, m)
      PROVE  GatewayTypeOK'
  <2>1. m \in Nat /\ [address |-> a, mills |-> m, status |-> "open"] \in CheckoutSession
    BY StakeGatewayAssumption DEF CheckoutSession
  <2> DEFINE c == [address |-> a, mills |-> m, status |-> "open"]
  <2>3. sessions' = Put(sessions, s, c)
    BY <1>1 DEF HandleStake, CreateSession
  <2> HIDE DEF c
  <2>2. IsMap(sessions', Session, CheckoutSession) /\ DOMAIN sessions \subseteq DOMAIN sessions'
    <3>1. IsMap(sessions, Session, CheckoutSession) /\ c \in CheckoutSession
      BY <1>b, <2>1 DEF c
    <3>2. /\ IsMap(Put(sessions, s, c), Session, CheckoutSession)
          /\ DOMAIN Put(sessions, s, c) = DOMAIN sessions \cup {s}
      BY <3>1 DEF IsMap, Put
    <3> QED
        BY <2>3, <3>2
  <2> QED
      BY <1>1, <1>a, <1>b, <1>d, <2>2 DEF HandleStake, CreateSession
<1>2. ASSUME NEW s \in Session, NEW e \in {"completed", "expired"}, EndSession(s, e)
      PROVE  GatewayTypeOK'
  <2>1. s \in DOMAIN sessions /\ sessions[s] \in CheckoutSession
    BY <1>2, <1>b, MapValue DEF EndSession
  <2>2. [sessions[s] EXCEPT !.status = e] \in CheckoutSession
    BY <2>1 DEF CheckoutSession
  <2>3. IsMap(sessions', Session, CheckoutSession) /\ DOMAIN sessions' = DOMAIN sessions
    BY <1>2, <1>b, <2>1, <2>2, MutateMap DEF EndSession
  <2> QED
      BY <1>2, <1>a, <1>b, <1>d, <2>1, <2>3 DEF EndSession
<1>3. ASSUME NEW s \in Session, NEW r \in Slot, Accept(s, r)
      PROVE  RequestsTyped'
  <2>1. PICK q \in Request : Becomes(r, q) /\ q.stage = "started"
    BY <1>3, RequestStarts
  <2> QED
      BY <2>1, BecomesTyped
<1>4. ASSUME NEW s \in Session, NEW r \in Slot, Deliver(s, r) PROVE GatewayTypeOK'
  BY <1>4, <1>3, <1>a, <1>b DEF Deliver, Accept
<1>5. ASSUME NEW s \in Session, NEW r \in Slot, DeliverTwice(s, r) PROVE GatewayTypeOK'
  BY <1>5, <1>3, <1>a, <1>b, <1>c DEF DeliverTwice, Accept
<1>6. ASSUME NEW r \in Slot, HandleEvent(r) PROVE GatewayTypeOK'
  <2>0. UNCHANGED <<sessions, seed, nonce, pool, included, faults>>
    BY <1>6 DEF HandleEvent
  <2>4. api' \in ApiPromise
    BY <1>6, <1>b DEF HandleEvent, ApiPromise
  <2>1. InHand(r)
    BY <1>6 DEF HandleEvent
  <2>2. CASE Answer(r, TRUE) \/ Answer(r, FALSE)
    <3>1. RequestsTyped' /\ owed' \subseteq owed
      BY <2>1, <2>2, AnswerTyped
    <3> QED
        BY <2>0, <2>4, <3>1, <1>a, <1>b
  <2>3. CASE seed # None /\ UNCHANGED owed /\ Signs(r, seed, NextIndex(seed))
    <3>1. seed \in Signer /\ NextIndex(seed) \in Nat
      BY <2>3, <1>b, NextIndexIsFree
    <3>2. PICK q \in Request : Becomes(r, q) /\ q.signer = seed
      BY <2>1, <2>3, <3>1, RequestSigns
    <3>3. RequestsTyped'
      BY <2>3, <3>2, BecomesTyped
    <3> QED
      BY <2>0, <2>3, <2>4, <3>3, <1>a, <1>b
  <2> QED
      BY <1>6, <2>2, <2>3 DEF HandleEvent, Throws, Sign, Signs
<1>7. ASSUME NEW r \in Slot, Submit(r) PROVE GatewayTypeOK'
  <2>1. InHand(r) /\ request[r].stage = "signing"
    BY <1>7 DEF Submit
  <2>2. CASE Answer(r, FALSE) /\ UNCHANGED pool
    BY <1>7, <2>1, <2>2, <1>a, <1>b, AnswerTyped DEF Submit
  <2>3. CASE /\ request' = [request EXCEPT ![r].stage = "sent"]
             /\ pool' = pool \cup {Signed(r)} /\ UNCHANGED owed
    <3>1. Signed(r) \in Extrinsic /\ request[r].signer # None
      BY <2>1, <1>b, SignedType DEF RequestsTyped
    <3>2. PICK q \in Request : Becomes(r, q) /\ q.signer = request[r].signer
      BY <2>1, <2>3, RequestSends
    <3>3. RequestsTyped'
      BY <3>1, <3>2, BecomesTyped
    <3> QED
      BY <1>7, <2>3, <3>1, <3>3, <1>a, <1>b DEF Submit
  <2> QED
      BY <1>7, <2>2, <2>3 DEF Submit
<1>8. ASSUME NEW r \in Slot, Notify(r) PROVE GatewayTypeOK'
  BY <1>8, <1>a, <1>b, AnswerTyped DEF Notify
<1>9. ASSUME NEW r \in Slot, GiveUp(r) PROVE GatewayTypeOK'
  <2>1. Becomes(r, None)
    BY <1>9, RequestEnds DEF GiveUp
  <2>2. RequestsTyped'
    BY <2>1, BecomesTyped
  <2> QED
      BY <1>9, <2>2, <1>a, <1>b DEF GiveUp
<1>10. ASSUME NEW x \in pool, Include(x) PROVE GatewayTypeOK'
  <2>1. x \in Extrinsic /\ x.signer \in Signer /\ nonce[x.signer] + 1 \in Nat
    BY ExtrinsicType
  <2>2. nonce' \in [Signer -> Nat]
    BY <1>10, <1>b, <2>1 DEF Include
  <2> QED
      BY <1>10, <2>1, <2>2, <1>a, <1>b, <1>d DEF Include
<1>11. ASSUME NEW r \in Slot, HangUp(r) PROVE GatewayTypeOK'
  <2>1. PICK q \in Request : /\ Becomes(r, q) /\ q.stage = request[r].stage
                             /\ q.signer = request[r].signer
    BY <1>11, RequestUnheard
  <2>2. RequestsTyped'
    BY <1>11, <1>b, <2>1, BecomesTyped DEF HangUp, RequestsTyped
  <2> QED
      BY <1>11, <2>2, <1>a, <1>b, <1>c DEF HangUp
<1>12. ASSUME NEW k \in Signer \cup {None}, Redeploy(k) PROVE GatewayTypeOK'
  <2>1. RequestsTyped'
    BY <1>12 DEF Redeploy, RequestsTyped, InHand
  <2> QED
      BY <1>12, <2>1, <1>a, <1>b, <1>c DEF Redeploy, ApiPromise
<1>16. ASSUME Disconnect PROVE GatewayTypeOK'
  BY <1>16, <1>a, <1>b, <1>c, <1>d DEF Disconnect, ApiPromise
<1>13. ASSUME NEW x \in pool, Drop(x) PROVE GatewayTypeOK'
  BY <1>13, <1>a, <1>b, <1>c, <1>d DEF Drop
<1>14. ASSUME NEW x \in included, Retract(x) PROVE GatewayTypeOK'
  <2>1. x \in Extrinsic /\ x.signer \in Signer /\ nonce[x.signer] - 1 \in Nat
    BY <1>14, ExtrinsicType DEF Retract
  <2>2. nonce' \in [Signer -> Nat]
    BY <1>14, <1>b, <2>1 DEF Retract
  <2> QED
      BY <1>14, <2>1, <2>2, <1>a, <1>b, <1>c, <1>d DEF Retract
<1>15. CASE UNCHANGED stakeVars
  BY <1>15, <1>a, <1>b, <1>d DEF stakeVars, gatewayVars
<1> QED
  BY <1>1, <1>2, <1>4, <1>5, <1>6, <1>7, <1>8, <1>9, <1>10, <1>11, <1>12, <1>13, <1>14,
     <1>15, <1>16 DEF StakeNext, Customer, Server, Mischief

-----------------------------------------------------------------------------
\* The steps that change what is in the pool and on the chain.
LEMMA ChainSteps ==
    ASSUME [StakeNext]_stakeVars
    PROVE  \/ UNCHANGED <<nonce, pool, included>>
           \/ \E r \in Slot : Submit(r) /\ Admits(Signed(r))
           \/ \E x \in pool : Include(x) \/ Drop(x)
           \/ \E x \in included : Retract(x)
<1>1. ASSUME NEW s, NEW r, Accept(s, r) PROVE UNCHANGED <<nonce, pool, included>>
  BY <1>1 DEF Accept
<1>2. ASSUME NEW r, HandleEvent(r) \/ Notify(r) \/ GiveUp(r) \/ HangUp(r)
      PROVE  UNCHANGED <<nonce, pool, included>>
  BY <1>2 DEF HandleEvent, Notify, GiveUp, HangUp
<1>3. ASSUME NEW r, Submit(r), ~Admits(Signed(r)) PROVE UNCHANGED <<nonce, pool, included>>
  BY <1>3 DEF Submit
<1>4. ASSUME NEW k, Disconnect \/ Redeploy(k) PROVE UNCHANGED <<nonce, pool, included>>
  BY <1>4 DEF Disconnect, Redeploy
<1>5. ASSUME Customer PROVE UNCHANGED <<nonce, pool, included>>
  BY <1>5 DEF Customer, HandleStake, CreateSession, EndSession
<1>6. ASSUME UNCHANGED stakeVars PROVE UNCHANGED <<nonce, pool, included>>
  BY <1>6 DEF stakeVars, gatewayVars
<1> QED
  BY <1>1, <1>2, <1>3, <1>4, <1>5, <1>6
     DEF StakeNext, Server, Mischief, Deliver, DeliverTwice

\* What they do to it.
LEMMA Retracted ==
    ASSUME GatewayTypeOK, NoncesInOrder, NEW x \in included, Retract(x)
    PROVE  /\ pool' = pool \cup {x} /\ x \notin pool /\ included' = included \ {x}
           /\ nonce' = [nonce EXCEPT ![x.signer] = x.nonce]
           /\ x.nonce + 1 = nonce[x.signer]
<1>1. x.nonce + 1 = nonce[x.signer] /\ x.nonce \in Nat
  BY ExtrinsicType DEF Retract
<1>2. \A y \in pool : y.signer = x.signer => y.nonce # x.nonce
  <2>1. ASSUME NEW y \in pool, y.signer = x.signer, y.nonce = x.nonce PROVE FALSE
    BY <1>1, <2>1 DEF NoncesInOrder
  <2> QED
      BY <2>1
<1>3. pool' = pool \cup {x} /\ x \notin pool
  BY <1>2 DEF Retract
<1>4. nonce' = [nonce EXCEPT ![x.signer] = nonce[x.signer] - 1]
  BY DEF Retract
<1>5. nonce[x.signer] - 1 = x.nonce
  BY <1>1
<1> QED
  BY <1>1, <1>3, <1>4, <1>5 DEF Retract

\* No two extrinsics of a signer ever hold the same nonce.
LEMMA NoncesInOrderStep ==
    ASSUME GatewayTypeOK, GatewayTypeOK', NoncesInOrder, [StakeNext]_stakeVars
    PROVE  NoncesInOrder'
<1>1. CASE UNCHANGED <<nonce, pool, included>>
  BY <1>1 DEF NoncesInOrder
<1>2. ASSUME NEW r \in Slot, Submit(r), Admits(Signed(r)) PROVE NoncesInOrder'
  <2>1. /\ pool' = pool \cup {Signed(r)} /\ UNCHANGED <<nonce, included>>
    BY <1>2 DEF Submit
  <2>2. /\ Signed(r).nonce >= nonce[Signed(r).signer]
        /\ \A y \in pool : y.signer = Signed(r).signer => y.nonce # Signed(r).nonce
    BY <1>2 DEF Admits
  <2>3. Signed(r) \in Extrinsic
    BY <2>1 DEF GatewayTypeOK
  <2>4. Signed(r).nonce \in Nat /\ Signed(r).signer \in Signer /\ nonce[Signed(r).signer] \in Nat
    BY <2>3 DEF Extrinsic, GatewayTypeOK
  <2>5. nonce[Signed(r).signer] <= Signed(r).nonce
    BY <2>2, <2>4
  <2> QED
      BY <2>1, <2>2, <2>5 DEF NoncesInOrder
<1>3. ASSUME NEW x \in pool, Include(x) PROVE NoncesInOrder'
  <2>1. /\ x.nonce = nonce[x.signer]
        /\ pool' = pool \ {x} /\ included' = included \cup {x}
        /\ nonce' = [nonce EXCEPT ![x.signer] = x.nonce + 1]
    BY <1>3 DEF Include
  <2>2. \A y \in pool \cup included :
            y.signer \in Signer /\ y.nonce \in Nat /\ nonce[y.signer] \in Nat
    BY ExtrinsicType
  <2>3. nonce \in [Signer -> Nat]
    BY DEF GatewayTypeOK
  <2>4. \A y \in pool \cup included :
            nonce'[y.signer] = IF y.signer = x.signer THEN x.nonce + 1 ELSE nonce[y.signer]
    BY <2>1, <2>2, <2>3
  <2>5. ASSUME NEW y \in pool' PROVE nonce'[y.signer] <= y.nonce
    BY <2>1, <2>2, <2>4 DEF NoncesInOrder
  <2>6. ASSUME NEW y \in included' PROVE y.nonce < nonce'[y.signer]
    BY <2>1, <2>2, <2>4 DEF NoncesInOrder
  <2>7. ASSUME NEW y \in included, y.signer = x.signer PROVE y.nonce # x.nonce
    BY <2>1, <2>2, <2>7 DEF NoncesInOrder
  <2> QED
      BY <2>1, <2>5, <2>6, <2>7 DEF NoncesInOrder
<1>4. ASSUME NEW x \in pool, Drop(x) PROVE NoncesInOrder'
  BY <1>4 DEF Drop, NoncesInOrder
<1>5. ASSUME NEW x \in included, Retract(x) PROVE NoncesInOrder'
  <2>1. /\ x.nonce + 1 = nonce[x.signer]
        /\ pool' = pool \cup {x} /\ included' = included \ {x}
        /\ nonce' = [nonce EXCEPT ![x.signer] = x.nonce]
    BY <1>5, Retracted
  <2>2. \A y \in pool \cup included :
            y.signer \in Signer /\ y.nonce \in Nat /\ nonce[y.signer] \in Nat
    BY ExtrinsicType
  <2>3. nonce \in [Signer -> Nat]
    BY DEF GatewayTypeOK
  <2>4. \A y \in pool \cup included :
            nonce'[y.signer] = IF y.signer = x.signer THEN x.nonce ELSE nonce[y.signer]
    BY <2>1, <2>2, <2>3
  <2>5. ASSUME NEW y \in pool' PROVE nonce'[y.signer] <= y.nonce
    BY <2>1, <2>2, <2>4 DEF NoncesInOrder
  <2>6. ASSUME NEW y \in included' PROVE y.nonce < nonce'[y.signer]
    BY <2>1, <2>2, <2>4 DEF NoncesInOrder
  <2>7. ASSUME NEW y \in pool, y.signer = x.signer PROVE y.nonce # x.nonce
    BY <2>1, <2>2, <2>7 DEF NoncesInOrder
  <2> QED
      BY <2>1, <2>5, <2>6, <2>7 DEF NoncesInOrder
<1> QED
  BY <1>1, <1>2, <1>3, <1>4, <1>5, ChainSteps

-----------------------------------------------------------------------------
\* A session keeps its address, its amount and its end.
SameSession(s) ==
    /\ s \in DOMAIN sessions'
    /\ sessions'[s].address = sessions[s].address
    /\ sessions'[s].mills = sessions[s].mills
    /\ sessions[s].status # "open" => sessions'[s].status = sessions[s].status

LEMMA SessionsLast ==
    ASSUME GatewayTypeOK, [StakeNext]_stakeVars, NEW s \in DOMAIN sessions
    PROVE  SameSession(s)
<1>1. ASSUME UNCHANGED sessions PROVE SameSession(s)
  BY <1>1 DEF SameSession
<1>2. ASSUME NEW c \in Session, NEW a \in Account \cup Undecodable, NEW m \in CardAmounts,
             HandleStake(c, a, m)
      PROVE  SameSession(s)
  <2>1. s # c /\ s \in DOMAIN sessions' /\ sessions'[s] = sessions[s]
    BY <1>2 DEF HandleStake, CreateSession, Put
  <2> QED
      BY <2>1 DEF SameSession
<1>3. ASSUME NEW c \in Session, NEW e \in {"completed", "expired"}, EndSession(c, e)
      PROVE  SameSession(s)
  <2>1. sessions[c].status = "open" /\ sessions' = [sessions EXCEPT ![c].status = e]
    BY <1>3 DEF EndSession
  <2>2. s \in Session /\ sessions[s] \in CheckoutSession
    BY MapValue DEF GatewayTypeOK
  <2>3. CASE s = c
    <3>1. s \in DOMAIN sessions' /\ sessions'[s] = [sessions[s] EXCEPT !.status = e]
      BY <2>1, <2>3
    <3> QED
        BY <2>1, <2>2, <2>3, <3>1 DEF SameSession, CheckoutSession
  <2>4. CASE s # c
    BY <2>1, <2>4 DEF SameSession
  <2> QED
      BY <2>3, <2>4
<1>4. ASSUME NEW r, Server \/ HangUp(r) \/ (\E c : Deliver(c, r) \/ DeliverTwice(c, r))
      PROVE  UNCHANGED sessions
  BY <1>4 DEF Server, HandleEvent, Submit, Notify, GiveUp, HangUp, Deliver, DeliverTwice, Accept
<1>5. ASSUME NEW x, Include(x) \/ Drop(x) \/ Retract(x) PROVE UNCHANGED sessions
  BY <1>5 DEF Include, Drop, Retract
<1>6. ASSUME Disconnect \/ (\E k : Redeploy(k)) \/ UNCHANGED stakeVars PROVE UNCHANGED sessions
  BY <1>6 DEF Disconnect, Redeploy, stakeVars, gatewayVars
<1> QED
  BY <1>1, <1>2, <1>3, <1>4, <1>5, <1>6 DEF StakeNext, Customer, Mischief

LEMMA EndedLasts ==
    ASSUME GatewayTypeOK, [StakeNext]_stakeVars, NEW s
    PROVE  /\ Ended(s) => Ended(s)'
           /\ Paid(s) => Paid(s)'
           /\ Payable(s) => Payable(s)'
           /\ Ended(s) => (Paid(s)' => Paid(s))
BY SessionsLast DEF SameSession, Ended, Payable, Paid, Completed

Mintable(s) == Completed(s) /\ sessions[s].address \notin Undecodable

\* How a step changes the requests and the sessions whose end is owed: a
\* request starts, ends, or goes on, and all of them end in a restart.
LEMMA RequestSteps ==
    ASSUME GatewayTypeOK, IsFiniteSet(pool), [StakeNext]_stakeVars
    PROVE  \/ UNCHANGED request
           \/ \E s \in Session, r \in Slot : Deliver(s, r) \/ DeliverTwice(s, r)
           \/ \E r \in Slot : InHand(r) /\ Becomes(r, None) /\ UNCHANGED sessions
           \/ \E r \in Slot, q \in Request :
                /\ InHand(r) /\ Becomes(r, q) /\ UNCHANGED sessions
                /\ q.session = request[r].session
                /\ q.stage # "started" => request[r].stage # "started" \/ Mintable(q.session)
           \/ request' = [r \in Slot |-> None]
<1> DEFINE Goal ==
           \/ UNCHANGED request
           \/ \E s \in Session, r \in Slot : Deliver(s, r) \/ DeliverTwice(s, r)
           \/ \E r \in Slot : InHand(r) /\ Becomes(r, None) /\ UNCHANGED sessions
           \/ \E r \in Slot, q \in Request :
                /\ InHand(r) /\ Becomes(r, q) /\ UNCHANGED sessions
                /\ q.session = request[r].session
                /\ q.stage # "started" => request[r].stage # "started" \/ Mintable(q.session)
           \/ request' = [r \in Slot |-> None]
<1>1. ASSUME NEW r \in Slot, NEW ok, InHand(r), Answer(r, ok), UNCHANGED sessions PROVE Goal
  <2>1. Becomes(r, None)
    BY <1>1, AnswerTyped
  <2> QED
      BY <1>1, <2>1
<1>2. ASSUME NEW r \in Slot, HandleEvent(r) PROVE Goal
  <2>1. InHand(r) /\ UNCHANGED sessions
    BY <1>2 DEF HandleEvent
  <2>2. CASE Answer(r, TRUE) \/ Answer(r, FALSE)
    BY <2>1, <2>2, <1>1
  <2>3. CASE seed # None /\ Mintable(request[r].session) /\ Signs(r, seed, NextIndex(seed))
    <3>1. seed \in Signer /\ NextIndex(seed) \in Nat
      BY <2>3, NextIndexIsFree DEF GatewayTypeOK
    <3>2. PICK q \in Request : Becomes(r, q) /\ q.session = request[r].session
      BY <2>1, <2>3, <3>1, RequestSigns
    <3> QED
        BY <2>1, <2>3, <3>2
  <2> QED
      BY <1>2, <2>2, <2>3 DEF HandleEvent, Throws, Sign, Signs, Mintable
<1>3. ASSUME NEW r \in Slot, Submit(r) PROVE Goal
  <2>1. InHand(r) /\ request[r].stage = "signing" /\ UNCHANGED sessions
    BY <1>3 DEF Submit
  <2>2. CASE Answer(r, FALSE)
    BY <2>1, <2>2, <1>1
  <2>3. CASE request' = [request EXCEPT ![r].stage = "sent"]
    <3>1. PICK q \in Request : Becomes(r, q) /\ q.session = request[r].session
      BY <2>1, <2>3, RequestSends
    <3> QED
        BY <2>1, <3>1
  <2> QED
      BY <1>3, <2>2, <2>3 DEF Submit
<1>4. ASSUME NEW r \in Slot, Notify(r) PROVE Goal
  BY <1>4, <1>1 DEF Notify
<1>5. ASSUME NEW r \in Slot, GiveUp(r) PROVE Goal
  <2>1. InHand(r) /\ UNCHANGED sessions /\ Becomes(r, None)
    BY <1>5, RequestEnds DEF GiveUp, Stuck
  <2> QED
      BY <2>1
<1>6. ASSUME NEW r \in Slot, HangUp(r) PROVE Goal
  <2>1. InHand(r) /\ UNCHANGED sessions
    BY <1>6 DEF HangUp
  <2>2. PICK q \in Request : /\ Becomes(r, q) /\ q.session = request[r].session
                             /\ q.stage = request[r].stage
    BY <1>6, RequestUnheard
  <2> QED
      BY <2>1, <2>2
<1>7. ASSUME NEW k, Disconnect \/ Redeploy(k) PROVE Goal
  BY <1>7 DEF Disconnect, Redeploy
<1>8. ASSUME NEW x, Include(x) \/ Drop(x) \/ Retract(x) PROVE Goal
  BY <1>8 DEF Include, Drop, Retract
<1>9. ASSUME Customer \/ UNCHANGED stakeVars PROVE Goal
  BY <1>9 DEF Customer, HandleStake, CreateSession, EndSession, stakeVars, gatewayVars
<1> HIDE DEF Goal
<1>10. Goal
  <2>1. ASSUME NEW s \in Session, NEW r \in Slot, Deliver(s, r) \/ DeliverTwice(s, r) PROVE Goal
    BY <2>1 DEF Goal
  <2> QED
      BY <2>1, <1>2, <1>3, <1>4, <1>5, <1>6, <1>7, <1>8, <1>9 DEF StakeNext, Server, Mischief
<1> QED
  BY <1>10 DEF Goal

\* Whatever is under way stays about sessions that ended, and what is signed
\* about paid ones.
LEMMA FoundedStep ==
    ASSUME GatewayTypeOK, IsFiniteSet(pool), PaidOnly, [StakeNext]_stakeVars
    PROVE  \A r \in Slot : RequestFounded(r)'
<1>1. \A r \in Slot : RequestFounded(r)
  BY DEF PaidOnly
<1>2. \A s : (Ended(s) => Ended(s)') /\ (Payable(s) => Payable(s)')
  BY EndedLasts
<1>3. CASE UNCHANGED request
  BY <1>1, <1>2, <1>3 DEF RequestFounded, InHand
<1>4. ASSUME NEW s \in Session, NEW r \in Slot, Deliver(s, r) \/ DeliverTwice(s, r)
      PROVE  \A o \in Slot : RequestFounded(o)'
  <2>1. Ended(s)'
    BY <1>2, <1>4 DEF PaidOnly, Deliver, DeliverTwice, Ended
  <2>2. PICK q \in Request : Becomes(r, q) /\ q.session = s /\ q.stage = "started"
    BY <1>4, RequestStarts DEF Deliver, DeliverTwice
  <2> QED
      BY <1>1, <1>2, <2>1, <2>2 DEF RequestFounded, Becomes, InHand
<1>5. ASSUME NEW r \in Slot, Becomes(r, None) PROVE \A o \in Slot : RequestFounded(o)'
  BY <1>1, <1>2, <1>5 DEF RequestFounded, Becomes, InHand
<1>6. ASSUME NEW r \in Slot, NEW q \in Request, InHand(r), Becomes(r, q), UNCHANGED sessions,
             q.session = request[r].session,
             q.stage # "started" => request[r].stage # "started" \/ Mintable(q.session)
      PROVE  \A o \in Slot : RequestFounded(o)'
  <2>1. Ended(q.session) /\ (q.stage # "started" => Payable(q.session))
    <3>1. Ended(q.session) /\ (q.stage # "started" => Payable(q.session) \/ Mintable(q.session))
      BY <1>1, <1>6 DEF RequestFounded
    <3>2. \A s \in DOMAIN sessions : sessions[s].address \in Account \cup Undecodable
      <4>1. TAKE s \in DOMAIN sessions
      <4>2. sessions[s] \in CheckoutSession
        BY MapValue DEF GatewayTypeOK
      <4> QED
        BY <4>2 DEF CheckoutSession
    <3> QED
        BY <3>1, <3>2 DEF Ended, Payable, Paid, Mintable
  <2>2. Ended(q.session)' /\ (q.stage # "started" => Payable(q.session)')
    BY <1>2, <2>1
  <2> QED
      BY <1>1, <1>2, <1>6, <2>2 DEF RequestFounded, Becomes, InHand
<1>7. CASE request' = [r \in Slot |-> None]
  BY <1>7 DEF RequestFounded, InHand
<1> QED
  BY <1>3, <1>4, <1>5, <1>6, <1>7, RequestSteps

\* Nothing leaves or enters the debt of Stripe's notifications but by an
\* answer and by the end of a session.
LEMMA OwedSteps ==
    ASSUME [StakeNext]_stakeVars
    PROVE  \/ UNCHANGED owed
           \/ \E s \in Session, e \in {"completed", "expired"} : EndSession(s, e)
           \/ \E r \in Slot : /\ HandleEvent(r) \/ Submit(r) \/ Notify(r)
                              /\ Answer(r, TRUE) \/ Answer(r, FALSE)
<1>1. ASSUME NEW r \in Slot, HandleEvent(r) \/ Submit(r) \/ Notify(r)
      PROVE  UNCHANGED owed \/ Answer(r, TRUE) \/ Answer(r, FALSE)
  <2>1. CASE HandleEvent(r)
    BY <2>1 DEF HandleEvent, Sign
  <2>2. CASE Submit(r)
    BY <2>2 DEF Submit
  <2>3. CASE Notify(r)
    BY <2>3 DEF Notify, Answer
  <2> QED
      BY <1>1, <2>1, <2>2, <2>3
<1>2. ASSUME NEW s, NEW r, Accept(s, r) \/ GiveUp(r) \/ HangUp(r) PROVE UNCHANGED owed
  BY <1>2 DEF Accept, GiveUp, HangUp
<1>3. ASSUME NEW x, Include(x) \/ Drop(x) \/ Retract(x) \/ Redeploy(x) \/ Disconnect
      PROVE  UNCHANGED owed
  BY <1>3 DEF Include, Drop, Retract, Redeploy, Disconnect
<1>4. ASSUME NEW s, NEW a, NEW m, HandleStake(s, a, m) PROVE UNCHANGED owed
  BY <1>4 DEF HandleStake, CreateSession
<1>5. CASE UNCHANGED stakeVars
  BY <1>5 DEF stakeVars, gatewayVars
<1> QED
  BY <1>1, <1>2, <1>3, <1>4, <1>5
     DEF StakeNext, Customer, Server, Mischief, Deliver, DeliverTwice

LEMMA PaidOnlyStep ==
    ASSUME GatewayTypeOK, IsFiniteSet(pool), PaidOnly, [StakeNext]_stakeVars
    PROVE  PaidOnly'
<1>1. \A s : (Ended(s) => Ended(s)') /\ (Payable(s) => Payable(s)')
  BY EndedLasts
<1>2. \A x \in pool' \cup included' : Payable(x.session)'
  <2>1. CASE pool' \cup included' \subseteq pool \cup included
    BY <1>1, <2>1 DEF PaidOnly
  <2>2. ASSUME NEW r \in Slot, Submit(r) PROVE \A x \in pool' \cup included' : Payable(x.session)'
    <3>1. Payable(request[r].session)
      BY <2>2 DEF Submit, PaidOnly, RequestFounded
    <3>2. Payable(Signed(r).session)
      BY <3>1 DEF Signed
    <3>3. pool' \cup included' \subseteq pool \cup included \cup {Signed(r)}
      BY <2>2 DEF Submit
    <3> QED
        BY <1>1, <3>2, <3>3 DEF PaidOnly
  <2>3. ASSUME NEW x \in pool, Include(x) \/ Drop(x)
        PROVE  pool' \cup included' \subseteq pool \cup included
    BY <2>3 DEF Include, Drop
  <2>4. ASSUME NEW x \in included, Retract(x)
        PROVE  pool' \cup included' \subseteq pool \cup included
    BY <2>4 DEF Retract
  <2> QED
      BY <2>1, <2>2, <2>3, <2>4, ChainSteps
<1>3. \A s \in owed' : Ended(s)'
  <2>1. CASE owed' \subseteq owed
    BY <1>1, <2>1 DEF PaidOnly
  <2>2. ASSUME NEW c \in Session, NEW e \in {"completed", "expired"}, EndSession(c, e)
        PROVE  \A s \in owed' : Ended(s)'
    <3>1. owed' = owed \cup {c} /\ c \in DOMAIN sessions
          /\ sessions' = [sessions EXCEPT ![c].status = e]
      BY <2>2 DEF EndSession
    <3>2. sessions[c] \in CheckoutSession
      BY <3>1, MapValue DEF GatewayTypeOK
    <3>3. c \in DOMAIN sessions' /\ sessions'[c].status = e
      BY <3>1, <3>2 DEF CheckoutSession
    <3>4. Ended(c)'
      BY <3>3 DEF Ended
    <3> QED
        BY <1>1, <3>1, <3>4 DEF PaidOnly
  <2>3. ASSUME NEW r, Answer(r, TRUE) \/ Answer(r, FALSE) PROVE owed' \subseteq owed
    BY <2>3 DEF Answer
  <2> QED
      BY <2>1, <2>2, <2>3, OwedSteps
<1>4. \A r \in Slot : RequestFounded(r)'
  BY FoundedStep
<1> QED
  BY <1>2, <1>3, <1>4 DEF PaidOnly

LEMMA FinitelyManyStep ==
    ASSUME GatewayTypeOK, FinitelyMany, [StakeNext]_stakeVars
    PROVE  FinitelyMany'
<1> USE DEF FinitelyMany
<1>1. IsFiniteSet(pool') /\ IsFiniteSet(included')
  <2>1. ASSUME NEW r \in Slot, Submit(r) PROVE IsFiniteSet(pool') /\ IsFiniteSet(included')
    <3>1. (pool' = pool \cup {Signed(r)} \/ pool' = pool) /\ included' = included
      BY <2>1 DEF Submit
    <3> QED
        BY <3>1, FS_AddElement
  <2>2. ASSUME NEW x \in pool, Include(x) PROVE IsFiniteSet(pool') /\ IsFiniteSet(included')
    BY <2>2, FS_AddElement, FS_RemoveElement DEF Include
  <2>3. ASSUME NEW x \in pool, Drop(x) PROVE IsFiniteSet(pool') /\ IsFiniteSet(included')
    BY <2>3, FS_RemoveElement DEF Drop
  <2>4. ASSUME NEW x \in included, Retract(x)
        PROVE  IsFiniteSet(pool') /\ IsFiniteSet(included')
    <3> DEFINE left == {y \in pool : y.signer # x.signer \/ y.nonce # x.nonce}
    <3>1. IsFiniteSet(left)
      BY FS_Subset
    <3>2. pool' = left \cup {x} /\ included' = included \ {x}
      BY <2>4 DEF Retract
    <3> QED
        BY <3>1, <3>2, FS_AddElement, FS_RemoveElement
  <2> QED
      BY <2>1, <2>2, <2>3, <2>4, ChainSteps
<1>2. IsFiniteSet(DOMAIN sessions')
  <2>1. CASE DOMAIN sessions' = DOMAIN sessions
    BY <2>1
  <2>2. ASSUME NEW c, NEW a, NEW m, HandleStake(c, a, m) PROVE IsFiniteSet(DOMAIN sessions')
    <3>1. DOMAIN sessions' = DOMAIN sessions \cup {c}
      BY <2>2 DEF HandleStake, CreateSession, Put
    <3> QED
        BY <3>1, FS_AddElement
  <2>3. ASSUME NEW c, NEW e, EndSession(c, e) PROVE DOMAIN sessions' = DOMAIN sessions
    BY <2>3 DEF EndSession
  <2>4. ASSUME NEW r, Server \/ HangUp(r) \/ (\E c : Deliver(c, r) \/ DeliverTwice(c, r))
        PROVE  UNCHANGED sessions
    BY <2>4 DEF Server, HandleEvent, Submit, Notify, GiveUp, HangUp, Deliver, DeliverTwice,
                Accept
  <2>5. ASSUME NEW x, Include(x) \/ Drop(x) \/ Retract(x) PROVE UNCHANGED sessions
    BY <2>5 DEF Include, Drop, Retract
  <2>6. ASSUME Disconnect \/ (\E k : Redeploy(k)) \/ UNCHANGED stakeVars PROVE UNCHANGED sessions
    BY <2>6 DEF Disconnect, Redeploy, stakeVars, gatewayVars
  <2> QED
      BY <2>1, <2>2, <2>3, <2>4, <2>5, <2>6 DEF StakeNext, Customer, Mischief
<1>3. IsFiniteSet(Busy')
  <2>1. CASE Busy' \subseteq Busy
    BY <2>1, FS_Subset
  <2>2. ASSUME NEW r \in Slot, NEW q, Becomes(r, q) PROVE IsFiniteSet(Busy')
    <3>1. Busy' \subseteq Busy \cup {r}
      BY <2>2 DEF Busy, Becomes, InHand
    <3>2. IsFiniteSet(Busy \cup {r})
      BY FS_AddElement
    <3> QED
        BY <3>1, <3>2, FS_Subset
  <2>3. ASSUME NEW s \in Session, NEW r \in Slot, Deliver(s, r) \/ DeliverTwice(s, r)
        PROVE  IsFiniteSet(Busy')
    <3>1. PICK q \in Request : Becomes(r, q)
      BY <2>3, RequestStarts DEF Deliver, DeliverTwice
    <3> QED
        BY <2>2, <3>1
  <2>4. UNCHANGED request \/ request' = [r \in Slot |-> None] => Busy' \subseteq Busy
    BY DEF Busy, InHand
  <2> QED
      BY <2>1, <2>2, <2>3, <2>4, RequestSteps
<1> QED
  BY <1>1, <1>2, <1>3

\* The invariant that the theorems about mints rest on.
THEOREM ChainHolds == StakeSpec => []ChainInv
<1>1. StakeInit => ChainInv
  <2> SUFFICES ASSUME StakeInit PROVE ChainInv
    OBVIOUS
  <2>1. GatewayTypeOK
    BY GatewayTypeInit
  <2>2. NoncesInOrder /\ PaidOnly
    BY DEF StakeInit, NoncesInOrder, PaidOnly, RequestFounded, InHand
  <2>3. DOMAIN sessions = {} /\ Busy = {} /\ pool = {} /\ included = {}
    BY DEF StakeInit, EmptyMap, Busy, InHand
  <2>4. FinitelyMany
    BY <2>3, FS_EmptySet DEF FinitelyMany
  <2> QED
      BY <2>1, <2>2, <2>4 DEF ChainInv
<1>2. ChainInv /\ [StakeNext]_stakeVars => ChainInv'
  BY GatewayTypeStep, NoncesInOrderStep, PaidOnlyStep, FinitelyManyStep
     DEF ChainInv, FinitelyMany
<1> QED
  BY <1>1, <1>2, PTL DEF StakeSpec

-----------------------------------------------------------------------------
\* What a session has brought its account, and sets of sessions theirs.
Worth(s) == Cardinality(MintsOf(s)) * Tokens(sessions[s].mills)
Staked(S) == SumFunction([s \in S |-> Worth(s)])
SessionsOf(a) == {s \in DOMAIN sessions : sessions[s].address = a}

\* Sums of natural numbers that agree, or agree but for one number.
Worths(S) == \A s \in S : Worth(s) \in Nat
SameWorth(S) == \A s \in S : Worth(s)' = Worth(s)

LEMMA StakedSame ==
    ASSUME NEW S, SameWorth(S)
    PROVE  Staked(S)' = Staked(S)
BY DEF Staked, SameWorth

LEMMA StakedMoves ==
    ASSUME NEW S, IsFiniteSet(S), Worths(S), Worths(S)', NEW c \in S, SameWorth(S \ {c})
    PROVE  Staked(S)' + Worth(c) = Staked(S) + Worth(c)'
<1>1. PICK f \in [S -> Nat] : f = [s \in S |-> Worth(s)]
  BY DEF Worths
<1>2. PICK g \in [S -> Nat] : g = [s \in S |-> Worth(s)']
  BY DEF Worths
<1>3. \A k \in S : k # c => g[k] = f[k]
  BY <1>1, <1>2 DEF SameWorth
<1>4. f[c] = Worth(c) /\ g[c] = Worth(c)'
  BY <1>1, <1>2
<1>5. SumFunction(g) + f[c] = SumFunction(f) + g[c]
  BY <1>3, SumOfReplaced
<1>6. Staked(S) = SumFunction(f) /\ Staked(S)' = SumFunction(g)
  BY <1>1, <1>2 DEF Staked
<1> QED
  BY <1>4, <1>5, <1>6

LEMMA StakedType ==
    ASSUME NEW S, IsFiniteSet(S), Worths(S)
    PROVE  Staked(S) \in Nat
<1>1. PICK f \in [S -> Nat] : f = [s \in S |-> Worth(s)]
  BY DEF Worths
<1> QED
  BY <1>1, SumUnits DEF Staked

\* What every account holds, and what was minted in all.
BookedInv ==
    /\ balance \in [Holder -> Nat]
    /\ \A a \in Account : balance[a] = Genesis[a] + Staked(SessionsOf(a))
    /\ minted = Staked(DOMAIN sessions)

\* Sessions and their mints are finitely many, and a session's tokens a number.
LEMMA WorthType ==
    ASSUME ChainInv
    PROVE  /\ IsFiniteSet(DOMAIN sessions) /\ Worths(DOMAIN sessions)
           /\ \A s : IsFiniteSet(MintsOf(s)) /\ Cardinality(MintsOf(s)) \in Nat
           /\ \A s \in DOMAIN sessions : Tokens(sessions[s].mills) \in Nat
           /\ \A x \in pool \cup included : sessions[x.session].address \in Account
           /\ \A a : SessionsOf(a) \subseteq DOMAIN sessions /\ IsFiniteSet(SessionsOf(a))
<1>1. \A s : IsFiniteSet(MintsOf(s)) /\ Cardinality(MintsOf(s)) \in Nat
  <2>1. \A s : IsFiniteSet(MintsOf(s))
    <3> TAKE s
    <3>1. MintsOf(s) \in SUBSET included
      BY DEF MintsOf
    <3> QED
        BY <3>1, FS_Subset DEF ChainInv, FinitelyMany
  <2> QED
      BY <2>1, FS_CardinalityType
<1>6. \A x \in pool \cup included : sessions[x.session].address \in Account
  BY DEF ChainInv, PaidOnly, Payable
<1>2. \A s \in DOMAIN sessions : Tokens(sessions[s].mills) \in Nat
  <2> TAKE s \in DOMAIN sessions
  <2>1. sessions[s] \in CheckoutSession
    BY MapValue DEF ChainInv, GatewayTypeOK
  <2> QED
      BY <2>1 DEF CheckoutSession, Tokens
<1>3. Worths(DOMAIN sessions)
  BY <1>1, <1>2 DEF Worths, Worth
<1>4. IsFiniteSet(DOMAIN sessions)
  BY DEF ChainInv, FinitelyMany
<1>5. \A a : SessionsOf(a) \subseteq DOMAIN sessions
  BY DEF SessionsOf
<1> QED
  BY <1>1, <1>2, <1>3, <1>4, <1>5, <1>6, FS_Subset

\* A step that mints nothing: no balance moves, and no session comes or goes.
Quiet ==
    /\ UNCHANGED <<balance, minted>>
    /\ DOMAIN sessions' = DOMAIN sessions
    /\ \A s : MintsOf(s)' = MintsOf(s)

LEMMA MintSteps ==
    ASSUME ChainInv, BookedInv, [StakeNext]_stakeVars
    PROVE  \/ Quiet
           \/ \E s \in Session, a \in Account \cup Undecodable, m \in CardAmounts :
                HandleStake(s, a, m)
           \/ \E x \in pool : Include(x) /\ Authorised(x)
           \/ \E x \in included : Retract(x) /\ Authorised(x)
<1>1. ASSUME UNCHANGED <<sessions, included, treasuryVars>> PROVE Quiet
  BY <1>1 DEF Quiet, MintsOf, treasuryVars
<1>2. ASSUME NEW r, Server \/ HangUp(r) \/ (\E c : Deliver(c, r) \/ DeliverTwice(c, r))
      PROVE  UNCHANGED <<sessions, included, treasuryVars>>
  BY <1>2 DEF Server, HandleEvent, Submit, Notify, GiveUp, HangUp, Deliver, DeliverTwice, Accept
<1>3. ASSUME Disconnect \/ (\E k : Redeploy(k)) \/ (\E x : Drop(x)) \/ UNCHANGED stakeVars
      PROVE  UNCHANGED <<sessions, included, treasuryVars>>
  BY <1>3 DEF Disconnect, Redeploy, Drop, stakeVars, gatewayVars
<1>4. ASSUME NEW s, NEW e, EndSession(s, e) PROVE Quiet
  <2>1. UNCHANGED <<included, treasuryVars>> /\ DOMAIN sessions' = DOMAIN sessions
    BY <1>4 DEF EndSession
  <2> QED
      BY <2>1 DEF Quiet, MintsOf, treasuryVars
<1>5. ASSUME NEW x \in pool, Include(x), ~Authorised(x) PROVE Quiet
  <2>1. UNCHANGED <<sessions, treasuryVars>> /\ included' = included \cup {x}
    BY <1>5 DEF Include
  <2>2. \A s : MintsOf(s)' = MintsOf(s)
    BY <1>5, <2>1 DEF MintsOf, Authorised
  <2> QED
      BY <2>1, <2>2 DEF Quiet, treasuryVars
<1>6. ASSUME NEW x \in included, Retract(x), ~Authorised(x) PROVE Quiet
  <2> DEFINE to == sessions[x.session].address
  <2>1. /\ UNCHANGED sessions /\ included' = included \ {x}
        /\ balance' = [balance EXCEPT ![to] = @ - 0] /\ minted' = minted - 0
    BY <1>6 DEF Retract
  <2>2. x.session \in DOMAIN sessions
    BY DEF ChainInv, PaidOnly, Payable, Paid
  <2>3. to \in Holder /\ minted \in Nat
    BY <2>2, WorthType, StakedType DEF Holder, BookedInv
  <2> HIDE DEF to
  <2>4. UNCHANGED <<balance, minted>>
    BY <2>1, <2>3 DEF BookedInv
  <2>5. \A s : MintsOf(s)' = MintsOf(s)
    BY <1>6, <2>1 DEF MintsOf, Authorised
  <2> QED
      BY <2>1, <2>4, <2>5 DEF Quiet
<1> QED
  BY <1>1, <1>2, <1>3, <1>4, <1>5, <1>6 DEF StakeNext, Customer, Mischief

\* A payment or a fork changes what one account holds, and what was minted, by
\* the amount of one session.
LEMMA BookedMove ==
    ASSUME ChainInv, BookedInv, UNCHANGED sessions, NEW c \in DOMAIN sessions,
           sessions[c].address \in Account,
           NEW d \in Int, Worth(c)' = Worth(c) + d, Worth(c)' \in Nat,
           \A s \in DOMAIN sessions : s # c => Worth(s)' = Worth(s),
           balance' = [balance EXCEPT ![sessions[c].address] = @ + d],
           minted' = minted + d
    PROVE  BookedInv'
<1>1. /\ IsFiniteSet(DOMAIN sessions) /\ Worths(DOMAIN sessions)
      /\ \A a : SessionsOf(a) \subseteq DOMAIN sessions /\ IsFiniteSet(SessionsOf(a))
  BY WorthType
<1>2. Worths(DOMAIN sessions)'
  BY <1>1 DEF Worths
<1>3. PICK D : D = DOMAIN sessions
  OBVIOUS
<1>4. /\ IsFiniteSet(D) /\ Worths(D) /\ Worths(D)' /\ c \in D
      /\ SameWorth(D \ {c}) /\ Worth(c) \in Nat /\ Worth(c)' \in Nat
  BY <1>1, <1>2, <1>3 DEF Worths, SameWorth
<1>5. ASSUME NEW S \in SUBSET D
      PROVE  IsFiniteSet(S) /\ Worths(S) /\ Worths(S)' /\ SameWorth(S \ {c})
             /\ Staked(S) \in Nat /\ Staked(S)' \in Nat
  <2>1. IsFiniteSet(S)
    BY <1>4, FS_Subset
  <2>2. Worths(S) /\ Worths(S)' /\ SameWorth(S \ {c})
    BY <1>4 DEF Worths, SameWorth
  <2>3. Staked(S) \in Nat
    BY <2>1, <2>2, StakedType
  <2>4. Staked(S)' \in Nat
    <3>1. PICK g \in [S -> Nat] : g = [s \in S |-> Worth(s)']
      BY <2>2 DEF Worths
    <3> QED
        BY <2>1, <3>1, SumUnits DEF Staked
  <2> QED
      BY <2>1, <2>2, <2>3, <2>4
<1>6. ASSUME NEW S \in SUBSET D, c \in S PROVE Staked(S)' = Staked(S) + d
  <2>1. Staked(S)' + Worth(c) = Staked(S) + Worth(c)'
    BY <1>5, <1>6, StakedMoves
  <2>2. Staked(S) \in Nat /\ Staked(S)' \in Nat
    BY <1>5
  <2> QED
      BY <1>4, <2>1, <2>2
<1>7. ASSUME NEW S \in SUBSET D, c \notin S PROVE Staked(S)' = Staked(S)
  <2>1. SameWorth(S)
    BY <1>4, <1>7 DEF SameWorth
  <2> QED
      BY <2>1, StakedSame
<1>8. minted' = Staked(DOMAIN sessions)'
  <2>1. Staked(D)' = Staked(D) + d
    BY <1>4, <1>6
  <2>2. minted = Staked(D)
    BY <1>3 DEF BookedInv
  <2> QED
      BY <1>3, <2>1, <2>2
<1>9. ASSUME NEW a \in Account
      PROVE  balance'[a] = Genesis[a] + Staked(SessionsOf(a))' /\ balance'[a] \in Nat
  <2>1. PICK S \in SUBSET D : S = SessionsOf(a)
    BY <1>1, <1>3
  <2>2. SessionsOf(a)' = S
    BY <2>1 DEF SessionsOf
  <2>3. Genesis[a] \in Nat
    BY BalancesAssumption DEF Holder
  <2>4. balance[a] = Genesis[a] + Staked(S) /\ Staked(S) \in Nat /\ Staked(S)' \in Nat
    BY <2>1, <1>5 DEF BookedInv
  <2>5. balance \in [Holder -> Nat] /\ a \in Holder
    BY DEF BookedInv, Holder
  <2>6. Staked(SessionsOf(a))' = Staked(S)'
    BY <2>2
  <2>7. CASE sessions[c].address = a
    <3>1. c \in S
      BY <1>3, <2>1, <2>7 DEF SessionsOf
    <3>2. Staked(S)' = Staked(S) + d
      BY <1>6, <3>1
    <3>3. balance'[a] = balance[a] + d
      BY <2>5, <2>7
    <3> QED
        BY <2>3, <2>4, <2>6, <3>2, <3>3
  <2>8. CASE sessions[c].address # a
    <3>1. c \notin S
      BY <2>1, <2>8 DEF SessionsOf
    <3>2. Staked(S)' = Staked(S)
      BY <1>7, <3>1
    <3>3. balance'[a] = balance[a]
      BY <2>5, <2>8
    <3> QED
        BY <2>3, <2>4, <2>6, <3>2, <3>3
  <2> QED
      BY <2>7, <2>8
<1>10. balance' \in [Holder -> Nat]
  <2>1. sessions[c].address \in Account
    OBVIOUS
  <2>2. balance \in [Holder -> Nat] /\ DOMAIN balance' = Holder
    BY DEF BookedInv
  <2>3. \A h \in Holder : balance'[h] \in Nat
    BY <1>9, <2>1, <2>2 DEF Holder
  <2>4. balance' = [h \in Holder |-> balance'[h]]
    BY <2>2
  <2> QED
      BY <2>3, <2>4
<1> QED
  BY <1>8, <1>9, <1>10 DEF BookedInv

\* The mints of a session are one more after its extrinsic got into a block,
\* and one less after a fork undid it.
LEMMA MintedOnce ==
    ASSUME ChainInv, NEW x \in pool, Include(x), Authorised(x)
    PROVE  /\ Cardinality(MintsOf(x.session))' = Cardinality(MintsOf(x.session)) + 1
           /\ \A s : s # x.session => MintsOf(s)' = MintsOf(s)
<1>1. included' = included \cup {x}
  BY DEF Include
<1>2. x \notin included
  BY ExtrinsicType DEF ChainInv, NoncesInOrder, Include
<1>3. PICK M : M = MintsOf(x.session)
  OBVIOUS
<1>4. MintsOf(x.session)' = M \cup {x} /\ x \notin M
  BY <1>1, <1>2, <1>3 DEF MintsOf, Authorised
<1>5. IsFiniteSet(M)
  BY <1>3, WorthType
<1>6. Cardinality(M \cup {x}) = Cardinality(M) + 1
  BY <1>4, <1>5, FS_AddElement
<1>7. \A s : s # x.session => MintsOf(s)' = MintsOf(s)
  BY <1>1 DEF MintsOf, Authorised
<1> QED
  BY <1>3, <1>4, <1>6, <1>7

LEMMA UnmintedOnce ==
    ASSUME ChainInv, NEW x \in included, Retract(x), Authorised(x)
    PROVE  /\ Cardinality(MintsOf(x.session))' = Cardinality(MintsOf(x.session)) - 1
           /\ Cardinality(MintsOf(x.session))' \in Nat
           /\ \A s : s # x.session => MintsOf(s)' = MintsOf(s)
<1>1. included' = included \ {x}
  BY DEF Retract
<1>2. PICK M : M = MintsOf(x.session)
  OBVIOUS
<1>3. MintsOf(x.session)' = M \ {x} /\ x \in M
  BY <1>1, <1>2 DEF MintsOf, Authorised
<1>4. IsFiniteSet(M)
  BY <1>2, WorthType
<1>5. /\ Cardinality(M \ {x}) = Cardinality(M) - 1
      /\ Cardinality(M \ {x}) \in Nat
  BY <1>3, <1>4, FS_RemoveElement, FS_CardinalityType
<1>6. \A s : s # x.session => MintsOf(s)' = MintsOf(s)
  BY <1>1 DEF MintsOf, Authorised
<1> QED
  BY <1>2, <1>3, <1>5, <1>6

LEMMA BookedStep ==
    ASSUME ChainInv, BookedInv, [StakeNext]_stakeVars
    PROVE  BookedInv'
<1>1. CASE Quiet
  <2>1. DOMAIN sessions' = DOMAIN sessions /\ UNCHANGED <<balance, minted>>
    BY <1>1 DEF Quiet
  <2>2. \A s \in DOMAIN sessions : SameSession(s)
    BY SessionsLast DEF ChainInv
  <2>3. \A s \in DOMAIN sessions : Worth(s)' = Worth(s)
    BY <1>1, <2>2 DEF Quiet, Worth, SameSession, Tokens
  <2>4. ASSUME NEW S \in SUBSET DOMAIN sessions PROVE Staked(S)' = Staked(S)
    BY <2>3, StakedSame DEF SameWorth
  <2>5. \A a : SessionsOf(a)' = SessionsOf(a)
    BY <2>1, <2>2 DEF SessionsOf, SameSession
  <2>6. Staked(DOMAIN sessions)' = Staked(DOMAIN sessions)
    <3>1. PICK D : D = DOMAIN sessions
      OBVIOUS
    <3>2. Staked(D)' = Staked(D)
      BY <2>4, <3>1
    <3> QED
        BY <2>1, <3>1, <3>2
  <2>7. \A a \in Account : Staked(SessionsOf(a))' = Staked(SessionsOf(a))
    <3> TAKE a \in Account
    <3>1. PICK S \in SUBSET DOMAIN sessions : S = SessionsOf(a)
      BY WorthType
    <3>2. Staked(S)' = Staked(S)
      BY <2>4
    <3>3. SessionsOf(a)' = S
      BY <2>5, <3>1
    <3> QED
        BY <3>1, <3>2, <3>3
  <2> QED
      BY <2>1, <2>6, <2>7 DEF BookedInv
<1>2. ASSUME NEW c \in Session, NEW b \in Account \cup Undecodable, NEW m \in CardAmounts,
             HandleStake(c, b, m)
      PROVE  BookedInv'
  <2> DEFINE new == [address |-> b, mills |-> m, status |-> "open"]
  <2>1. /\ c \notin DOMAIN sessions /\ sessions' = Put(sessions, c, new)
        /\ UNCHANGED <<included, balance, minted>>
    BY <1>2 DEF HandleStake, CreateSession, treasuryVars
  <2>2. /\ DOMAIN sessions' = DOMAIN sessions \cup {c} /\ sessions'[c] = new
        /\ \A s \in DOMAIN sessions : sessions'[s] = sessions[s]
    BY <2>1 DEF Put
  <2>3. MintsOf(c) = {} /\ \A s : MintsOf(s)' = MintsOf(s)
    BY <2>1 DEF ChainInv, PaidOnly, Payable, Paid, MintsOf
  <2>4. m \in Nat
    BY StakeGatewayAssumption
  <2>5. Worth(c)' = 0
    <3>1. sessions'[c].mills = m
      BY <2>2
    <3>2. Cardinality(MintsOf(c)') = 0
      BY <2>3, FS_EmptySet
    <3>3. Worth(c)' = Cardinality(MintsOf(c)') * m
      BY <3>1 DEF Worth, Tokens
    <3> QED
        BY <2>4, <3>2, <3>3
  <2>6. \A s \in DOMAIN sessions : Worth(s)' = Worth(s)
    BY <2>2, <2>3 DEF Worth
  <2> HIDE DEF new
  <2>7. PICK D : D = DOMAIN sessions
    OBVIOUS
  <2>8. IsFiniteSet(D) /\ Worths(D)
    BY <2>7, WorthType
  <2>9. ASSUME NEW S \in SUBSET D
        PROVE  Staked(S)' = Staked(S) /\ Staked(S \cup {c})' = Staked(S)
    <3>1. Staked(S)' = Staked(S)
      BY <2>6, <2>7, StakedSame DEF SameWorth
    <3>2. PICK f \in [S -> Nat] : f = [s \in S |-> Worth(s)]
      BY <2>8 DEF Worths
    <3>3. PICK g : g = [s \in S \cup {c} |-> Worth(s)']
      OBVIOUS
    <3>4. (\A k \in S : g[k] = f[k]) /\ g[c] = 0 /\ c \notin S
      BY <2>1, <2>5, <2>6, <2>7, <3>2, <3>3
    <3>5. g \in [S \cup {c} -> Nat]
      BY <3>2, <3>3, <3>4
    <3>6. IsFiniteSet(S)
      BY <2>8, FS_Subset
    <3>7. SumFunction(g) = SumFunction(f) + g[c] /\ SumFunction(f) \in Nat
      BY <3>4, <3>5, <3>6, SumOfOneMore, SumUnits
    <3>8. Staked(S) = SumFunction(f) /\ Staked(S \cup {c})' = SumFunction(g)
      BY <3>2, <3>3 DEF Staked
    <3> QED
        BY <3>1, <3>4, <3>7, <3>8
  <2>10. minted' = Staked(DOMAIN sessions)'
    <3>1. Staked(D \cup {c})' = Staked(D)
      BY <2>9
    <3> QED
        BY <2>1, <2>2, <2>7, <3>1 DEF BookedInv
  <2>11. ASSUME NEW a \in Account PROVE Staked(SessionsOf(a))' = Staked(SessionsOf(a))
    <3>1. PICK S \in SUBSET D : S = SessionsOf(a)
      BY <2>7, WorthType
    <3>2. SessionsOf(a)' = S \/ SessionsOf(a)' = S \cup {c}
      BY <2>2, <3>1 DEF SessionsOf
    <3>3. Staked(S)' = Staked(S) /\ Staked(S \cup {c})' = Staked(S)
      BY <2>9
    <3> QED
        BY <3>1, <3>2, <3>3
  <2> QED
      BY <2>1, <2>10, <2>11 DEF BookedInv
<1>3. ASSUME NEW x \in pool, Include(x), Authorised(x) PROVE BookedInv'
  <2> DEFINE c == x.session
             d == Tokens(sessions[c].mills)
  <2>1. /\ c \in DOMAIN sessions /\ d \in Nat /\ Cardinality(MintsOf(c)) \in Nat
        /\ sessions[c].address \in Account
    BY WorthType DEF ChainInv, PaidOnly, Payable, Paid
  <2>2. /\ UNCHANGED sessions
        /\ balance' = [balance EXCEPT ![sessions[c].address] = @ + d]
        /\ minted' = minted + d
    BY <1>3 DEF Include, StakeMint, MintInto
  <2>3. /\ Cardinality(MintsOf(c))' = Cardinality(MintsOf(c)) + 1
        /\ \A s : s # c => MintsOf(s)' = MintsOf(s)
    BY <1>3, MintedOnce
  <2>4. Worth(c)' = (Cardinality(MintsOf(c)) + 1) * d /\ Worth(c) = Cardinality(MintsOf(c)) * d
    BY <2>2, <2>3 DEF Worth, Tokens
  <2>5. Worth(c)' = Worth(c) + d /\ Worth(c)' \in Nat
    BY <2>1, <2>4
  <2>6. \A s \in DOMAIN sessions : s # c => Worth(s)' = Worth(s)
    BY <2>2, <2>3 DEF Worth
  <2>7. d \in Int
    BY <2>1
  <2> HIDE DEF c, d
  <2> QED
      BY <2>1, <2>2, <2>5, <2>6, <2>7, BookedMove
<1>4. ASSUME NEW x \in included, Retract(x), Authorised(x) PROVE BookedInv'
  <2> DEFINE c == x.session
             t == Tokens(sessions[c].mills)
             d == 0 - t
             n == Cardinality(MintsOf(c))
  <2>1. /\ c \in DOMAIN sessions /\ t \in Nat /\ n \in Nat /\ sessions[c].address \in Account
    BY WorthType DEF ChainInv, PaidOnly, Payable, Paid
  <2>2. /\ UNCHANGED sessions
        /\ balance' = [balance EXCEPT ![sessions[c].address] = @ - t]
        /\ minted' = minted - t
    BY <1>4 DEF Retract
  <2>3. /\ n' = n - 1 /\ n' \in Nat
        /\ \A s : s # c => MintsOf(s)' = MintsOf(s)
    BY <1>4, UnmintedOnce
  <2>4. Worth(c)' = (n - 1) * t /\ Worth(c)' = n' * t /\ Worth(c) = n * t
    BY <2>2, <2>3 DEF Worth, Tokens
  <2>5. Worth(c)' = Worth(c) + d
    BY <2>1, <2>4
  <2>6. Worth(c)' \in Nat
    BY <2>1, <2>3, <2>4
  <2>7. \A s \in DOMAIN sessions : s # c => Worth(s)' = Worth(s)
    BY <2>2, <2>3 DEF Worth
  <2>8. d \in Int
    BY <2>1
  <2>9. /\ balance' = [balance EXCEPT ![sessions[c].address] = @ + d]
        /\ minted' = minted + d
    <3>1. balance[sessions[c].address] \in Nat /\ minted \in Nat
      BY <2>1, WorthType, StakedType DEF BookedInv, Holder
    <3>2. \A b \in Nat : b - t = b + d
      BY <2>1
    <3> QED
        BY <2>2, <3>1, <3>2
  <2> HIDE DEF c, d, t, n
  <2> QED
      BY <2>1, <2>2, <2>5, <2>6, <2>7, <2>8, <2>9, BookedMove
<1> QED
  BY <1>1, <1>2, <1>3, <1>4, MintSteps

LEMMA BookedInit == StakeInit => BookedInv
<1> SUFFICES ASSUME StakeInit PROVE BookedInv
  OBVIOUS
<1>1. DOMAIN sessions = {} /\ balance = Genesis /\ minted = 0
  BY DEF StakeInit, EmptyMap, TreasuryInit, BalancesInit
<1>2. Staked({}) = 0
  <2>1. PICK f \in [{} -> Nat] : f = [s \in {} |-> Worth(s)]
    OBVIOUS
  <2> QED
      BY <2>1, SumOfNone DEF Staked
<1>3. \A a \in Account : SessionsOf(a) = {}
  BY <1>1 DEF SessionsOf
<1>4. \A a \in Account : Genesis[a] \in Nat
  BY BalancesAssumption DEF Holder
<1>5. Genesis \in [Holder -> Nat]
  BY BalancesAssumption
<1>6. \A a \in Account : balance[a] = Genesis[a] + Staked(SessionsOf(a))
  <2> TAKE a \in Account
  <2>1. Staked(SessionsOf(a)) = 0
    BY <1>2, <1>3
  <2>2. balance[a] = Genesis[a] /\ Genesis[a] \in Nat
    BY <1>1, <1>4
  <2> QED
      BY <2>1, <2>2
<1>7. minted = Staked(DOMAIN sessions)
  BY <1>1, <1>2
<1> QED
  BY <1>1, <1>5, <1>6, <1>7 DEF BookedInv

\* For every number of customers, requests, seeds and faults, an account
\* holds, beyond its genesis balance, what its mints of completed sessions
\* are worth.
THEOREM MintsAreForPayments == StakeSpec => []MintsArePaid
<1>1. StakeInit => BookedInv
  BY BookedInit
<1>2. ChainInv /\ BookedInv /\ [StakeNext]_stakeVars => BookedInv'
  BY BookedStep
<1>3. ChainInv /\ BookedInv => MintsArePaid
  BY DEF ChainInv, BookedInv, PaidOnly, Payable, Paid, Completed, MintsArePaid, Staked, SessionsOf, Worth
<1> QED
  BY <1>1, <1>2, <1>3, ChainHolds, PTL DEF StakeSpec

\* The gateway's state and the treasury it mints on are well-typed: no fork
\* ever takes more from an account than the account holds.
THEOREM GatewayTyped == StakeSpec => []StakeTypeOK
<1> DEFINE Rest == /\ potDust \in Nat /\ totalReceived \in Nat /\ totalDisbursed \in Nat
                   /\ IsMap(donors, Account, DonorInfo) /\ grantCount \in Nat
                   /\ IsMap(grants, GrantId, Grant) /\ offLedger \in Nat
           restVars == <<potDust, totalReceived, totalDisbursed, donors, grantCount, grants>>
<1>1. StakeInit => BookedInv /\ Rest
  <2> SUFFICES ASSUME StakeInit PROVE Rest
    BY BookedInit
  <2>1. Pot \in Holder /\ Genesis[Pot] \in Nat
    BY BalancesAssumption DEF Holder
  <2> QED
      BY <2>1, EmptyMapType DEF StakeInit, TreasuryInit, BalancesInit
<1>2. ChainInv /\ Rest /\ [StakeNext]_stakeVars => Rest'
  <2> SUFFICES ASSUME ChainInv, Rest, [StakeNext]_stakeVars PROVE Rest'
    OBVIOUS
  <2>1. CASE UNCHANGED restVars /\ offLedger' \in Nat
    BY <2>1
  <2>2. ASSUME UNCHANGED treasuryVars PROVE UNCHANGED restVars /\ offLedger' \in Nat
    BY <2>2 DEF treasuryVars
  <2>3. ASSUME NEW x \in pool, Include(x) PROVE UNCHANGED restVars /\ offLedger' \in Nat
    <3> DEFINE t == Tokens(sessions[x.session].mills)
               to == sessions[x.session].address
    <3>1. ToPot(to, t) \in Nat
      BY WorthType DEF ChainInv, PaidOnly, Payable, Paid, ToPot
    <3> HIDE DEF t, to
    <3>2. ASSUME StakeMint(to, t) PROVE UNCHANGED restVars /\ offLedger' \in Nat
      BY <3>1, <3>2 DEF StakeMint, MintInto
    <3> QED
        BY <2>2, <2>3, <3>2 DEF Include, to, t
  <2>4. ASSUME NEW x \in included, Retract(x) PROVE UNCHANGED restVars /\ offLedger' \in Nat
    BY <2>4 DEF Retract
  <2>5. ASSUME NEW r, Server \/ HangUp(r) \/ (\E c : Deliver(c, r) \/ DeliverTwice(c, r))
        PROVE  UNCHANGED treasuryVars
    BY <2>5 DEF Server, HandleEvent, Submit, Notify, GiveUp, HangUp, Deliver, DeliverTwice,
                Accept
  <2>6. ASSUME Customer \/ Disconnect \/ (\E k : Redeploy(k)) \/ (\E x : Drop(x))
               \/ UNCHANGED stakeVars
        PROVE  UNCHANGED treasuryVars
    BY <2>6 DEF Customer, HandleStake, CreateSession, EndSession, Disconnect, Redeploy, Drop,
                stakeVars
  <2> HIDE DEF Rest, restVars
  <2> QED
      BY <2>1, <2>2, <2>3, <2>4, <2>5, <2>6 DEF StakeNext, Mischief
<1>3. ChainInv /\ BookedInv /\ [StakeNext]_stakeVars => BookedInv'
  BY BookedStep
<1>4. ChainInv /\ BookedInv /\ Rest => StakeTypeOK
  <2> SUFFICES ASSUME ChainInv, BookedInv, Rest PROVE StakeTypeOK
    OBVIOUS
  <2>1. minted \in Nat
    BY WorthType, StakedType DEF BookedInv
  <2> QED
      BY <2>1 DEF ChainInv, BookedInv, StakeTypeOK, TreasuryTypeOK, BalancesTypeOK
<1> HIDE DEF Rest
<1> QED
  BY <1>1, <1>2, <1>3, <1>4, ChainHolds, PTL DEF StakeSpec

-----------------------------------------------------------------------------
\* How many mints of a payment there can still be.

\* The gateway's extrinsics for a session, minted or waiting.
Exts(s) == {x \in pool \cup included : x.session = s /\ Authorised(x)}

\* The requests that may still send one.
Pending(s) ==
    {r \in Slot : /\ InHand(r) /\ request[r].session = s
                  /\ \/ request[r].stage = "started"
                     \/ request[r].stage = "signing" /\ request[r].signer = Gateway}

\* Every nonce of the gateway's below n is used or waits in the pool.
NoGapBelow(n) ==
    \A m \in Nat : nonce[Gateway] <= m /\ m < n =>
        \E y \in pool : y.signer = Gateway /\ y.nonce = m

\* A request that, without a fault, does not end in an error after it has
\* sent its extrinsic.
Promising(r) ==
    /\ InHand(r) /\ request[r].listening
    /\ \/ request[r].stage = "started"
       \/ /\ request[r].signer = Gateway /\ request[r].stage = "signing"
          /\ NoGapBelow(request[r].nonce)
       \/ /\ request[r].signer = Gateway /\ request[r].stage = "sent"
          /\ \/ Signed(r) \in included
             \/ Signed(r) \in pool /\ NoGapBelow(request[r].nonce)

Promised(s) == \E r \in Slot : Promising(r) /\ request[r].session = s

\* Stripe has still to be told of the end of a session.
Untold(s) == s \notin DOMAIN sessions \/ sessions[s].status = "open" \/ s \in owed

\* One more delivery is to be expected of a session.
Due(s) == IF Untold(s) /\ ~Promised(s) THEN 1 ELSE 0

Within(s) == Cardinality(Exts(s)) + Cardinality(Pending(s)) + Due(s) <= 1 + faults

Budget == \A s \in Session : Within(s)

LEMMA SubsetCounts ==
    ASSUME NEW S, IsFiniteSet(S), NEW T, NEW x
    PROVE  /\ T \subseteq S => Cardinality(T) \in Nat /\ Cardinality(T) <= Cardinality(S)
           /\ T \subseteq S \ {x} /\ x \in S
                => Cardinality(T) \in Nat /\ Cardinality(T) <= Cardinality(S) - 1
           /\ T \subseteq S \cup {x}
                => Cardinality(T) \in Nat /\ Cardinality(T) <= Cardinality(S) + 1
<1>1. Cardinality(S) \in Nat
  BY FS_CardinalityType
<1>2. ASSUME T \subseteq S PROVE Cardinality(T) \in Nat /\ Cardinality(T) <= Cardinality(S)
  BY <1>2, FS_Subset, FS_CardinalityType
<1>3. ASSUME T \subseteq S \ {x}, x \in S
      PROVE  Cardinality(T) \in Nat /\ Cardinality(T) <= Cardinality(S) - 1
  <2>1. IsFiniteSet(S \ {x}) /\ Cardinality(S \ {x}) = Cardinality(S) - 1
    BY <1>3, FS_RemoveElement
  <2> QED
      BY <1>3, <2>1, FS_Subset, FS_CardinalityType
<1>4. ASSUME T \subseteq S \cup {x}
      PROVE  Cardinality(T) \in Nat /\ Cardinality(T) <= Cardinality(S) + 1
  <2>1. IsFiniteSet(S \cup {x}) /\ Cardinality(S \cup {x}) <= Cardinality(S) + 1
    <3>1. CASE x \in S
      BY <3>1, <1>1, FS_AddElement
    <3>2. CASE x \notin S
      BY <3>2, <1>1, FS_AddElement
    <3> QED
        BY <3>1, <3>2
  <2>2. Cardinality(T) <= Cardinality(S \cup {x}) /\ Cardinality(T) \in Nat
    BY <1>4, <2>1, FS_Subset, FS_CardinalityType
  <2>3. Cardinality(S \cup {x}) \in Nat
    BY <2>1, FS_CardinalityType
  <2> QED
      BY <1>1, <2>1, <2>2, <2>3
<1> QED
  BY <1>2, <1>3, <1>4

LEMMA BudgetCounts ==
    ASSUME ChainInv, NEW s
    PROVE  /\ IsFiniteSet(Exts(s)) /\ Cardinality(Exts(s)) \in Nat
           /\ IsFiniteSet(Pending(s)) /\ Cardinality(Pending(s)) \in Nat
           /\ Due(s) \in {0, 1} /\ Due(s)' \in {0, 1}
<1>1. IsFiniteSet(pool \cup included)
  BY FS_Union DEF ChainInv, FinitelyMany
<1>2. IsFiniteSet(Exts(s))
  BY <1>1, FS_Subset DEF Exts
<1>3. IsFiniteSet(Busy) /\ Pending(s) \subseteq Busy
  BY DEF ChainInv, FinitelyMany, Pending, Busy
<1>4. IsFiniteSet(Pending(s))
  BY <1>3, FS_Subset
<1> QED
  BY <1>2, <1>4, FS_CardinalityType DEF Due

\* The four ways in which the budget is kept.  A session may have no more
\* extrinsics, pending requests or deliveries to come;
LEMMA WithinNoMore ==
    ASSUME ChainInv, NEW s, Within(s), faults' \in Nat, faults <= faults',
           Exts(s)' \subseteq Exts(s), Pending(s)' \subseteq Pending(s), Due(s)' <= Due(s)
    PROVE  Within(s)'
<1>1. /\ Cardinality(Exts(s)') \in Nat /\ Cardinality(Exts(s)') <= Cardinality(Exts(s))
      /\ Cardinality(Pending(s)') \in Nat /\ Cardinality(Pending(s)') <= Cardinality(Pending(s))
  BY BudgetCounts, SubsetCounts
<1>2. faults \in Nat
  BY StakeGatewayAssumption DEF ChainInv, GatewayTypeOK
<1> QED
  BY <1>1, <1>2, BudgetCounts DEF Within

\* a fault may pay for a delivery to come;
LEMMA WithinFault ==
    ASSUME ChainInv, NEW s, Within(s), faults' = faults + 1,
           Exts(s)' \subseteq Exts(s), Pending(s)' \subseteq Pending(s)
    PROVE  Within(s)'
<1>1. /\ Cardinality(Exts(s)') \in Nat /\ Cardinality(Exts(s)') <= Cardinality(Exts(s))
      /\ Cardinality(Pending(s)') \in Nat /\ Cardinality(Pending(s)') <= Cardinality(Pending(s))
  BY BudgetCounts, SubsetCounts
<1>2. faults \in Nat
  BY StakeGatewayAssumption DEF ChainInv, GatewayTypeOK
<1> QED
  BY <1>1, <1>2, BudgetCounts DEF Within

\* a pending request that is no more may leave a delivery to come, or its
\* extrinsic;
LEMMA WithinLeaves ==
    ASSUME ChainInv, NEW s, Within(s), UNCHANGED faults, NEW r, NEW x, r \in Pending(s),
           Pending(s)' \subseteq Pending(s) \ {r},
           \/ Exts(s)' \subseteq Exts(s)
           \/ Exts(s)' \subseteq Exts(s) \cup {x} /\ Due(s)' <= Due(s)
    PROVE  Within(s)'
<1>1. /\ Cardinality(Pending(s)') \in Nat
      /\ Cardinality(Pending(s)') <= Cardinality(Pending(s)) - 1
  BY BudgetCounts, SubsetCounts
<1>2. faults \in Nat
  BY StakeGatewayAssumption DEF ChainInv, GatewayTypeOK
<1>3. CASE Exts(s)' \subseteq Exts(s)
  <2>1. Cardinality(Exts(s)') \in Nat /\ Cardinality(Exts(s)') <= Cardinality(Exts(s))
    BY <1>3, BudgetCounts, SubsetCounts
  <2> QED
      BY <1>1, <1>2, <2>1, BudgetCounts DEF Within
<1>4. CASE Exts(s)' \subseteq Exts(s) \cup {x} /\ Due(s)' <= Due(s)
  <2>1. Cardinality(Exts(s)') \in Nat /\ Cardinality(Exts(s)') <= Cardinality(Exts(s)) + 1
    BY <1>4, BudgetCounts, SubsetCounts
  <2> QED
      BY <1>1, <1>2, <1>4, <2>1, BudgetCounts DEF Within
<1> QED
  BY <1>3, <1>4

\* a delivery that was to come, or a fault, may start a request.
LEMMA WithinStarts ==
    ASSUME ChainInv, NEW s, Within(s), faults' \in Nat, NEW r,
           Exts(s)' \subseteq Exts(s), Pending(s)' \subseteq Pending(s) \cup {r},
           \/ UNCHANGED faults /\ Due(s)' + 1 <= Due(s)
           \/ faults' = faults + 1 /\ Due(s)' <= Due(s)
    PROVE  Within(s)'
<1>1. /\ Cardinality(Exts(s)') \in Nat /\ Cardinality(Exts(s)') <= Cardinality(Exts(s))
      /\ Cardinality(Pending(s)') \in Nat
      /\ Cardinality(Pending(s)') <= Cardinality(Pending(s)) + 1
  BY BudgetCounts, SubsetCounts
<1>2. faults \in Nat
  BY StakeGatewayAssumption DEF ChainInv, GatewayTypeOK
<1> QED
  BY <1>1, <1>2, BudgetCounts DEF Within

\* What is still to be told of a session only gets less.
LEMMA UntoldFalls ==
    ASSUME ChainInv, [StakeNext]_stakeVars, NEW s
    PROVE  Untold(s)' => Untold(s)
<1>1. Untold(s) <=> ~Ended(s) \/ s \in owed
  BY DEF Untold, Ended
<1>2. Untold(s)' <=> ~Ended(s)' \/ s \in owed'
  BY DEF Untold, Ended
<1>3. Ended(s) => Ended(s)'
  BY EndedLasts DEF ChainInv
<1>4. s \in owed' => s \in owed \/ ~Ended(s)
  <2>1. ASSUME NEW c \in Session, NEW e \in {"completed", "expired"}, EndSession(c, e)
        PROVE  s \in owed' => s \in owed \/ ~Ended(s)
    BY <2>1 DEF EndSession, Ended
  <2>2. ASSUME NEW r, Answer(r, TRUE) \/ Answer(r, FALSE) PROVE owed' \subseteq owed
    BY <2>2 DEF Answer
  <2> QED
      BY <2>1, <2>2, OwedSteps
<1> QED
  BY <1>1, <1>2, <1>3, <1>4

\* Promises that are kept make no delivery due, and an answer ends what is due.
LEMMA DueFalls ==
    ASSUME ChainInv, [StakeNext]_stakeVars, NEW s,
           (Promised(s) => Promised(s)') \/ ~Untold(s)'
    PROVE  Due(s)' <= Due(s)
<1>1. Untold(s)' => Untold(s)
  BY UntoldFalls
<1>2. Due(s)' = 0 \/ Due(s) = 1
  BY <1>1 DEF Due
<1> QED
  BY <1>2, BudgetCounts

\* Without a fault nothing gets lost, and no gap opens among the nonces.
Calm ==
    /\ \A n \in Nat : NoGapBelow(n) => NoGapBelow(n)'
    /\ included \subseteq included'
    /\ pool \subseteq pool' \cup included'

LEMMA CalmSteps ==
    ASSUME ChainInv, [StakeNext]_stakeVars, UNCHANGED faults
    PROVE  Calm
<1>1. CASE UNCHANGED <<nonce, pool, included>>
  BY <1>1 DEF Calm, NoGapBelow
<1>2. ASSUME NEW r \in Slot, Submit(r), Admits(Signed(r)) PROVE Calm
  BY <1>2 DEF Submit, Calm, NoGapBelow
<1>3. ASSUME NEW x \in pool, Include(x) PROVE Calm
  <2>1. /\ pool' = pool \ {x} /\ included' = included \cup {x} /\ x.nonce = nonce[x.signer]
        /\ nonce' = [nonce EXCEPT ![x.signer] = x.nonce + 1]
    BY <1>3 DEF Include
  <2>2. x.signer \in Signer /\ x.nonce \in Nat /\ Gateway \in Signer /\ nonce \in [Signer -> Nat]
    BY ExtrinsicType, StakeGatewayAssumption DEF ChainInv, GatewayTypeOK
  <2>3. ASSUME NEW n \in Nat, NoGapBelow(n) PROVE NoGapBelow(n)'
    <3>1. ASSUME NEW m \in Nat, nonce'[Gateway] <= m, m < n
          PROVE  \E y \in pool' : y.signer = Gateway /\ y.nonce = m
      <4>1. nonce[Gateway] <= m /\ (x.signer = Gateway => x.nonce # m)
        BY <2>1, <2>2, <3>1
      <4>2. PICK y \in pool : y.signer = Gateway /\ y.nonce = m
        BY <2>3, <3>1, <4>1 DEF NoGapBelow
      <4>3. y # x
        BY <4>1, <4>2
      <4> QED
          BY <2>1, <4>2, <4>3
    <3> QED
        BY <3>1 DEF NoGapBelow
  <2> QED
      BY <2>1, <2>3 DEF Calm
<1>4. ASSUME NEW x, Drop(x) \/ Retract(x) PROVE FALSE
  <2>1. faults \in Nat
    BY StakeGatewayAssumption DEF ChainInv, GatewayTypeOK
  <2> QED
      BY <1>4, <2>1 DEF Drop, Retract, Blame
<1> QED
  BY <1>1, <1>2, <1>3, <1>4, ChainSteps

\* A promise of a request that is left alone is kept.
LEMMA PromiseKept ==
    ASSUME ChainInv, Calm, NEW r \in Slot, request'[r] = request[r], Promising(r)
    PROVE  Promising(r)' /\ request'[r].session = request[r].session
<1>1. PICK q : q = request[r]
  OBVIOUS
<1>2. request'[r] = q /\ InHand(r) /\ InHand(r)'
  BY <1>1 DEF Promising, InHand
<1>3. q.nonce \in Nat
  BY <1>1, <1>2, InHandType DEF ChainInv
<1>4. Signed(r)' = Signed(r)
  BY <1>1, <1>2 DEF Signed
<1>5. NoGapBelow(q.nonce) => NoGapBelow(q.nonce)'
  BY <1>3 DEF Calm
<1>6. NoGapBelow(request[r].nonce)' = NoGapBelow(q.nonce)'
  BY <1>2
<1> QED
  BY <1>1, <1>2, <1>4, <1>5, <1>6 DEF Promising, Calm

\* The promises that a session has on other slots than r.
LEMMA PromisedElsewhere ==
    ASSUME ChainInv, Calm, NEW r, NEW s, ~(Promising(r) /\ request[r].session = s),
           \A o \in Slot : o # r => request'[o] = request[o]
    PROVE  Promised(s) => Promised(s)'
<1> SUFFICES ASSUME Promised(s) PROVE Promised(s)'
  OBVIOUS
<1>1. PICK o \in Slot : Promising(o) /\ request[o].session = s
  BY DEF Promised
<1>2. o # r
  BY <1>1
<1>3. Promising(o)' /\ request'[o].session = request[o].session
  BY <1>1, <1>2, PromiseKept
<1> QED
  BY <1>1, <1>3 DEF Promised

\* Slots whose request is left alone stay as pending as they were.
LEMMA PendingElsewhere ==
    ASSUME NEW r, NEW s, \A o \in Slot : o # r => request'[o] = request[o]
    PROVE  /\ Pending(s)' \subseteq Pending(s) \cup {r}
           /\ r \notin Pending(s)' => Pending(s)' \subseteq Pending(s) \ {r}
           /\ (r \in Pending(s)' => r \in Pending(s)) => Pending(s)' \subseteq Pending(s)
BY DEF Pending, InHand

\* A step that leaves the requests alone.
LEMMA WithinUnasked ==
    ASSUME ChainInv, Budget, [StakeNext]_stakeVars, UNCHANGED <<request, faults>>,
           NEW s \in Session, Exts(s)' \subseteq Exts(s)
    PROVE  Within(s)'
<1>1. Calm
  BY CalmSteps
<1>2. Promised(s) => Promised(s)'
  <2>1. ASSUME NEW o \in Slot, Promising(o), request[o].session = s PROVE Promised(s)'
    <3>1. Promising(o)' /\ request'[o].session = request[o].session
      BY <1>1, <2>1, PromiseKept
    <3> QED
        BY <2>1, <3>1 DEF Promised
  <2> QED
      BY <2>1 DEF Promised
<1>3. Pending(s)' = Pending(s)
  BY DEF Pending, InHand
<1>4. faults' \in Nat /\ faults <= faults'
  BY StakeGatewayAssumption DEF ChainInv, GatewayTypeOK
<1> QED
  BY <1>2, <1>3, <1>4, DueFalls, WithinNoMore DEF Budget

\* A request that ends without having sent an extrinsic: it was promising
\* only if it was pending, or it is answered.
LEMMA WithinEnds ==
    ASSUME ChainInv, Budget, [StakeNext]_stakeVars, UNCHANGED faults, NEW r \in Slot,
           InHand(r), Becomes(r, None), NEW s \in Session, Exts(s)' \subseteq Exts(s),
           Promising(r) /\ request[r].session = s => r \in Pending(s) \/ ~Untold(s)'
    PROVE  Within(s)'
<1>1. Calm
  BY CalmSteps
<1>2. \A o \in Slot : o # r => request'[o] = request[o]
  BY DEF Becomes
<1>3. r \notin Pending(s)'
  BY DEF Becomes, Pending, InHand
<1>4. Pending(s)' \subseteq Pending(s) \ {r}
  BY <1>2, <1>3, PendingElsewhere
<1>5. faults' \in Nat /\ faults <= faults'
  BY StakeGatewayAssumption DEF ChainInv, GatewayTypeOK
<1>6. CASE r \in Pending(s)
  BY <1>4, <1>6, WithinLeaves DEF Budget
<1>7. CASE r \notin Pending(s)
  <2>1. (Promised(s) => Promised(s)') \/ ~Untold(s)'
    BY <1>1, <1>2, <1>7, PromisedElsewhere
  <2>2. Due(s)' <= Due(s)
    BY <2>1, DueFalls
  <2>3. Pending(s)' \subseteq Pending(s)
    BY <1>4
  <2> QED
      BY <1>5, <2>2, <2>3, WithinNoMore DEF Budget
<1> QED
  BY <1>6, <1>7

\* A promise that r makes for s is kept.
KeptFor(r, s) == Promising(r) /\ request[r].session = s => Promising(r)'

\* A request that goes on without a new extrinsic or a lost promise.
LEMMA WithinGoesOn ==
    ASSUME ChainInv, Budget, [StakeNext]_stakeVars, UNCHANGED faults, NEW r \in Slot,
           NEW q \in Request, InHand(r), Becomes(r, q), q.session = request[r].session,
           NEW s \in Session, NEW x,
           \/ /\ r \in Pending(s)' => r \in Pending(s)
              /\ Exts(s)' \subseteq Exts(s)
              /\ KeptFor(r, s)
           \/ /\ r \in Pending(s) /\ r \notin Pending(s)'
              /\ \/ Exts(s)' \subseteq Exts(s)
                 \/ /\ Exts(s)' \subseteq Exts(s) \cup {x}
                    /\ KeptFor(r, s)
    PROVE  Within(s)'
<1>1. Calm
  BY CalmSteps
<1>2. \A o \in Slot : o # r => request'[o] = request[o]
  BY DEF Becomes
<1>3. faults' \in Nat /\ faults <= faults'
  BY StakeGatewayAssumption DEF ChainInv, GatewayTypeOK
<1>4. ASSUME KeptFor(r, s) PROVE Due(s)' <= Due(s)
  <2>1. CASE Promising(r) /\ request[r].session = s
    <3>1. Promising(r)' /\ request'[r].session = s
      BY <1>4, <2>1 DEF Becomes, KeptFor
    <3>2. Promised(s)'
      BY <3>1 DEF Promised
    <3> QED
        BY <3>2, DueFalls
  <2>2. CASE ~(Promising(r) /\ request[r].session = s)
    BY <1>1, <1>2, <2>2, PromisedElsewhere, DueFalls
  <2> QED
      BY <2>1, <2>2
<1>5. CASE /\ r \in Pending(s)' => r \in Pending(s)
           /\ Exts(s)' \subseteq Exts(s)
           /\ KeptFor(r, s)
  <2>1. Pending(s)' \subseteq Pending(s)
    BY <1>2, <1>5, PendingElsewhere
  <2> QED
      BY <1>3, <1>4, <1>5, <2>1, WithinNoMore DEF Budget
<1>6. CASE /\ r \in Pending(s) /\ r \notin Pending(s)'
           /\ \/ Exts(s)' \subseteq Exts(s)
              \/ /\ Exts(s)' \subseteq Exts(s) \cup {x}
                 /\ KeptFor(r, s)
  <2>1. Pending(s)' \subseteq Pending(s) \ {r}
    BY <1>2, <1>6, PendingElsewhere
  <2> QED
      BY <1>4, <1>6, <2>1, WithinLeaves DEF Budget
<1> QED
  BY <1>5, <1>6

\* The server's steps.
LEMMA WithinHandled ==
    ASSUME ChainInv, Budget, [StakeNext]_stakeVars, NEW r \in Slot, HandleEvent(r),
           NEW s \in Session
    PROVE  Within(s)'
<1>1. InHand(r) /\ request[r].stage = "started"
      /\ UNCHANGED <<sessions, faults, nonce, pool, included>>
  BY DEF HandleEvent
<1>2. Exts(s)' = Exts(s)
  BY <1>1 DEF Exts
<1>3. r \in Pending(s) <=> request[r].session = s
  BY <1>1 DEF Pending
<1>4. CASE Answer(r, TRUE) \/ Answer(r, FALSE)
  <2>1. Becomes(r, None)
    BY <1>1, <1>4, AnswerTyped DEF ChainInv
  <2>2. Promising(r) /\ request[r].session = s => r \in Pending(s)
    BY <1>3
  <2> QED
      BY <1>1, <1>2, <2>1, <2>2, WithinEnds
<1>5. CASE seed # None /\ Signs(r, seed, NextIndex(seed))
  <2>1. PICK n \in Nat : /\ n = NextIndex(seed) /\ nonce[seed] <= n /\ seed \in Signer
                         /\ nonce[seed] .. n - 1 \subseteq Taken(seed)
    BY <1>5, NextIndexIsFree DEF ChainInv, GatewayTypeOK, FinitelyMany
  <2>2. PICK q \in Request :
            /\ Becomes(r, q) /\ q.session = request[r].session /\ q.stage = "signing"
            /\ q.signer = seed /\ q.nonce = n /\ q.listening = request[r].listening
    BY <1>1, <1>5, <2>1, RequestSigns DEF ChainInv
  <2>3. request'[r] = q /\ q # None /\ InHand(r)'
    BY <2>2, NoRequestAssumption DEF Becomes, InHand
  <2>4. CASE seed = Gateway
    <3>1. nonce[Gateway] \in Nat
      BY StakeGatewayAssumption DEF ChainInv, GatewayTypeOK
    <3>2. ASSUME NEW m \in Nat, nonce[Gateway] <= m, m < n
          PROVE  \E y \in pool : y.signer = Gateway /\ y.nonce = m
      <4>1. m \in nonce[seed] .. n - 1
        BY <2>4, <3>1, <3>2
      <4> QED
          BY <2>1, <2>4, <4>1 DEF Taken
    <3>3. NoGapBelow(n)
      BY <3>2 DEF NoGapBelow
    <3>4. NoGapBelow(n)'
      BY <1>1, <3>3 DEF NoGapBelow
    <3>5. NoGapBelow(request[r].nonce)' = NoGapBelow(n)'
      BY <2>2, <2>3
    <3>6. KeptFor(r, s)
      BY <1>1, <2>2, <2>3, <2>4, <3>4, <3>5 DEF KeptFor, Promising
    <3>7. r \in Pending(s)' => r \in Pending(s)
      BY <1>3, <2>2, <2>3 DEF Pending
    <3> QED
        BY <1>1, <1>2, <2>2, <3>6, <3>7, WithinGoesOn
  <2>5. CASE seed # Gateway
    <3>1. r \notin Pending(s)'
      BY <2>2, <2>3, <2>5 DEF Pending
    <3>2. r \in Pending(s) \/ KeptFor(r, s)
      BY <1>3 DEF KeptFor
    <3> QED
        BY <1>1, <1>2, <2>2, <3>1, <3>2, WithinGoesOn
  <2> QED
      BY <2>4, <2>5
<1> QED
  BY <1>4, <1>5 DEF HandleEvent, Throws, Sign, Signs

LEMMA WithinSubmitted ==
    ASSUME ChainInv, Budget, [StakeNext]_stakeVars, NEW r \in Slot, Submit(r),
           NEW s \in Session
    PROVE  Within(s)'
<1> DEFINE x == Signed(r)
<1>1. InHand(r) /\ request[r].stage = "signing"
      /\ UNCHANGED <<sessions, faults, nonce, included>>
  BY DEF Submit
<1>2. r \in Pending(s) <=> request[r].session = s /\ request[r].signer = Gateway
  BY <1>1 DEF Pending
<1>3. x.session = request[r].session /\ x.signer = request[r].signer
      /\ x.nonce = request[r].nonce
  BY DEF Signed
<1>4. Promising(r) => request[r].signer = Gateway /\ NoGapBelow(request[r].nonce)
                      /\ request[r].listening
  BY <1>1 DEF Promising
<1>5. CASE Answer(r, FALSE) /\ UNCHANGED pool
  <2>1. Becomes(r, None)
    BY <1>1, <1>5, AnswerTyped DEF ChainInv
  <2>2. Promising(r) /\ request[r].session = s => r \in Pending(s)
    BY <1>2, <1>4
  <2>3. Exts(s)' = Exts(s)
    BY <1>1, <1>5 DEF Exts
  <2> QED
      BY <1>1, <2>1, <2>2, <2>3, WithinEnds
<1>6. CASE /\ pool' = pool \cup {x} /\ request' = [request EXCEPT ![r].stage = "sent"]
  <2>1. PICK q \in Request :
            /\ Becomes(r, q) /\ q.session = request[r].session /\ q.stage = "sent"
            /\ q.signer = request[r].signer /\ q.nonce = request[r].nonce
            /\ q.listening = request[r].listening
    BY <1>1, <1>6, RequestSends DEF ChainInv
  <2>2. request'[r] = q /\ q # None /\ InHand(r)'
    BY <2>1, NoRequestAssumption DEF Becomes, InHand
  <2>3. Exts(s)' \subseteq Exts(s) \cup {x}
    BY <1>1, <1>6 DEF Exts
  <2>4. ~(request[r].session = s /\ request[r].signer = Gateway) => Exts(s)' \subseteq Exts(s)
    <3> HIDE DEF x
    <3> QED
        BY <1>1, <1>3, <1>6 DEF Exts, Authorised
  <2>5. r \notin Pending(s)'
    BY <2>1, <2>2 DEF Pending
  <2>6. KeptFor(r, s)
    <3> SUFFICES ASSUME Promising(r) PROVE Promising(r)'
      BY DEF KeptFor
    <3>1. PICK n : n = request[r].nonce
      OBVIOUS
    <3>2. n \in Nat
      BY <1>1, <3>1, InHandType DEF ChainInv
    <3>3. NoGapBelow(n) => NoGapBelow(n)'
      BY <1>1, <3>2, CalmSteps DEF Calm
    <3>4. NoGapBelow(request[r].nonce)' = NoGapBelow(n)'
      BY <2>1, <2>2, <3>1
    <3>5. Signed(r)' = x
      BY <2>1, <2>2 DEF Signed
    <3>6. Signed(r)' \in pool'
      BY <1>6, <3>5
    <3> HIDE DEF x
    <3> QED
        BY <1>4, <2>1, <2>2, <3>1, <3>3, <3>4, <3>6 DEF Promising
  <2> HIDE DEF x
  <2> QED
      BY <1>1, <1>2, <2>1, <2>3, <2>4, <2>5, <2>6, WithinGoesOn
<1> QED
  BY <1>5, <1>6 DEF Submit

LEMMA WithinNotified ==
    ASSUME ChainInv, Budget, [StakeNext]_stakeVars, NEW r \in Slot,
           Notify(r) \/ GiveUp(r), NEW s \in Session
    PROVE  Within(s)'
<1>1. InHand(r) /\ request[r].stage = "sent"
      /\ UNCHANGED <<sessions, faults, nonce, pool, included>>
  BY DEF Notify, GiveUp, Stuck
<1>2. Exts(s)' = Exts(s)
  BY <1>1 DEF Exts
<1>3. Promising(r) => /\ request[r].signer = Gateway /\ request[r].listening
                      /\ \/ Signed(r) \in included
                         \/ Signed(r) \in pool /\ NoGapBelow(request[r].nonce)
  BY <1>1 DEF Promising
<1>4. CASE Notify(r)
  <2>1. Answer(r, Authorised(Signed(r)))
    BY <1>4 DEF Notify
  <2>2. Becomes(r, None)
    BY <1>1, <2>1, RequestEnds DEF ChainInv, Answer
  <2>3. Promising(r) /\ request[r].session = s => ~Untold(s)'
    <3> SUFFICES ASSUME Promising(r), request[r].session = s PROVE ~Untold(s)'
      OBVIOUS
    <3>1. owed' = owed \ {s}
      BY <1>3, <2>1 DEF Answer, Authorised, Signed
    <3>2. Ended(s)
      BY <1>1 DEF ChainInv, PaidOnly, RequestFounded
    <3> QED
        BY <1>1, <3>1, <3>2 DEF Untold, Ended
  <2> QED
      BY <1>1, <1>2, <2>2, <2>3, WithinEnds
<1>5. CASE GiveUp(r)
  <2>1. Becomes(r, None)
    BY <1>5, RequestEnds DEF GiveUp, ChainInv
  <2>2. ~Promising(r)
    <3> DEFINE n == request[r].nonce
    <3> SUFFICES ASSUME Promising(r) PROVE FALSE
      OBVIOUS
    <3>1. /\ request[r].signer = Gateway /\ Signed(r) \notin included
          /\ \/ n < nonce[Gateway]
             \/ \E m \in nonce[Gateway] .. n :
                   \A x \in pool : x.signer = Gateway => x.nonce # m
      BY <1>3, <1>5 DEF GiveUp, Stuck
    <3>2. Signed(r) \in pool /\ NoGapBelow(n)
      BY <1>3, <3>1
    <3>3. Signed(r).nonce = n /\ Signed(r).signer = Gateway
      BY <3>1 DEF Signed
    <3>4. nonce[Gateway] <= n
      BY <3>2, <3>3 DEF ChainInv, NoncesInOrder
    <3>5. n \in Nat /\ nonce[Gateway] \in Nat
      BY <1>1, InHandType, StakeGatewayAssumption DEF ChainInv, GatewayTypeOK
    <3> HIDE DEF n
    <3>6. PICK m \in nonce[Gateway] .. n : \A x \in pool : x.signer = Gateway => x.nonce # m
      BY <3>1, <3>4, <3>5
    <3>7. m # n
      BY <3>2, <3>3, <3>6
    <3>8. m \in Nat /\ nonce[Gateway] <= m /\ m < n
      BY <3>5, <3>6, <3>7
    <3> QED
        BY <3>2, <3>6, <3>8 DEF NoGapBelow
  <2> QED
      BY <1>1, <1>2, <2>1, <2>2, WithinEnds
<1> QED
  BY <1>4, <1>5

\* A delivery starts a request that was due, or that a fault pays for.
LEMMA WithinDelivered ==
    ASSUME ChainInv, Budget, [StakeNext]_stakeVars, NEW c \in Session, NEW r \in Slot,
           Deliver(c, r) \/ DeliverTwice(c, r), NEW s \in Session
    PROVE  Within(s)'
<1>1. Accept(c, r) /\ ~InHand(r) /\ UNCHANGED <<sessions, owed, nonce, pool, included>>
  BY DEF Deliver, DeliverTwice, Accept, InHand
<1>2. PICK q \in Request : Becomes(r, q) /\ q.session = c /\ q.stage = "started"
                           /\ q.listening = TRUE
  BY <1>1, RequestStarts DEF ChainInv
<1>3. request'[r] = q /\ InHand(r)' /\ \A o \in Slot : o # r => request'[o] = request[o]
  BY <1>2, NoRequestAssumption DEF Becomes, InHand
<1>4. Exts(s)' = Exts(s)
  BY <1>1 DEF Exts
<1>5. Pending(s)' \subseteq Pending(s) \cup {r}
  BY <1>3, PendingElsewhere
<1>6. s # c => r \notin Pending(s)'
  BY <1>2, <1>3 DEF Pending
<1>7. ~Promising(r) /\ Promising(r)'
  BY <1>1, <1>2, <1>3 DEF Promising
<1>8. Calm
  BY <1>1 DEF Calm, NoGapBelow
<1>9. Due(s)' <= Due(s)
  BY <1>3, <1>7, <1>8, PromisedElsewhere, DueFalls
<1>10. Promised(c)'
  BY <1>2, <1>3, <1>7 DEF Promised
<1>11. faults \in Nat /\ faults' \in Nat /\ faults <= faults'
  BY StakeGatewayAssumption DEF ChainInv, GatewayTypeOK, Deliver, DeliverTwice, Blame
<1>12. CASE s # c
  <2>1. Pending(s)' \subseteq Pending(s)
    BY <1>5, <1>6, <1>12
  <2> QED
      BY <1>4, <1>9, <1>11, <2>1, WithinNoMore DEF Budget
<1>13. CASE s = c /\ DeliverTwice(c, r)
  BY <1>4, <1>5, <1>9, <1>11, <1>13, WithinStarts DEF Budget, DeliverTwice, Blame
<1>14. CASE s = c /\ Deliver(c, r)
  <2>1. Untold(s)
    BY <1>14 DEF Deliver, Untold
  <2>2. ~Promised(s)
    BY <1>14 DEF Deliver, Heard, Promised, Promising
  <2>3. Due(s) = 1 /\ Due(s)' = 0
    BY <1>10, <1>14, <2>1, <2>2 DEF Due
  <2>4. UNCHANGED faults
    BY <1>14 DEF Deliver
  <2> QED
      BY <1>4, <1>5, <1>11, <2>3, <2>4, WithinStarts DEF Budget
<1> QED
  BY <1>12, <1>13, <1>14

\* A fault loses things, and is counted.
LEMMA WithinMischief ==
    ASSUME ChainInv, Budget, [StakeNext]_stakeVars, NEW s \in Session,
           \/ \E r \in Slot : HangUp(r)
           \/ Disconnect
           \/ \E k \in Signer \cup {None} : Redeploy(k)
           \/ \E x \in pool : Drop(x)
           \/ \E x \in included : Retract(x)
    PROVE  Within(s)'
<1>1. ASSUME NEW r \in Slot, HangUp(r) PROVE Within(s)'
  <2>1. InHand(r) /\ Blame /\ Exts(s)' = Exts(s)
    BY <1>1 DEF HangUp, Exts
  <2>2. PICK q \in Request :
            /\ Becomes(r, q) /\ q.session = request[r].session /\ q.stage = request[r].stage
            /\ q.signer = request[r].signer
    BY <1>1, RequestUnheard DEF ChainInv
  <2>3. request'[r] = q /\ \A o \in Slot : o # r => request'[o] = request[o]
    BY <2>2 DEF Becomes
  <2>4. r \in Pending(s)' => r \in Pending(s)
    BY <2>1, <2>2, <2>3 DEF Pending
  <2>5. Pending(s)' \subseteq Pending(s)
    BY <2>3, <2>4, PendingElsewhere
  <2> QED
      BY <2>1, <2>5, WithinFault DEF Budget, Blame
<1>2. ASSUME NEW k \in Signer \cup {None}, Redeploy(k) PROVE Within(s)'
  <2>1. Blame /\ Exts(s)' = Exts(s) /\ Pending(s)' = {}
    BY <1>2 DEF Redeploy, Exts, Pending, InHand
  <2> QED
      BY <2>1, WithinFault DEF Budget, Blame
<1>5. ASSUME Disconnect PROVE Within(s)'
  <2>1. Blame /\ Exts(s)' = Exts(s) /\ Pending(s)' = Pending(s)
    BY <1>5 DEF Disconnect, Exts, Pending, InHand
  <2> QED
      BY <2>1, WithinFault DEF Budget, Blame
<1>3. ASSUME NEW x \in pool, Drop(x) PROVE Within(s)'
  <2>1. Blame /\ Exts(s)' \subseteq Exts(s) /\ Pending(s)' = Pending(s)
    BY <1>3 DEF Drop, Exts, Pending, InHand
  <2> QED
      BY <2>1, WithinFault DEF Budget, Blame
<1>4. ASSUME NEW x \in included, Retract(x) PROVE Within(s)'
  <2>1. Blame /\ Exts(s)' \subseteq Exts(s) /\ Pending(s)' = Pending(s)
    BY <1>4 DEF Retract, Exts, Pending, InHand
  <2> QED
      BY <2>1, WithinFault DEF Budget, Blame
<1> QED
  BY <1>1, <1>2, <1>3, <1>4, <1>5

LEMMA BudgetStep ==
    ASSUME ChainInv, Budget, [StakeNext]_stakeVars
    PROVE  Budget'
<1> SUFFICES ASSUME NEW s \in Session PROVE Within(s)'
  BY DEF Budget
<1>1. ASSUME UNCHANGED <<request, faults, pool, included>> PROVE Within(s)'
  <2>1. Exts(s)' = Exts(s)
    BY <1>1 DEF Exts
  <2> QED
      BY <1>1, <2>1, WithinUnasked
<1>2. ASSUME Customer \/ UNCHANGED stakeVars PROVE Within(s)'
  <2>1. UNCHANGED <<request, faults, pool, included>>
    BY <1>2 DEF Customer, HandleStake, CreateSession, EndSession, stakeVars, gatewayVars
  <2> QED
      BY <1>1, <2>1
<1>3. ASSUME NEW x \in pool, Include(x) PROVE Within(s)'
  <2>1. UNCHANGED <<request, faults>> /\ Exts(s)' \subseteq Exts(s)
    BY <1>3 DEF Include, Exts
  <2> QED
      BY <2>1, WithinUnasked
<1> QED
  BY <1>2, <1>3, WithinDelivered, WithinHandled, WithinSubmitted, WithinNotified,
     WithinMischief DEF StakeNext, Server, Mischief

\* For every number of customers, requests, seeds and faults, a payment is
\* minted at most once more than there were faults.
THEOREM ExtraMintsArePaidByFaults == StakeSpec => []ExtraMintsNeedFaults
<1>1. StakeInit => Budget
  <2> SUFFICES ASSUME StakeInit, NEW s \in Session PROVE Within(s)
    BY DEF Budget
  <2>1. Exts(s) = {} /\ Pending(s) = {}
    BY DEF StakeInit, Exts, Pending, InHand
  <2>2. faults = 0 /\ Due(s) \in {0, 1}
    BY DEF StakeInit, Due
  <2> QED
      BY <2>1, <2>2, FS_EmptySet DEF Within
<1>2. ChainInv /\ Budget /\ [StakeNext]_stakeVars => Budget'
  BY BudgetStep
<1>3. ChainInv /\ Budget => ExtraMintsNeedFaults
  <2> SUFFICES ASSUME ChainInv, Budget, NEW s \in Session
               PROVE  Cardinality(MintsOf(s)) <= 1 + faults
    BY DEF ExtraMintsNeedFaults
  <2>1. MintsOf(s) \subseteq Exts(s)
    BY DEF MintsOf, Exts
  <2>2. Cardinality(MintsOf(s)) \in Nat /\ Cardinality(MintsOf(s)) <= Cardinality(Exts(s))
    BY <2>1, BudgetCounts, SubsetCounts
  <2>3. Within(s) /\ faults \in Nat
    BY StakeGatewayAssumption DEF Budget, ChainInv, GatewayTypeOK
  <2> QED
      BY <2>2, <2>3, BudgetCounts DEF Within
<1> QED
  BY <1>1, <1>2, <1>3, ChainHolds, PTL DEF StakeSpec

-----------------------------------------------------------------------------
\* Where an answered payment is: minted, or waiting in the pool again since a
\* fork undid the block, or gone after two faults.
Waits(s) == \E x \in pool : x.session = s /\ Authorised(x)

AnsweredInv ==
    \A s : Paid(s) /\ s \notin owed =>
        \/ MintsOf(s) # {}
        \/ faults >= 1 /\ Waits(s)
        \/ faults >= 2

\* Only a payment that is on the chain is answered with a 2xx.
LEMMA AnsweredWhenMinted ==
    ASSUME ChainInv, [StakeNext]_stakeVars, NEW s, Paid(s)', s \notin owed',
           ~(Paid(s) /\ s \notin owed)
    PROVE  MintsOf(s)' # {}
<1>1. Ended(s) => Paid(s)
  BY EndedLasts DEF ChainInv
<1>2. s \in owed => Ended(s)
  BY DEF ChainInv, PaidOnly
<1>3. ASSUME ~Ended(s) PROVE FALSE
  <2>1. Ended(s)' /\ Paid(s)'
    BY DEF Paid, Ended, Completed
  <2>2. CASE UNCHANGED sessions
    BY <1>3, <2>1, <2>2 DEF Ended
  <2>3. ASSUME NEW c, NEW a, NEW m, HandleStake(c, a, m) PROVE FALSE
    <3>1. s = c => sessions'[s].status = "open"
      BY <2>3 DEF HandleStake, CreateSession, Put
    <3>2. s # c => (s \in DOMAIN sessions' => s \in DOMAIN sessions
                                              /\ sessions'[s] = sessions[s])
      BY <2>3 DEF HandleStake, CreateSession, Put
    <3> QED
        BY <1>3, <2>1, <3>1, <3>2 DEF Ended
  <2>4. ASSUME NEW c, NEW e, EndSession(c, e) PROVE FALSE
    <3>1. sessions' = [sessions EXCEPT ![c].status = e] /\ owed' = owed \cup {c}
      BY <2>4 DEF EndSession
    <3>2. s # c
      BY <3>1
    <3> QED
        BY <1>3, <2>1, <3>1, <3>2 DEF Ended
  <2>5. ASSUME NEW r, Server \/ HangUp(r) \/ (\E c : Deliver(c, r) \/ DeliverTwice(c, r))
        PROVE  UNCHANGED sessions
    BY <2>5 DEF Server, HandleEvent, Submit, Notify, GiveUp, HangUp, Deliver, DeliverTwice,
                Accept
  <2>6. ASSUME NEW x, Include(x) \/ Drop(x) \/ Retract(x) \/ Redeploy(x) \/ Disconnect
        PROVE  UNCHANGED sessions
    BY <2>6 DEF Include, Drop, Retract, Redeploy, Disconnect
  <2>7. ASSUME UNCHANGED stakeVars PROVE UNCHANGED sessions
    BY <2>7 DEF stakeVars, gatewayVars
  <2> QED
      BY <2>2, <2>3, <2>4, <2>5, <2>6, <2>7 DEF StakeNext, Customer, Mischief
<1>4. Paid(s) /\ s \in owed
  BY <1>1, <1>3
<1>5. PICK r \in Slot : /\ HandleEvent(r) \/ Submit(r) \/ Notify(r)
                        /\ Answer(r, TRUE) \/ Answer(r, FALSE)
  <2>1. ASSUME NEW c, NEW e, EndSession(c, e) PROVE owed \subseteq owed'
    BY <2>1 DEF EndSession
  <2> QED
      BY <1>4, <2>1, OwedSteps
<1>6. Answer(r, TRUE) /\ request[r].session = s
  BY <1>4, <1>5 DEF Answer
<1>7. ASSUME Answer(r, FALSE) PROVE FALSE
  BY <1>4, <1>7 DEF Answer
<1>8. CASE HandleEvent(r)
  <2>1. Completed(request[r].session)
    BY <1>4, <1>6 DEF Paid
  <2>2. Answer(r, FALSE) \/ UNCHANGED owed
    BY <1>8, <2>1 DEF HandleEvent, Sign
  <2> QED
      BY <1>4, <1>7, <2>2
<1>9. CASE Submit(r)
  <2>1. Answer(r, FALSE) \/ UNCHANGED owed
    BY <1>9 DEF Submit
  <2> QED
      BY <1>4, <1>7, <2>1
<1>10. CASE Notify(r)
  <2>1. Signed(r) \in included /\ Answer(r, Authorised(Signed(r))) /\ UNCHANGED included
    BY <1>10 DEF Notify
  <2>2. Authorised(Signed(r))
    BY <1>4, <2>1 DEF Answer
  <2>3. Signed(r).session = s
    BY <1>6 DEF Signed
  <2> QED
      BY <2>1, <2>2, <2>3 DEF MintsOf
<1> QED
  BY <1>5, <1>8, <1>9, <1>10

LEMMA AnsweredStep ==
    ASSUME ChainInv, AnsweredInv, [StakeNext]_stakeVars
    PROVE  AnsweredInv'
<1> SUFFICES ASSUME NEW s, Paid(s)', s \notin owed'
             PROVE  MintsOf(s)' # {} \/ (faults' >= 1 /\ Waits(s)') \/ faults' >= 2
  BY DEF AnsweredInv
<1>1. CASE ~(Paid(s) /\ s \notin owed)
  BY <1>1, AnsweredWhenMinted
<1>2. CASE Paid(s) /\ s \notin owed
  <2>1. MintsOf(s) # {} \/ (faults >= 1 /\ Waits(s)) \/ faults >= 2
    BY <1>2 DEF AnsweredInv
  <2>2. faults \in Nat
    BY StakeGatewayAssumption DEF ChainInv, GatewayTypeOK
  <2>3. CASE UNCHANGED <<nonce, pool, included>>
    <3>1. MintsOf(s)' = MintsOf(s) /\ Waits(s)' = Waits(s)
      BY <2>3 DEF MintsOf, Waits
    <3>2. faults' = faults \/ faults' = faults + 1
      <4>1. ASSUME NEW r, HandleEvent(r) \/ Submit(r) \/ Notify(r) \/ GiveUp(r)
            PROVE  UNCHANGED faults
        BY <4>1 DEF HandleEvent, Submit, Notify, GiveUp
      <4>2. ASSUME Customer \/ (\E c, r : Deliver(c, r)) \/ (\E x : Include(x))
                   \/ UNCHANGED stakeVars
            PROVE  UNCHANGED faults
        BY <4>2 DEF Customer, HandleStake, CreateSession, EndSession, Deliver, Include,
                    stakeVars, gatewayVars
      <4>3. ASSUME Mischief PROVE Blame
        BY <4>3 DEF Mischief, DeliverTwice, HangUp, Disconnect, Redeploy, Drop, Retract
      <4> QED
          BY <4>1, <4>2, <4>3 DEF StakeNext, Server, Blame
    <3> QED
        BY <2>1, <2>2, <3>1, <3>2
  <2>4. ASSUME NEW r \in Slot, Submit(r)
        PROVE  MintsOf(s)' # {} \/ (faults' >= 1 /\ Waits(s)') \/ faults' >= 2
    <3>1. pool \subseteq pool' /\ UNCHANGED <<included, faults>>
      BY <2>4 DEF Submit
    <3>2. MintsOf(s)' = MintsOf(s) /\ (Waits(s) => Waits(s)')
      BY <3>1 DEF MintsOf, Waits
    <3> QED
        BY <2>1, <3>1, <3>2
  <2>5. ASSUME NEW x \in pool, Include(x)
        PROVE  MintsOf(s)' # {} \/ (faults' >= 1 /\ Waits(s)') \/ faults' >= 2
    <3>1. /\ pool' = pool \ {x} /\ included' = included \cup {x} /\ UNCHANGED faults
      BY <2>5 DEF Include
    <3>2. MintsOf(s) # {} => MintsOf(s)' # {}
      BY <3>1 DEF MintsOf
    <3>3. Waits(s) => Waits(s)' \/ MintsOf(s)' # {}
      BY <3>1 DEF Waits, MintsOf
    <3> QED
        BY <2>1, <3>1, <3>2, <3>3
  <2>6. ASSUME NEW x \in pool, Drop(x)
        PROVE  MintsOf(s)' # {} \/ (faults' >= 1 /\ Waits(s)') \/ faults' >= 2
    <3>1. UNCHANGED included /\ faults' = faults + 1
      BY <2>6 DEF Drop, Blame
    <3>2. MintsOf(s)' = MintsOf(s)
      BY <3>1 DEF MintsOf
    <3> QED
        BY <2>1, <2>2, <3>1, <3>2
  <2>7. ASSUME NEW x \in included, Retract(x)
        PROVE  MintsOf(s)' # {} \/ (faults' >= 1 /\ Waits(s)') \/ faults' >= 2
    <3>1. included' = included \ {x} /\ x \in pool' /\ faults' = faults + 1
      BY <2>7 DEF Retract, Blame
    <3>2. MintsOf(s) # {} => MintsOf(s)' # {} \/ Waits(s)'
      <4>1. ASSUME NEW y \in MintsOf(s), y # x PROVE y \in MintsOf(s)'
        BY <3>1, <4>1 DEF MintsOf
      <4>2. ASSUME x \in MintsOf(s) PROVE Waits(s)'
        BY <3>1, <4>2 DEF MintsOf, Waits, Authorised
      <4> QED
          BY <4>1, <4>2
    <3> QED
        BY <2>1, <2>2, <3>1, <3>2
  <2> QED
      BY <2>3, <2>4, <2>5, <2>6, <2>7, ChainSteps
<1> QED
  BY <1>1, <1>2

\* For every number of customers, requests, seeds and faults, a payment that
\* was answered with a 2xx has been minted, waits in the pool, or was lost by
\* two faults.
THEOREM AnswersStand == StakeSpec => []AnsweredIsMinted
<1>1. StakeInit => AnsweredInv
  BY DEF StakeInit, AnsweredInv, Paid, EmptyMap
<1>2. ChainInv /\ AnsweredInv /\ [StakeNext]_stakeVars => AnsweredInv'
  BY AnsweredStep
<1>3. AnsweredInv => AnsweredIsMinted
  BY DEF AnsweredInv, AnsweredIsMinted, Paid, Completed, Waits
<1> QED
  BY <1>1, <1>2, <1>3, ChainHolds, PTL DEF StakeSpec
=============================================================================

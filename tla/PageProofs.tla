----------------------------- MODULE PageProofs -----------------------------
(***************************************************************************)
(* Proofs about the pages of the front end: the shell they stand on, the   *)
(* proposal page, the proof of an e-mail address, the map, and amounts as  *)
(* they are typed and shown.  They hold for any accounts, addresses, texts *)
(* and data, and any number of clicks, reloads, reads and answers.         *)
(***************************************************************************)
EXTENDS ClientShell, ProposalPage, EmailProof, VendorMap, TokenAmount, SequenceTheorems,
        WellFoundedInduction, TLAPS

---------------------------------------------------------------------------
\* The client's shell: types hold, demo mode is offline, the chosen mode stays.

\* The effects of a change of mode keep the types.
LEMMA EnabledType ==
    ASSUME ShellTypeOK, NEW demo \in BOOLEAN, EnabledBecomes(demo)
    PROVE  /\ enabled' \in BOOLEAN /\ api' \in BOOLEAN /\ apiError' \in BOOLEAN
           /\ apiPromise' \in {"none", "pending", "resolved", "rejected"}
           /\ waiting' \subseteq Nat \X BOOLEAN
           /\ accounts' \in Origin \cup {None} /\ selected' \in Origin \cup {None}
<1>1. Cleanup \subseteq Nat \X BOOLEAN
  <2>1. SUFFICES ASSUME NEW w \in waiting
                 PROVE  <<w[1], TRUE>> \in Nat \X BOOLEAN
    BY DEF Cleanup
  <2>2. w \in Nat \X BOOLEAN
    BY DEF ShellTypeOK
  <2>3. QED
    BY <2>2
<1>2. toggles + reloads \in Nat
  BY DEF ShellTypeOK
<1>3. CASE demo
  <2>1. /\ enabled' = demo /\ api' = FALSE /\ apiError' = FALSE
        /\ apiPromise' = apiPromise /\ waiting' = Cleanup
        /\ accounts' = "demo" /\ selected' = "demo"
    BY <1>3 DEF EnabledBecomes
  <2>2. QED
    BY <1>1, <2>1, Zenon DEF ShellTypeOK, Origin
<1>4. CASE ~demo
  <2>1. apiPromise' \in {"none", "pending", "resolved", "rejected"}
    BY <1>4 DEF ShellTypeOK, EnabledBecomes
  <2>2. <<toggles + reloads, FALSE>> \in Nat \X BOOLEAN
    BY <1>2
  <2>3. waiting' \in {Cleanup \cup {<<toggles + reloads, FALSE>>}, Cleanup}
    BY <1>4 DEF EnabledBecomes
  <2>4. waiting' \subseteq Nat \X BOOLEAN
    BY <1>1, <2>2, <2>3, Zenon
  <2>5. /\ enabled' = demo /\ accounts' = None /\ selected' = None
        /\ api' = (apiPromise = "resolved") /\ apiError' = (apiPromise = "rejected")
    BY <1>4, Zenon DEF EnabledBecomes
  <2>6. QED
    BY <2>1, <2>4, <2>5, Zenon
<1>5. QED
  BY <1>3, <1>4

LEMMA TypeStep == ShellTypeOK /\ [ShellNext]_shellVars => ShellTypeOK'
<1>1. SUFFICES ASSUME ShellTypeOK, [ShellNext]_shellVars
               PROVE  ShellTypeOK'
  OBVIOUS
<1>2. CASE Hydrate
  <2>1. /\ hydrated' = TRUE /\ stored' \in BOOLEAN \cup {None} /\ chosen' = chosen
        /\ connecting' = connecting /\ connects' = connects
        /\ toggles' = toggles /\ reloads' = reloads
    BY <1>1, <1>2 DEF Hydrate, ShellTypeOK
  <2>2. /\ enabled' \in BOOLEAN /\ api' \in BOOLEAN /\ apiError' \in BOOLEAN
        /\ apiPromise' \in {"none", "pending", "resolved", "rejected"}
        /\ waiting' \subseteq Nat \X BOOLEAN
        /\ accounts' \in Origin \cup {None} /\ selected' \in Origin \cup {None}
    <3>1. CASE stored \notin {None, enabled}
      <4>1. stored \in BOOLEAN /\ EnabledBecomes(stored)
        BY <1>1, <1>2, <3>1 DEF Hydrate, ShellTypeOK
      <4>2. QED
        BY <1>1, <4>1, EnabledType, Zenon
    <3>2. CASE stored \in {None, enabled}
      <4>1. /\ enabled' = enabled /\ apiPromise' = apiPromise /\ api' = api
            /\ apiError' = apiError /\ waiting' = waiting
            /\ accounts' = accounts /\ selected' = selected
        BY <1>2, <3>2 DEF Hydrate, connectionVars
      <4>2. QED
        BY <1>1, <4>1, Zenon DEF ShellTypeOK
    <3>3. QED
      BY <3>1, <3>2
  <2>3. QED
    BY <1>1, <2>1, <2>2, Zenon DEF ShellTypeOK
<1>3. CASE Toggle
  <2>1. EnabledBecomes(~enabled) /\ (~enabled) \in BOOLEAN
    BY <1>3 DEF Toggle
  <2>2. /\ enabled' \in BOOLEAN /\ api' \in BOOLEAN /\ apiError' \in BOOLEAN
        /\ apiPromise' \in {"none", "pending", "resolved", "rejected"}
        /\ waiting' \subseteq Nat \X BOOLEAN
        /\ accounts' \in Origin \cup {None} /\ selected' \in Origin \cup {None}
    BY <1>1, <2>1, EnabledType, Zenon
  <2>3. /\ toggles' \in Nat /\ reloads' = reloads
        /\ connecting' = connecting /\ connects' = connects
    BY <1>1, <1>3 DEF Toggle, ShellTypeOK
  <2>4. /\ stored' \in BOOLEAN \cup {None} /\ chosen' \subseteq BOOLEAN
        /\ hydrated' = hydrated
    BY <1>1, <1>3, <2>1 DEF Toggle, ShellTypeOK
  <2>5. QED
    BY <1>1, <2>2, <2>3, <2>4, Zenon DEF ShellTypeOK
<1>4. CASE Reload
  <2>1. connecting' \in Nat /\ reloads' \in Nat /\ chosen' \subseteq BOOLEAN
    BY <1>1, <1>4 DEF Reload, ShellTypeOK
  <2>2. QED
    BY <1>1, <1>4, <2>1, Zenon DEF Reload, ShellTypeOK, Origin
<1>5. ASSUME NEW outcome \in {"resolved", "rejected"}, Settle(outcome)
      PROVE  ShellTypeOK'
  BY <1>1, <1>5 DEF Settle, ShellTypeOK, demoVars, walletVars
<1>6. CASE Connect \/ Authorized \/ Refused \/ SelectAccount \/ DemoAccountsChange
  BY <1>1, <1>6 DEF Connect, Authorized, Refused, SelectAccount, DemoAccountsChange,
                    ShellTypeOK, Origin, demoVars, connectionVars
<1>7. CASE UNCHANGED shellVars
  BY <1>1, <1>7 DEF ShellTypeOK, shellVars, demoVars, connectionVars, walletVars
<1>8. QED
  BY <1>1, <1>2, <1>3, <1>4, <1>5, <1>6, <1>7 DEF ShellNext

\* The shell keeps to its types: every promise, waiting call and account is of
\* a kind its code knows.
THEOREM ShellTyped == ShellSpec => []ShellTypeOK
<1>1. ShellInit => ShellTypeOK
  <2>1. 0 \in Nat
    OBVIOUS
  <2>2. QED
    BY <2>1, Zenon DEF ShellInit, ShellTypeOK, Origin
<1>2. QED
  BY <1>1, TypeStep, PTL DEF ShellSpec

\* What makes DemoOffline inductive: in demo mode nobody waits for the
\* connection any more.
OfflineInv ==
    /\ enabled \in BOOLEAN /\ stored \in BOOLEAN \cup {None}
    /\ enabled => ~api /\ ~apiError
    /\ enabled => ~Wanted

\* Cancelled waiters want nothing.
LEMMA CleanupUnwanted == \A w \in Cleanup : w[2]
<1>1. TAKE w \in Cleanup
<1>2. PICK v \in waiting : w = <<v[1], TRUE>>
  BY <1>1 DEF Cleanup
<1>3. QED
  BY <1>2

LEMMA OfflineStep == OfflineInv /\ [ShellNext]_shellVars => OfflineInv'
<1>1. SUFFICES ASSUME OfflineInv, [ShellNext]_shellVars
               PROVE  OfflineInv'
  OBVIOUS
<1>0. stored' \in BOOLEAN \cup {None}
  BY <1>1 DEF OfflineInv, ShellNext, Hydrate, Toggle, Reload, Settle, Connect,
              Authorized, Refused, SelectAccount, DemoAccountsChange, shellVars, demoVars
<1>2. \A demo \in BOOLEAN : EnabledBecomes(demo) => OfflineInv'
  <2>1. SUFFICES ASSUME NEW demo \in BOOLEAN, EnabledBecomes(demo)
                 PROVE  OfflineInv'
    OBVIOUS
  <2>2. enabled' = demo
    BY <2>1 DEF EnabledBecomes
  <2>3. CASE demo
    <3>1. waiting' = Cleanup /\ ~api' /\ ~apiError'
      BY <2>1, <2>3 DEF EnabledBecomes
    <3>2. ~Wanted'
      BY <3>1, CleanupUnwanted DEF Wanted
    <3>3. QED
      BY <1>0, <2>1, <2>2, <3>1, <3>2 DEF OfflineInv
  <2>4. CASE ~demo
    BY <1>0, <2>1, <2>2, <2>4 DEF OfflineInv
  <2>5. QED
    BY <2>3, <2>4
<1>3. ASSUME UNCHANGED <<enabled, connectionVars>>
      PROVE  OfflineInv'
  BY <1>0, <1>1, <1>3 DEF OfflineInv, connectionVars, Wanted
<1>4. CASE Hydrate
  <2>1. CASE stored \notin {None, enabled}
    <3>1. stored \in BOOLEAN /\ EnabledBecomes(stored)
      BY <1>1, <1>4, <2>1 DEF Hydrate, OfflineInv
    <3>2. QED
      BY <1>2, <3>1
  <2>2. CASE stored \in {None, enabled}
    BY <1>3, <1>4, <2>2 DEF Hydrate
  <2>3. QED
    BY <2>1, <2>2
<1>5. CASE Toggle
  <2>1. EnabledBecomes(~enabled) /\ (~enabled) \in BOOLEAN
    BY <1>5 DEF Toggle
  <2>2. QED
    BY <1>2, <2>1
<1>6. CASE Reload
  <2>1. enabled' = TRUE /\ api' = FALSE /\ apiError' = FALSE /\ waiting' = {}
    BY <1>6 DEF Reload
  <2>2. ~Wanted'
    BY <2>1 DEF Wanted
  <2>3. QED
    BY <1>0, <2>1, <2>2 DEF OfflineInv
<1>7. ASSUME NEW outcome \in {"resolved", "rejected"}, Settle(outcome)
      PROVE  OfflineInv'
  <2>1. waiting' = {} /\ enabled' = enabled
    BY <1>7 DEF Settle, demoVars
  <2>2. ~Wanted'
    BY <2>1 DEF Wanted
  <2>3. CASE enabled
    <3>1. ~Wanted /\ ~api /\ ~apiError
      BY <1>1, <2>3 DEF OfflineInv
    <3>2. ~api' /\ ~apiError'
      BY <1>7, <3>1 DEF Settle
    <3>3. QED
      BY <1>0, <1>1, <2>1, <2>2, <3>2 DEF OfflineInv
  <2>4. CASE ~enabled
    BY <1>0, <1>1, <2>1, <2>2, <2>4 DEF OfflineInv
  <2>5. QED
    BY <2>3, <2>4
<1>8. CASE Connect
  BY <1>3, <1>8 DEF Connect, demoVars
<1>9. CASE Authorized
  BY <1>3, <1>9 DEF Authorized, demoVars
<1>10. CASE Refused
  BY <1>3, <1>10 DEF Refused, demoVars
<1>11. CASE SelectAccount
  BY <1>3, <1>11 DEF SelectAccount, demoVars
<1>12. CASE DemoAccountsChange
  BY <1>3, <1>12 DEF DemoAccountsChange, demoVars
<1>13. CASE UNCHANGED shellVars
  BY <1>3, <1>13 DEF shellVars, demoVars
<1>14. QED
  BY <1>1, <1>4, <1>5, <1>6, <1>7, <1>8, <1>9, <1>10, <1>11, <1>12, <1>13
     DEF ShellNext

\* Demo mode never touches the network, whatever was asked for before it was
\* switched on.
THEOREM AlwaysDemoOffline == ShellSpec => []DemoOffline
<1>1. ShellInit => OfflineInv
  BY DEF ShellInit, OfflineInv, Wanted
<1>2. OfflineInv => DemoOffline
  BY DEF OfflineInv, DemoOffline
<1>3. QED
  BY <1>1, <1>2, OfflineStep, PTL DEF ShellSpec

\* Why the choice survives a reload: what is stored may rightly be the mode, or
\* nothing is stored, and then what shows may be, as well as the demo, with
\* which the next load would start.
ChoiceInv ==
    /\ enabled \in BOOLEAN /\ chosen \subseteq BOOLEAN
    /\ hydrated => enabled \in chosen /\ stored = enabled
    /\ ~hydrated => \/ stored \in chosen /\ stored # None
                    \/ stored = None /\ {TRUE, enabled} \subseteq chosen

LEMMA ChoiceStep == ChoiceInv /\ [ShellNext]_shellVars => ChoiceInv'
<1>1. SUFFICES ASSUME ChoiceInv, [ShellNext]_shellVars
               PROVE  ChoiceInv'
  OBVIOUS
<1>2. ASSUME UNCHANGED demoVars
      PROVE  ChoiceInv'
  BY <1>1, <1>2 DEF ChoiceInv, demoVars
<1>3. CASE Hydrate
  <2>1. /\ hydrated' = TRUE /\ chosen' = chosen /\ ~hydrated
        /\ stored' = IF stored = None THEN enabled ELSE stored
    BY <1>3 DEF Hydrate
  <2>2. CASE stored = None
    <3>1. enabled' = enabled /\ stored' = enabled /\ enabled \in chosen
      BY <1>1, <1>3, <2>1, <2>2 DEF Hydrate, ChoiceInv
    <3>2. QED
      BY <1>1, <2>1, <3>1 DEF ChoiceInv
  <2>3. CASE stored # None
    <3>1. stored' = stored /\ stored \in chosen
      BY <1>1, <2>1, <2>3 DEF ChoiceInv
    <3>2. enabled' = stored
      BY <1>3, <2>3 DEF Hydrate, EnabledBecomes
    <3>3. enabled' \in BOOLEAN
      BY <1>1, <3>1, <3>2 DEF ChoiceInv
    <3>4. QED
      BY <1>1, <2>1, <3>1, <3>2, <3>3 DEF ChoiceInv
  <2>4. QED
    BY <2>2, <2>3
<1>4. CASE Toggle
  <2>1. /\ enabled' = ~enabled /\ hydrated' = hydrated
        /\ stored' = IF hydrated THEN ~enabled ELSE stored
        /\ chosen' = IF hydrated THEN {~enabled} ELSE chosen \cup {~enabled}
    BY <1>4 DEF Toggle, EnabledBecomes
  <2>2. CASE hydrated
    BY <2>1, <2>2 DEF ChoiceInv
  <2>3. CASE ~hydrated
    BY <1>1, <2>1, <2>3 DEF ChoiceInv
  <2>4. QED
    BY <2>2, <2>3
<1>5. CASE Reload
  <2>1. /\ enabled' = TRUE /\ hydrated' = FALSE /\ stored' = stored
        /\ chosen' = IF hydrated THEN {enabled} ELSE chosen
    BY <1>5 DEF Reload
  <2>2. CASE hydrated
    <3>1. stored = enabled /\ stored # None
      BY <1>1, <2>2, ShellAssumption DEF ChoiceInv
    <3>2. QED
      BY <1>1, <2>1, <2>2, <3>1 DEF ChoiceInv
  <2>3. CASE ~hydrated
    BY <1>1, <2>1, <2>3 DEF ChoiceInv
  <2>4. QED
    BY <2>2, <2>3
<1>6. ASSUME NEW outcome \in {"resolved", "rejected"}, Settle(outcome)
      PROVE  ChoiceInv'
  BY <1>2, <1>6 DEF Settle
<1>7. CASE Connect \/ Authorized \/ Refused \/ SelectAccount \/ DemoAccountsChange
  BY <1>2, <1>7 DEF Connect, Authorized, Refused, SelectAccount, DemoAccountsChange
<1>8. CASE UNCHANGED shellVars
  BY <1>2, <1>8 DEF shellVars
<1>9. QED
  BY <1>1, <1>3, <1>4, <1>5, <1>6, <1>7, <1>8 DEF ShellNext

\* After any clicks and reloads the mode is the one last chosen; only a click
\* before the first effects of a load may be lost.
THEOREM AlwaysChoiceSurvives == ShellSpec => []ChoiceSurvives
<1>1. ShellInit => ChoiceInv
  BY DEF ShellInit, ChoiceInv
<1>2. ChoiceInv => ChoiceSurvives
  BY DEF ChoiceInv, ChoiceSurvives
<1>3. QED
  BY <1>1, <1>2, ChoiceStep, PTL DEF ShellSpec

---------------------------------------------------------------------------
\* The proof of an e-mail address.

\* The page's token pairs an address with a code that was issued for it.
TokenIssued ==
    /\ token = [email |-> token.email, code |-> token.code, fresh |-> token.fresh]
    /\ <<token.email, token.code>> \in issued

Confirming == call # Absent /\ call.kind = "confirm"

EmailInv ==
    /\ stage = "code" \/ Confirming \/ token # Absent => TokenIssued
    /\ ConfirmedByItsCode

LEMMA EmailInitInv == EmailInit => EmailInv
BY DEF EmailInit, EmailInv, TokenIssued, Confirming, ConfirmedByItsCode

LEMMA EmailStep == EmailInv /\ [EmailNext]_emailVars => EmailInv'
<1> SUFFICES ASSUME EmailInv, [EmailNext]_emailVars
             PROVE  EmailInv'
  OBVIOUS
<1> USE DEF EmailInv, TokenIssued, ConfirmedByItsCode
<1>1. CASE UNCHANGED emailVars
  BY <1>1 DEF emailVars, addressVars, proofVars, worldVars, Confirming
<1>2. ASSUME NEW e \in Emails, Edit(e) PROVE EmailInv'
  BY <1>2 DEF Edit, proofVars, worldVars, Confirming
<1>3. ASSUME NEW kind, NEW right, NEW code, Asks(kind, right, code),
             kind = "confirm" => stage = "code"
      PROVE  EmailInv'
  BY <1>3 DEF Asks, addressVars, proofVars, worldVars, Confirming
<1>4. CASE Challenged
  BY <1>4 DEF Challenged, addressVars, worldVars, Confirming
<1>5. CASE CodeSent
  <2>1. /\ issued' = issued \cup {<<call.email, codes + 1>>} /\ UNCHANGED confirmed
        /\ call' = Absent
        /\ token' = [email |-> call.email, code |-> codes + 1, fresh |-> TRUE]
    BY <1>5 DEF CodeSent, Issues
  <2>2. TokenIssued'
    <3>1. token'.email = call.email /\ token'.code = codes + 1 /\ token'.fresh = TRUE
      BY <2>1
    <3>2. QED
      BY <2>1, <3>1
  <2>3. QED
    BY <2>1, <2>2
<1>6. CASE Confirmed
  <2>1. /\ Confirming /\ call.code = token.code
        /\ call' = Absent /\ stage' = "done" /\ UNCHANGED <<token, issued>>
        /\ confirmed' = confirmed \cup {<<token.email, call.code>>}
    BY <1>6 DEF Confirmed, Valid, Confirming
  <2>2. <<token.email, call.code>> \in issued
    BY <2>1
  <2>3. QED
    BY <2>1, <2>2 DEF Confirming
<1>7. CASE CallRefused
  BY <1>7 DEF CallRefused, addressVars, proofVars, worldVars, Confirming
<1>8. CASE Lost
  <2>1. issued \subseteq issued' /\ call' = Absent /\ UNCHANGED <<stage, token, confirmed>>
    BY <1>8 DEF Lost, Issues, proofVars, worldVars
  <2>2. QED
    BY <2>1 DEF Confirming
<1>9. CASE Expire
  <2>1. UNCHANGED <<stage, call, issued, confirmed>>
    BY <1>9 DEF Expire, worldVars
  <2>2. CASE UNCHANGED token
    BY <2>1, <2>2 DEF Confirming
  <2>3. CASE token # Absent /\ token' = [token EXCEPT !.fresh = FALSE]
    <3>1. TokenIssued
      BY <2>3
    <3>2. token' = [email |-> token.email, code |-> token.code, fresh |-> FALSE]
      BY <2>3, <3>1
    <3>3. token'.email = token.email /\ token'.code = token.code /\ token'.fresh = FALSE
      BY <3>2
    <3>4. TokenIssued'
      BY <2>1, <3>1, <3>2, <3>3
    <3>5. QED
      BY <2>1, <3>4
  <2>4. QED
    BY <1>9, <2>2, <2>3 DEF Expire
<1>10. CASE Register
  BY <1>10 DEF Register, worldVars, Confirming
<1>11. QED
  BY <1>1, <1>2, <1>3, <1>4, <1>5, <1>6, <1>7, <1>8, <1>9, <1>10
     DEF EmailNext, StartChallenge, SendCode, ConfirmCode

\* Whatever is edited, sent again, lost or expired, an address is confirmed only
\* by a code that was issued for it.
THEOREM AddressesAreConfirmedByTheirCodes == EmailSpec => []ConfirmedByItsCode
<1>1. EmailInv => ConfirmedByItsCode
  BY DEF EmailInv
<1>2. QED
  BY <1>1, EmailInitInv, EmailStep, PTL DEF EmailSpec

---------------------------------------------------------------------------
\* The map.

VendorsUnderWay ==
    \A v \in WantedVendors :
        \/ v \in {p.item : p \in pins}
        \/ v \in missed
        \/ v \in {g.item : g \in geocodes}
        \/ v \notin Addressed /\ ~(demoOn /\ v \in DemoCoords)

MapInv ==
    /\ vendors \subseteq Vendors /\ places \subseteq Projects \cup Rfps
    /\ {g.item : g \in geocodes} \subseteq Vendors
    /\ made => ready
    /\ made => PlacesPinned /\ VendorsUnderWay

\* The items of pins or of calls of the geocoder, and those of one run.
ItemsOf(ps) == {p.item : p \in ps}
RunOf(S, n) == {[item |-> i, run |-> n] : i \in S}

LEMMA ItemsOfRun == \A S, n : ItemsOf(RunOf(S, n)) = S
<1> SUFFICES ASSUME NEW S, NEW n PROVE ItemsOf(RunOf(S, n)) = S
  OBVIOUS
<1>1. \A i \in S : [item |-> i, run |-> n] \in RunOf(S, n) /\ [item |-> i, run |-> n].item = i
  BY DEF RunOf
<1>2. \A p \in RunOf(S, n) : p.item \in S
  BY DEF RunOf
<1> QED
  BY <1>1, <1>2 DEF ItemsOf

LEMMA ItemsOfUnion == \A A, B : ItemsOf(A \cup B) = ItemsOf(A) \cup ItemsOf(B)
BY DEF ItemsOf

\* Whatever the drawing effect ran after, its pins are those of the new state.
LEMMA Redrawn ==
    ASSUME vendors' \subseteq Vendors, places' \subseteq Projects \cup Rfps,
           {g.item : g \in geocodes} \subseteq Vendors, ready', made', Redraw
    PROVE  /\ {g.item : g \in geocodes'} \subseteq Vendors
           /\ PlacesPinned' /\ VendorsUnderWay'
<1>1. /\ pins' = RunOf(Placed' \cup WantedPlaces', run + 1)
      /\ geocodes' = geocodes \cup RunOf(Geocoded', run + 1)
  BY DEF Redraw, RunOf
<1>2. WantedVendors' \subseteq Vendors /\ WantedPlaces' \subseteq Projects \cup Rfps
  BY DEF WantedVendors, WantedPlaces
<1>3. Placed' \subseteq Vendors /\ Geocoded' \subseteq Vendors
  BY <1>2 DEF Placed, Geocoded
<1>4. {p.item : p \in pins'} = Placed' \cup WantedPlaces'
  <2>1. ItemsOf(pins') = Placed' \cup WantedPlaces'
    BY <1>1, ItemsOfRun, Zenon
  <2>2. QED
    BY <2>1 DEF ItemsOf
<1>5. {g.item : g \in geocodes'} = {g.item : g \in geocodes} \cup Geocoded'
  <2>1. ItemsOf(geocodes') = ItemsOf(geocodes) \cup Geocoded'
    <3>1. ItemsOf(geocodes \cup RunOf(Geocoded', run + 1))
              = ItemsOf(geocodes) \cup ItemsOf(RunOf(Geocoded', run + 1))
      BY ItemsOfUnion
    <3>2. ItemsOf(RunOf(Geocoded', run + 1)) = Geocoded'
      BY ItemsOfRun
    <3>3. QED
      BY <1>1, <3>1, <3>2
  <2>2. QED
    BY <2>1 DEF ItemsOf
<1>6. PlacesPinned'
  BY <1>2, <1>3, <1>4, MapAssumption DEF PlacesPinned
<1>7. VendorsUnderWay'
  <2> SUFFICES ASSUME NEW v \in WantedVendors'
               PROVE  \/ v \in {p.item : p \in pins'} \/ v \in {g.item : g \in geocodes'}
                      \/ v \notin Addressed /\ ~(demoOn' /\ v \in DemoCoords)
    BY DEF VendorsUnderWay
  <2>1. \/ v \in Placed' \/ v \in Geocoded'
        \/ v \notin Addressed /\ ~(demoOn' /\ v \in DemoCoords)
    BY DEF Placed, Geocoded
  <2>2. QED
    BY <1>4, <1>5, <2>1
<1> QED
  BY <1>3, <1>5, <1>6, <1>7

LEMMA MapStep == MapInv /\ [MapNext]_mapVars => MapInv'
<1> SUFFICES ASSUME MapInv, [MapNext]_mapVars
             PROVE  MapInv'
  OBVIOUS
<1>0. /\ vendors \subseteq Vendors /\ places \subseteq Projects \cup Rfps
      /\ {g.item : g \in geocodes} \subseteq Vendors
      /\ made => ready
      /\ made => PlacesPinned /\ VendorsUnderWay
  BY DEF MapInv
<1>a. ASSUME Redraw, vendors' \subseteq Vendors, places' \subseteq Projects \cup Rfps,
             made' => ready'
      PROVE  MapInv'
  <2>1. CASE made'
    BY <1>0, <1>a, <2>1, Redrawn DEF MapInv
  <2>2. CASE ~made'
    <3>1. UNCHANGED geocodes
      BY <1>a, <2>2 DEF Redraw, pinVars
    <3>2. QED
      BY <1>0, <1>a, <2>2, <3>1 DEF MapInv
  <2>3. QED
    BY <2>1, <2>2
<1>b. ASSUME UNCHANGED <<ready, made, dataVars, filterVars, pinVars>> PROVE MapInv'
  <2>1. /\ UNCHANGED <<ready, made, vendors, places, demoOn>>
        /\ UNCHANGED <<layers, activeCategories, activeWards, pins, geocodes, missed>>
    BY <1>b DEF dataVars, filterVars, pinVars
  <2>2. WantedVendors' = WantedVendors /\ WantedPlaces' = WantedPlaces
    BY <2>1 DEF WantedVendors, WantedPlaces
  <2>3. (PlacesPinned => PlacesPinned') /\ (VendorsUnderWay => VendorsUnderWay')
    BY <2>1, <2>2 DEF PlacesPinned, VendorsUnderWay
  <2>4. QED
    BY <1>0, <2>1, <2>3 DEF MapInv
<1>1. CASE UNCHANGED mapVars \/ LoadFails \/ AuthFails
  BY <1>b, <1>1 DEF mapVars, loadVars, LoadFails, AuthFails
<1>2. CASE Mount
  <2>1. Redraw /\ UNCHANGED <<vendors, places>> /\ (made' => ready')
    BY <1>2 DEF Mount, dataVars
  <2>2. QED
    BY <1>0, <1>a, <2>1
<1>3. CASE Unmount
  <2>1. vendors' = {} /\ places' = {} /\ made' = FALSE /\ geocodes' = {}
    BY <1>3 DEF Unmount
  <2>2. QED
    BY <2>1 DEF MapInv
<1>4. CASE Loaded
  <2>1. CASE awaiting
    <3>1. Redraw /\ UNCHANGED <<vendors, places>> /\ ready' = TRUE
      BY <1>4, <2>1 DEF Loaded, dataVars
    <3>2. QED
      BY <1>0, <1>a, <3>1
  <2>2. CASE ~awaiting
    <3>1. /\ UNCHANGED <<vendors, places, demoOn, layers, activeCategories, activeWards>>
          /\ UNCHANGED <<pins, geocodes, missed>>
          /\ (made' => made) /\ (ready => ready')
      BY <1>4, <2>2 DEF Loaded, dataVars, filterVars, pinVars
    <3>2. WantedVendors' = WantedVendors /\ WantedPlaces' = WantedPlaces
      BY <3>1 DEF WantedVendors, WantedPlaces
    <3>3. (PlacesPinned => PlacesPinned') /\ (VendorsUnderWay => VendorsUnderWay')
      BY <3>1, <3>2 DEF PlacesPinned, VendorsUnderWay
    <3>4. QED
      BY <1>0, <3>1, <3>3 DEF MapInv
  <2>3. QED
    BY <2>1, <2>2
<1>5. CASE VendorsArrive \/ PlacesArrive
  <2>1. /\ Redraw /\ vendors' \in {vendors, Vendors} /\ places' \in {places, Projects \cup Rfps}
        /\ UNCHANGED <<made, ready>>
    BY <1>5 DEF VendorsArrive, PlacesArrive, loadVars
  <2>2. QED
    BY <1>0, <1>a, <2>1
<1>6. CASE SwitchDemo \/ Filter
  <2>1. Redraw /\ UNCHANGED <<vendors, places, made, ready>>
    BY <1>6 DEF SwitchDemo, Filter, loadVars, dataVars
  <2>2. QED
    BY <1>0, <1>a, <2>1
<1>7. ASSUME NEW g \in geocodes, Geocode(g) PROVE MapInv'
  <2>1. /\ geocodes' = geocodes \ {g}
        /\ \/ pins' = pins \cup {g} /\ missed' = missed
           \/ missed' = missed \cup {g.item} /\ pins' = pins
        /\ UNCHANGED <<vendors, places, demoOn, layers, activeCategories, activeWards>>
        /\ UNCHANGED <<made, ready>>
    BY <1>7 DEF Geocode, loadVars, dataVars, filterVars
  <2>2. WantedVendors' = WantedVendors /\ WantedPlaces' = WantedPlaces
    BY <2>1 DEF WantedVendors, WantedPlaces
  <2>3. g.item \in Vendors
    BY <1>0
  <2>4. PlacesPinned => PlacesPinned'
    <3>1. {p.item : p \in pins'} \ Vendors = {p.item : p \in pins} \ Vendors
      BY <2>1, <2>3
    <3>2. QED
      BY <2>2, <3>1 DEF PlacesPinned
  <2>5. VendorsUnderWay => VendorsUnderWay'
    <3>1. \A v \in {h.item : h \in geocodes} :
              \/ v \in {p.item : p \in pins'} \/ v \in missed' \/ v \in {h.item : h \in geocodes'}
      BY <2>1
    <3>2. {p.item : p \in pins} \subseteq {p.item : p \in pins'} /\ missed \subseteq missed'
      BY <2>1
    <3>3. QED
      BY <2>1, <2>2, <3>1, <3>2 DEF VendorsUnderWay
  <2>6. {h.item : h \in geocodes'} \subseteq Vendors
    BY <1>0, <2>1
  <2>7. QED
    BY <1>0, <2>1, <2>4, <2>5, <2>6 DEF MapInv
<1> QED
  BY <1>1, <1>2, <1>3, <1>4, <1>5, <1>6, <1>7 DEF MapNext

\* The map shows what the filters want, in whatever order the script, the data,
\* the clicks and Google's answers come: no effect of a render misses what an
\* earlier one of the same render leaves for it (VendorMap's three effects).
THEOREM MapShowsWhatIsWanted == MapSpec => []PinsAsFiltered
<1>1. MapInit => MapInv
  BY DEF MapInit, MapInv
<1>2. MapInv => PinsAsFiltered
  BY DEF MapInv, PinsAsFiltered, VendorsUnderWay, VendorsPinned
<1>3. QED
  BY <1>1, <1>2, MapStep, PTL DEF MapSpec

---------------------------------------------------------------------------
\* The proposal page.

\* The reads that may be under way: a vote is asked for of an account that was
\* selected, and answered as cast only if it was.
KnownRead ==
    {r \in PageRead :
        r.kind = "voteOf" => r.of \in asked /\ (r.value = "voted" => r.of \in voters)}

\* What runAction has read is as its action left the proposal or later.
OwnReadRanked ==
    tx # Nil => /\ tx \in Transaction
                /\ tx.stage # "reading" => tx.read = Nil
                /\ tx.read # Nil => Rank[acted] <= Rank[tx.read]

PageInv ==
    /\ status \in Status /\ acted \in Status /\ Rank[acted] <= Rank[status]
    /\ signer \in Accounts \cup {Nil}
    /\ reads \in Seq(KnownRead)
    /\ OwnReadRanked
    /\ GreyedOnlyAfterVote

\* A proposal only moves up in rank.
LEMMA RankUp ==
    /\ Rank \in [Status -> Nat]
    /\ \A c \in Calls : /\ Needs[c] \in Status /\ Leads[c] \subseteq Status
                        /\ \A s \in Leads[c] : Rank[Needs[c]] <= Rank[s]
<1>1. /\ Status = {"PendingReview", "Proposed", "Vetoed", "Approved", "Rejected", "Cancelled",
                   "Funded"}
      /\ Calls = {"vet", "veto", "vote", "close", "disburse"}
  BY DEF Status, Rank, Calls, Needs
<1>2. Rank \in [Status -> Nat]
  BY <1>1 DEF Rank, Status
<1>3. /\ Rank["PendingReview"] = 0 /\ Rank["Proposed"] = 1 /\ Rank["Vetoed"] = 1
      /\ Rank["Approved"] = 2 /\ Rank["Rejected"] = 2 /\ Rank["Funded"] = 3
  BY DEF Rank
<1>4. /\ Needs["vet"] = "PendingReview" /\ Needs["veto"] = "PendingReview"
      /\ Needs["vote"] = "Proposed" /\ Needs["close"] = "Proposed"
      /\ Needs["disburse"] = "Approved"
  BY DEF Needs
<1>5. /\ Leads["vet"] = {"Proposed"} /\ Leads["veto"] = {"Vetoed"}
      /\ Leads["vote"] = {"Proposed"} /\ Leads["close"] = {"Approved", "Funded", "Rejected"}
      /\ Leads["disburse"] = {"Approved", "Funded"}
  BY DEF Leads
<1> QED
  BY <1>1, <1>2, <1>3, <1>4, <1>5

\* Removing a read leaves reads of the same kinds.
LEMMA ReadsRemoved ==
    ASSUME NEW S, NEW s \in Seq(S), NEW i \in DOMAIN s
    PROVE  RemoveAt(s, i) \in Seq(S)
<1>1. /\ Len(s) \in Nat /\ DOMAIN s = 1 .. Len(s)
      /\ 1 \in Int /\ i - 1 \in Int /\ i + 1 \in Int /\ Len(s) \in Int
  BY LenProperties
<1>2. /\ \A j \in 1 .. i - 1 : s[j] \in S
      /\ \A j \in i + 1 .. Len(s) : s[j] \in S
  BY <1>1, ElementOfSeq
<1>3. SubSeq(s, 1, i - 1) \in Seq(S) /\ SubSeq(s, i + 1, Len(s)) \in Seq(S)
  BY <1>1, <1>2, SubSeqProperties
<1> QED
  BY <1>3, ConcatProperties DEF RemoveAt

\* What is known of the reads stays known: accounts stay asked for, and votes
\* stay cast.
LEMMA ReadsStayKnown ==
    ASSUME reads \in Seq(KnownRead), asked \subseteq asked', voters \subseteq voters'
    PROVE  reads \in Seq(KnownRead')
<1>1. KnownRead \subseteq KnownRead'
  BY DEF KnownRead
<1>2. /\ Len(reads) \in Nat /\ reads = [j \in 1 .. Len(reads) |-> reads[j]]
      /\ \A j \in 1 .. Len(reads) : reads[j] \in KnownRead
  BY LenProperties, ElementOfSeq, SeqDef
<1> QED
  BY <1>1, <1>2, SeqDef

\* An account is asked for.
LEMMA VoteAsked ==
    ASSUME NEW a \in Accounts \cup {Nil}, a # Nil => a \in asked'
    PROVE  VoteOf(a) \in Seq(KnownRead')
<1>1. CASE a = Nil
  BY <1>1 DEF VoteOf
<1>2. CASE a # Nil
  <2> DEFINE r == [kind |-> "voteOf", of |-> a, value |-> Nil]
  <2>1. r \in PageRead /\ r.of = a /\ r.value = Nil /\ Nil # "voted"
    BY PageAssumption DEF PageRead
  <2>2. r \in KnownRead'
    BY <1>2, <2>1 DEF KnownRead, PageRead
  <2>3. VoteOf(a) = <<r>>
    BY <1>2 DEF VoteOf
  <2>4. QED
    BY <2>2, <2>3
<1> QED
  BY <1>1, <1>2

\* A step that moves neither the chain nor the transaction and sends and ends
\* reads: what is left to see is the reads and the greyed buttons.
LEMMA PageStepByEffects ==
    ASSUME PageInv, UNCHANGED <<status, acted, tx>>,
           signer' \in Accounts \cup {Nil}, reads' \in Seq(KnownRead)', GreyedOnlyAfterVote'
    PROVE  PageInv'
BY DEF PageInv, OwnReadRanked

LEMMA StepOfEffects ==
    ASSUME PageInv, Connected \/ (\E a \in Accounts : SelectSigner(a)) \/ ToggleDemo \/ DemoVote
    PROVE  PageInv'
<1>1. /\ asked \subseteq asked' /\ voters \subseteq voters'
      /\ UNCHANGED <<status, acted, tx, voters>> /\ signer' \in Accounts \cup {Nil}
  BY PageAssumption
     DEF PageInv, Connected, SelectSigner, ToggleDemo, DemoVote, chainVars, actionVars
<1>2. reads \in Seq(KnownRead')
  BY <1>1, ReadsStayKnown DEF PageInv
<1>3. reads' \in Seq(KnownRead')
  <2>1. CASE Connected
    <3>1. ProposalRead \in KnownRead'
      BY DEF ProposalRead, KnownRead, PageRead
    <3>2. VoteOf(signer) \in Seq(KnownRead')
      BY <2>1, VoteAsked DEF PageInv, Connected
    <3>3. Append(reads, ProposalRead) \in Seq(KnownRead')
      BY <1>2, <3>1, AppendProperties
    <3>4. QED
      BY <2>1, <3>2, <3>3, ConcatProperties DEF Connected
  <2>2. ASSUME NEW a \in Accounts, SelectSigner(a) PROVE reads' \in Seq(KnownRead')
    <3>1. CASE pageApi /\ ~demoEnabled
      <4>1. VoteOf(a) \in Seq(KnownRead')
        BY <2>2, <3>1, VoteAsked DEF SelectSigner
      <4>2. QED
        BY <1>2, <2>2, <3>1, <4>1, ConcatProperties DEF SelectSigner
    <3>2. CASE ~(pageApi /\ ~demoEnabled)
      BY <1>2, <2>2, <3>2 DEF SelectSigner
    <3>3. QED
      BY <3>1, <3>2
  <2>3. CASE ToggleDemo \/ DemoVote
    BY <1>2, <2>3 DEF ToggleDemo, DemoVote
  <2>4. QED
    BY <2>1, <2>2, <2>3
<1>4. GreyedOnlyAfterVote'
  <2>1. CASE Connected \/ (\E a \in Accounts : SelectSigner(a))
    BY <1>1, <2>1 DEF PageInv, GreyedOnlyAfterVote, Connected, SelectSigner
  <2>2. CASE ToggleDemo
    BY <2>2 DEF GreyedOnlyAfterVote, ToggleDemo
  <2>3. CASE DemoVote
    BY <2>3 DEF GreyedOnlyAfterVote, DemoVote
  <2>4. QED
    BY <2>1, <2>2, <2>3
<1> QED
  BY <1>1, <1>3, <1>4, PageStepByEffects

\* The transaction and the chain move: votes are added, ranks go up.
LEMMA StepOfAction ==
    ASSUME PageInv, (\E c \in Calls : Click(c)) \/ Sign \/ Reject \/ Lose \/ Include
                    \/ Notify \/ NodeReadsOwn \/ OwnAnswer \/ OwnFail \/ OthersAct
    PROVE  PageInv'
<1>0. Nil \notin Status /\ Nil \notin Transaction
  BY PageAssumption
<1>1. /\ UNCHANGED <<demoEnabled, signer, asked, hasVoted, reads>>
      /\ voters \subseteq voters'
  BY DEF Click, Sign, Reject, Lose, Include, Notify, NodeReadsOwn, OwnAnswer, OwnFail,
         EndsOwn, OthersAct, chainVars, modeVars, shownVars
<1>2. reads' \in Seq(KnownRead')
  BY <1>1, ReadsStayKnown DEF PageInv
<1>3. GreyedOnlyAfterVote'
  BY <1>1 DEF PageInv, GreyedOnlyAfterVote
<1>4. tx = Nil \/ tx \in Transaction
  BY DEF PageInv, OwnReadRanked
<1>5. status' \in Status /\ acted' \in Status /\ Rank[acted'] <= Rank[status']
  <2>1. CASE OthersAct
    <3>1. PICK c \in Calls : status = Needs[c] /\ status' \in Leads[c]
      BY <2>1 DEF OthersAct
    <3>2. status' \in Status /\ Rank[status] <= Rank[status'] /\ acted' = acted
      BY <2>1, <3>1, RankUp DEF OthersAct, actionVars
    <3>3. Rank[acted] \in Nat /\ Rank[status] \in Nat /\ Rank[status'] \in Nat
      BY <3>2, RankUp DEF PageInv
    <3>4. QED
      BY <3>2, <3>3 DEF PageInv
  <2>2. CASE Include
    <3>1. tx.call \in Calls
      BY <1>4, <2>2 DEF Include, Transaction
    <3>2. status' \in Status /\ (acted' = status' \/ UNCHANGED <<status, acted>>)
      BY <2>2, <3>1, RankUp DEF Include, PageInv
    <3>3. Rank[status'] \in Nat
      BY <3>2, RankUp
    <3>4. QED
      BY <3>2, <3>3 DEF PageInv
  <2>3. CASE UNCHANGED <<status, acted>>
    BY <2>3 DEF PageInv
  <2>4. QED
    BY <2>1, <2>2, <2>3 DEF Click, Sign, Reject, Lose, Notify, NodeReadsOwn, OwnAnswer,
         OwnFail, EndsOwn, chainVars, actionVars
<1>6. OwnReadRanked'
  <2>1. CASE \E c \in Calls : Click(c)
    <3>1. PICK c \in Calls : Click(c)
      BY <2>1
    <3>2. signer \in Accounts
      BY <3>1 DEF PageInv, Click, Offered
    <3>3. tx' = Nil \/ tx' = [call |-> c, by |-> signer, stage |-> "signing", read |-> Nil]
      BY <3>1 DEF Click
    <3>4. tx' # Nil => tx' \in Transaction /\ tx'.stage = "signing" /\ tx'.read = Nil
      BY <3>2, <3>3 DEF Transaction, Stages
    <3>5. QED
      BY <3>4 DEF OwnReadRanked
  <2>2. CASE Reject \/ OwnAnswer \/ OwnFail
    BY <2>2 DEF OwnReadRanked, Reject, OwnAnswer, OwnFail, EndsOwn
  <2>3. CASE NodeReadsOwn
    <3>1. /\ tx \in Transaction /\ tx' = [tx EXCEPT !.read = status] /\ tx.stage = "reading"
          /\ acted' = acted
      BY <1>4, <2>3 DEF NodeReadsOwn, busy
    <3>2. tx' \in Transaction /\ tx'.stage = "reading" /\ tx'.read = status
      BY <3>1 DEF Transaction, PageInv
    <3>3. QED
      BY <3>1, <3>2 DEF OwnReadRanked, PageInv
  <2>4. CASE Sign \/ Lose \/ Include \/ Notify
    <3>1. /\ tx \in Transaction /\ tx.stage \in {"signing", "sent", "ok", "refused"}
          /\ tx' = Nil \/ \E g \in Stages : tx' = [tx EXCEPT !.stage = g]
      BY <1>4, <2>4 DEF Sign, Lose, Include, Notify, busy, Stages
    <3>2. tx.read = Nil
      BY <1>0, <3>1 DEF PageInv, OwnReadRanked
    <3>3. tx' # Nil => tx' \in Transaction /\ tx'.read = Nil
      BY <3>1, <3>2 DEF Transaction
    <3>4. QED
      BY <3>3 DEF OwnReadRanked
  <2>5. CASE OthersAct
    BY <2>5 DEF PageInv, OwnReadRanked, OthersAct, actionVars
  <2>6. QED
    BY <2>1, <2>2, <2>3, <2>4, <2>5
<1> QED
  BY <1>1, <1>2, <1>3, <1>5, <1>6 DEF PageInv

\* An effect's read is answered by the node, or ends, in whichever order.
LEMMA StepOfReads ==
    ASSUME PageInv, NEW i \in DOMAIN reads, NodeReads(i) \/ PageAnswer(i) \/ Fail(i)
    PROVE  PageInv'
<1>1. /\ UNCHANGED <<status, acted, tx, voters, asked, demoEnabled, signer>>
      /\ reads \in Seq(KnownRead) /\ KnownRead' = KnownRead
      /\ signer \in Accounts \cup {Nil}
  BY DEF PageInv, NodeReads, PageAnswer, Fail, Ends, chainVars, modeVars, actionVars, KnownRead
<1>2. DOMAIN reads = 1 .. Len(reads) /\ reads[i] \in KnownRead
  BY <1>1, LenProperties, ElementOfSeq
<1>3. CASE NodeReads(i)
  <2>1. PICK v \in Status \cup {"voted", "none"} :
            /\ v = IF reads[i].kind = "proposal" THEN status
                   ELSE IF reads[i].of \in voters THEN "voted" ELSE "none"
    BY DEF PageInv
  <2>2. PICK r : r = [reads[i] EXCEPT !.value = v]
    OBVIOUS
  <2>3. r \in KnownRead
    <3>1. reads[i] \in PageRead
      BY <1>2 DEF KnownRead
    <3>2. /\ r \in PageRead /\ r.kind = reads[i].kind /\ r.of = reads[i].of /\ r.value = v
      BY <2>2, <3>1 DEF PageRead
    <3>3. r.kind = "voteOf" => r.of \in asked
      BY <1>2, <3>2 DEF KnownRead
    <3>4. r.kind = "voteOf" /\ r.value = "voted" => r.of \in voters
      BY <2>1, <3>2
    <3>5. QED
      BY <3>2, <3>3, <3>4 DEF KnownRead
  <2>4. reads' = [reads EXCEPT ![i] = r]
    BY <1>3, <2>1, <2>2 DEF NodeReads
  <2>5. reads' \in Seq(KnownRead)
    BY <1>1, <1>2, <2>3, <2>4, ExceptSeq
  <2>6. UNCHANGED <<demoEnabled, hasVoted, asked, voters>>
    BY <1>3 DEF NodeReads, chainVars, modeVars, shownVars
  <2>7. GreyedOnlyAfterVote'
    BY <2>6 DEF PageInv, GreyedOnlyAfterVote
  <2>8. QED
    BY <1>1, <2>5, <2>7, PageStepByEffects
<1>4. CASE PageAnswer(i) \/ Fail(i)
  <2>1. reads' \in Seq(KnownRead)
    BY <1>1, <1>4, ReadsRemoved DEF PageAnswer, Fail, Ends
  <2>2. GreyedOnlyAfterVote'
    <3>1. CASE hasVoted' = hasVoted
      BY <1>1, <3>1 DEF PageInv, GreyedOnlyAfterVote
    <3>2. CASE hasVoted' = FALSE
      BY <3>2 DEF GreyedOnlyAfterVote
    <3>3. CASE reads[i].kind # "proposal" /\ hasVoted' = (reads[i].value = "voted")
      <4>1. reads[i].kind = "voteOf"
        BY <1>2, <3>3 DEF KnownRead, PageRead
      <4>2. hasVoted' => reads[i].of \in asked \cap voters
        BY <1>2, <3>3, <4>1 DEF KnownRead
      <4>3. QED
        BY <1>1, <4>2 DEF GreyedOnlyAfterVote
    <3>4. QED
      BY <1>4, <3>1, <3>2, <3>3 DEF PageAnswer, Fail
  <2>3. QED
    BY <1>1, <2>1, <2>2, PageStepByEffects
<1> QED
  BY <1>3, <1>4

LEMMA PageInitInv == PageInit => PageInv
<1> SUFFICES ASSUME PageInit PROVE PageInv
  OBVIOUS
<1>1. /\ status \in {"PendingReview", "Proposed"} /\ acted = "PendingReview"
      /\ signer = Nil /\ reads = <<>> /\ tx = Nil /\ ~hasVoted
  BY DEF PageInit
<1>2. status \in Status /\ acted \in Status /\ Rank[acted] <= Rank[status]
  BY <1>1 DEF Status, Rank
<1> QED
  BY <1>1, <1>2 DEF PageInv, OwnReadRanked, GreyedOnlyAfterVote

LEMMA PageStep == PageInv /\ [PageNext]_pageVars => PageInv'
<1> SUFFICES ASSUME PageInv, [PageNext]_pageVars PROVE PageInv'
  OBVIOUS
<1>1. CASE UNCHANGED pageVars
  BY <1>1 DEF PageInv, KnownRead, OwnReadRanked, GreyedOnlyAfterVote, pageVars, chainVars,
              modeVars, shownVars, actionVars
<1>2. CASE Connected \/ (\E a \in Accounts : SelectSigner(a)) \/ ToggleDemo \/ DemoVote
  BY <1>2, StepOfEffects
<1>3. CASE (\E c \in Calls : Click(c)) \/ Sign \/ Reject \/ Lose \/ Include
           \/ Notify \/ NodeReadsOwn \/ OwnAnswer \/ OwnFail \/ OthersAct
  BY <1>3, StepOfAction
<1>4. CASE \E i \in DOMAIN reads : NodeReads(i) \/ PageAnswer(i) \/ Fail(i)
  BY <1>4, StepOfReads
<1> QED
  BY <1>1, <1>2, <1>3, <1>4 DEF PageNext, OwnRead

\* In whatever order the reads of votes are answered (the page's effect on
\* voteOf), and whatever was voted in demo mode, the buttons are greyed only if
\* an account voted that was selected over a connection.
THEOREM GreyedButtonsHaveVoted == PageSpec => []GreyedOnlyAfterVote
<1>1. PageInv => GreyedOnlyAfterVote
  BY DEF PageInv
<1>2. QED
  BY <1>1, PageInitInv, PageStep, PTL DEF PageSpec

\* When runAction gives the buttons back, without an error, the page shows what
\* its action did, or what came later, however other reads overlap with its own
\* (useProposal's refresh) and whichever mode it is in by then.
THEOREM ActionsAreShown == PageSpec => ActionShown
<1> DEFINE Shows == busy /\ ~busy' /\ ~error' /\ ~readError' =>
                        shown' \in Status /\ Rank[shown'] >= Rank[acted]
<1>1. ASSUME PageInv, [PageNext]_pageVars PROVE [Shows]_pageVars
  <2> SUFFICES ASSUME PageNext, busy, ~busy', ~error', ~readError'
               PROVE  shown' \in Status /\ Rank[shown'] >= Rank[acted]
    BY <1>1
  <2>1. tx \in Transaction /\ tx' = Nil
    BY <1>1 DEF PageInv, OwnReadRanked, busy
  <2>2. OwnAnswer
    <3>1. ~(Sign \/ Lose \/ Include \/ NodeReadsOwn)
      <4>1. \A g \in Stages : [tx EXCEPT !.stage = g] \in Transaction
        BY <2>1 DEF Transaction
      <4>2. [tx EXCEPT !.read = status] \in Transaction
        BY <1>1, <2>1 DEF Transaction, PageInv
      <4>3. QED
        BY <2>1, <4>1, <4>2, PageAssumption DEF Sign, Lose, Include, NodeReadsOwn, Stages
    <3>2. ~Notify
      <4>1. [tx EXCEPT !.stage = "reading"] \in Transaction
        BY <2>1 DEF Transaction, Stages
      <4>2. QED
        BY <2>1, <4>1, PageAssumption DEF Notify
    <3>3. ~((\E c \in Calls : Click(c)) \/ Reject \/ OwnFail)
      BY DEF Click, Offered, Reject, OwnFail
    <3>4. tx' # tx
      BY <2>1, PageAssumption
    <3>5. ~(Connected \/ (\E a \in Accounts : SelectSigner(a)) \/ ToggleDemo \/ DemoVote
            \/ OthersAct \/ \E i \in DOMAIN reads : NodeReads(i) \/ PageAnswer(i) \/ Fail(i))
      BY <3>4 DEF Connected, SelectSigner, ToggleDemo, DemoVote, OthersAct, NodeReads,
                  PageAnswer, Fail, Ends, actionVars
    <3>6. QED
      BY <3>1, <3>2, <3>3, <3>5 DEF PageNext, OwnRead
  <2>3. tx.read # Nil /\ shown' = tx.read
    BY <2>2 DEF OwnAnswer
  <2>4. shown' \in Status /\ Rank[acted] <= Rank[shown'] /\ acted \in Status
    BY <1>1, <2>1, <2>3, PageAssumption DEF PageInv, OwnReadRanked, Transaction
  <2>5. Rank[acted] \in Nat /\ Rank[shown'] \in Nat
    BY <2>4, RankUp
  <2>6. QED
    BY <2>4, <2>5
<1>2. QED
  BY <1>1, PageInitInv, PageStep, PTL DEF PageSpec, ActionShown
-----------------------------------------------------------------------------
\* Amounts: a text of digits stands for a number, whatever its length.

\* Induction over the natural numbers, by sets.
LEMMA NatSetInduction ==
    ASSUME NEW S, 0 \in S, \A n \in Nat : n \in S => n + 1 \in S
    PROVE  Nat \subseteq S
<1> SUFFICES ASSUME Nat \ S # {} PROVE FALSE
  OBVIOUS
<1>1. PICK R : R = {p \in Nat \X Nat : p[1] < p[2]}
  OBVIOUS
<1>2. IsWellFoundedOn(R, Nat)
  BY <1>1, NatLessThanWellFounded DEF OpToRel
<1>3. PICK m \in Nat \ S : \A y \in Nat \ S : <<y, m>> \notin R
  BY <1>2, WFMin, Nat \ S \subseteq Nat
<1>4. m # 0 /\ m - 1 \in Nat /\ <<m - 1, m>> \in R
  BY <1>1
<1>5. m - 1 \in S
  BY <1>3, <1>4
<1> QED
  BY <1>3, <1>4, <1>5

\* The powers of ten unfold as their recursion says.
LEMMA TenUnfolds == Ten = [n \in Nat |-> IF n = 0 THEN 1 ELSE 10 * Ten[n - 1]]
<1> DEFINE Solves(f, m) == \A n \in 0 .. m : f[n] = IF n = 0 THEN 1 ELSE 10 * f[n - 1]
           S == {m \in Nat : \E f \in [Nat -> Nat] : Solves(f, m)}
<1>1. 0 \in S
  <2>1. PICK f : f = [n \in Nat |-> 1]
    OBVIOUS
  <2> QED
    BY <2>1
<1>2. ASSUME NEW m \in Nat, m \in S PROVE m + 1 \in S
  <2>1. PICK f \in [Nat -> Nat] : Solves(f, m)
    BY <1>2
  <2>2. PICK g : g = [f EXCEPT ![m + 1] = 10 * f[m]]
    OBVIOUS
  <2>3. Solves(g, m + 1)
    BY <2>1, <2>2
  <2>4. g \in [Nat -> Nat]
    BY <2>1, <2>2
  <2> QED
    BY <2>3, <2>4
<1>3. Nat \subseteq S
  <2> HIDE DEF S
  <2> QED
    BY <1>1, <1>2, NatSetInduction
<1>4. ASSUME NEW f, NEW g, NEW m \in Nat, Solves(f, m), Solves(g, m)
      PROVE  f[m] = g[m]
  <2> DEFINE T == {k \in Nat : k <= m => f[k] = g[k]}
  <2>1. 0 \in T
    BY <1>4
  <2>2. ASSUME NEW k \in Nat, k \in T PROVE k + 1 \in T
    BY <1>4, <2>2
  <2>3. Nat \subseteq T
    <3> HIDE DEF T
    <3> QED
      BY <2>1, <2>2, NatSetInduction
  <2> QED
    BY <2>3
<1>5. PICK at : at = [m \in Nat |-> CHOOSE f \in [Nat -> Nat] : Solves(f, m)]
  OBVIOUS
<1>6. PICK t : t = [n \in Nat |-> at[n][n]]
  OBVIOUS
<1>7. ASSUME NEW m \in Nat PROVE at[m] \in [Nat -> Nat] /\ Solves(at[m], m)
  BY <1>3, <1>5
<1>8. ASSUME NEW n \in Nat PROVE t[n] = IF n = 0 THEN 1 ELSE 10 * t[n - 1]
  <2>1. PICK f : f = at[n]
    OBVIOUS
  <2>2. Solves(f, n) /\ t[n] = f[n]
    BY <1>6, <1>7, <2>1
  <2>3. CASE n = 0
    BY <2>2, <2>3
  <2>4. CASE n # 0
    <3>1. PICK m \in Nat : n = m + 1
      BY <2>4
    <3>2. PICK g : g = at[m]
      OBVIOUS
    <3>3. Solves(g, m) /\ t[m] = g[m]
      BY <1>6, <1>7, <3>2
    <3>4. Solves(f, m) /\ f[n] = 10 * f[m]
      BY <2>2, <3>1
    <3>5. f[m] = g[m]
      BY <1>4, <3>3, <3>4
    <3> QED
      BY <2>2, <2>4, <3>1, <3>3, <3>4, <3>5
  <2> QED
    BY <2>3, <2>4
<1>9. t = [n \in Nat |-> IF n = 0 THEN 1 ELSE 10 * t[n - 1]]
  BY <1>6, <1>8
<1> QED
  BY <1>9 DEF Ten

\* A power of ten is a positive number, and the next one is ten times as much.
LEMMA TenNumber ==
    ASSUME NEW n \in Nat
    PROVE  Ten[n] \in Nat /\ Ten[n] > 0 /\ Ten[n + 1] = 10 * Ten[n]
<1> DEFINE S == {m \in Nat : Ten[m] \in Nat /\ Ten[m] > 0}
<1>1. 0 \in S
  BY TenUnfolds
<1>2. ASSUME NEW m \in Nat, m \in S PROVE m + 1 \in S
  BY <1>2, TenUnfolds
<1>3. Nat \subseteq S
  <2> HIDE DEF S
  <2> QED
    BY <1>1, <1>2, NatSetInduction
<1>4. Ten[n + 1] = 10 * Ten[n]
  BY TenUnfolds
<1> QED
  BY <1>3, <1>4

\* The power of a sum of exponents is a product.
LEMMA TenOfSum == ASSUME NEW m \in Nat, NEW n \in Nat PROVE Ten[m + n] = Ten[m] * Ten[n]
<1> DEFINE S == {k \in Nat : Ten[m + k] = Ten[m] * Ten[k]}
<1>1. 0 \in S
  BY TenUnfolds, TenNumber
<1>2. ASSUME NEW k \in Nat, k \in S PROVE k + 1 \in S
  <2>1. Ten[(m + k) + 1] = 10 * Ten[m + k] /\ Ten[k + 1] = 10 * Ten[k]
    BY TenNumber
  <2>2. Ten[m] \in Nat /\ Ten[k] \in Nat
    BY TenNumber
  <2>3. Ten[m + (k + 1)] = 10 * (Ten[m] * Ten[k])
    BY <2>1, <1>2
  <2> QED
    BY <2>1, <2>2, <2>3
<1>3. Nat \subseteq S
  <2> HIDE DEF S
  <2> QED
    BY <1>1, <1>2, NatSetInduction
<1> QED
  BY <1>3

\* The greatest of some positions.
LEMMA LastPosition ==
    ASSUME NEW n \in Nat, NEW s \in SUBSET (1 .. n), s # {}
    PROVE  Max(s) \in s /\ \A y \in s : y <= Max(s)
<1> DEFINE T == {m \in Nat : \A u \in SUBSET (1 .. m) : u # {} => \E x \in u : \A y \in u : y <= x}
<1>1. 0 \in T
  <2>1. 1 .. 0 = {}
    OBVIOUS
  <2> QED
    BY <2>1
<1>2. ASSUME NEW m \in Nat, m \in T PROVE m + 1 \in T
  <2>1. ASSUME NEW u \in SUBSET (1 .. m + 1), u # {}
        PROVE  \E x \in u : \A y \in u : y <= x
    <3>1. CASE m + 1 \in u
      BY <3>1
    <3>2. CASE m + 1 \notin u
      <4>1. u \in SUBSET (1 .. m)
        BY <3>2
      <4> QED
        BY <4>1, <2>1, <1>2
    <3> QED
      BY <3>1, <3>2
  <2> QED
    BY <2>1
<1>3. Nat \subseteq T
  <2> HIDE DEF T
  <2> QED
    BY <1>1, <1>2, NatSetInduction
<1>4. \E x \in s : \A y \in s : x >= y
  BY <1>3
<1> QED
  BY <1>4 DEF Max

\* The greatest of some positions up to n, n itself among them.
LEMMA LastIsGreatest ==
    ASSUME NEW n \in Nat, NEW s \in SUBSET (1 .. n), n \in s
    PROVE  Max(s) = n
<1>1. PICK x : x = Max(s)
  OBVIOUS
<1>2. x \in s /\ \A y \in s : y <= x
  BY <1>1, LastPosition
<1> QED
  BY <1>1, <1>2

\* The recursion a left fold of digits unfolds to.
Reads(g, d) ==
    g = [s \in SUBSET DOMAIN d |->
            IF s = {} THEN 0 ELSE 10 * g[s \ {Max(s)}] + d[Max(s)]]

\* The recursion has a solution, whatever the digits are.
LEMMA ReadsExists ==
    ASSUME NEW n \in Nat, NEW d \in [1 .. n -> Nat]
    PROVE  \E g \in [SUBSET (1 .. n) -> Nat] : Reads(g, d)
<1> DEFINE Upto(g, m) ==
        \A s \in SUBSET (1 .. m) :
            g[s] = IF s = {} THEN 0 ELSE 10 * g[s \ {Max(s)}] + d[Max(s)]
<1> DEFINE G(m) == {g \in [SUBSET (1 .. n) -> Nat] : Upto(g, m)}
           S == {m \in Nat : m <= n => G(m) # {}}
<1>1. 0 \in S
  <2>1. PICK g \in [SUBSET (1 .. n) -> Nat] : g = [s \in SUBSET (1 .. n) |-> 0]
    OBVIOUS
  <2>2. 1 .. 0 = {} /\ {} \in SUBSET (1 .. n)
    OBVIOUS
  <2>3. Upto(g, 0)
    BY <2>1, <2>2
  <2>4. g \in G(0)
    BY <2>3
  <2> HIDE DEF G
  <2> QED
    BY <2>4
<1>2. ASSUME NEW m \in Nat, m \in S PROVE m + 1 \in S
  <2> SUFFICES ASSUME m + 1 <= n PROVE G(m + 1) # {}
    <3> HIDE DEF G
    <3> QED
      OBVIOUS
  <2>0. G(m) # {}
    <3> HIDE DEF G
    <3> QED
      BY <1>2
  <2>1. PICK g \in [SUBSET (1 .. n) -> Nat] : Upto(g, m)
    <3> HIDE DEF Upto
    <3> QED
      BY <2>0
  <2>2. PICK h : h = [s \in SUBSET (1 .. n) |->
                         IF m + 1 \in s THEN 10 * g[s \ {m + 1}] + d[m + 1] ELSE g[s]]
    OBVIOUS
  <2>3. h \in [SUBSET (1 .. n) -> Nat]
    BY <2>2
  <2>4. ASSUME NEW s \in SUBSET (1 .. m + 1)
        PROVE  h[s] = IF s = {} THEN 0 ELSE 10 * h[s \ {Max(s)}] + d[Max(s)]
    <3>0. s \in SUBSET (1 .. n)
      OBVIOUS
    <3>1. CASE s = {}
      BY <2>1, <2>2, <3>1
    <3>2. CASE m + 1 \in s
      <4>1. Max(s) = m + 1
        BY <3>2, LastIsGreatest, m + 1 \in Nat
      <4>2. PICK r : r = s \ {m + 1}
        OBVIOUS
      <4>3. r \in SUBSET (1 .. n) /\ m + 1 \notin r
        BY <3>0, <4>2
      <4>4. h[r] = g[r] /\ h[s] = 10 * g[r] + d[m + 1]
        BY <2>2, <3>0, <3>2, <4>2, <4>3
      <4> QED
        BY <3>2, <4>1, <4>2, <4>4
    <3>3. CASE s # {} /\ m + 1 \notin s
      <4>1. s \in SUBSET (1 .. m)
        BY <3>3
      <4>2. Max(s) \in s
        BY ONLY <3>0, <3>3, n \in Nat, LastPosition
      <4>3. PICK r : r = s \ {Max(s)}
        OBVIOUS
      <4>4. r \in SUBSET (1 .. n) /\ m + 1 \notin r
        BY <3>0, <3>3, <4>3
      <4>5. h[r] = g[r] /\ h[s] = g[s]
        BY <2>2, <3>0, <3>3, <4>4
      <4>6. g[s] = 10 * g[r] + d[Max(s)]
        BY <2>1, <3>3, <4>1, <4>3
      <4> QED
        BY <3>3, <4>3, <4>5, <4>6
    <3> QED
      BY <3>1, <3>2, <3>3
  <2>5. h \in G(m + 1)
    BY <2>3, <2>4
  <2> HIDE DEF G
  <2> QED
    BY <2>5
<1>3. Nat \subseteq S
  <2> HIDE DEF S
  <2> QED
    BY <1>1, <1>2, NatSetInduction
<1>3a. G(n) # {}
  <2> HIDE DEF G
  <2> QED
    BY <1>3
<1>4. PICK g \in [SUBSET (1 .. n) -> Nat] : Upto(g, n)
  <2> HIDE DEF Upto
  <2> QED
    BY <1>3a
<1>5. g = [s \in SUBSET (1 .. n) |->
              IF s = {} THEN 0 ELSE 10 * g[s \ {Max(s)}] + d[Max(s)]]
  BY <1>4
<1> QED
  BY <1>5 DEF Reads

\* The value of the digits read so far.
Running(r, d) == r[0] = 0 /\ \A i \in 1 .. Len(d) : r[i] = 10 * r[i - 1] + d[i]

\* The value of a text is the last of its running values.
LEMMA ValueRuns ==
    ASSUME NEW d \in Seq(Nat)
    PROVE  \E r \in [0 .. Len(d) -> Nat] : Running(r, d) /\ Value(d) = r[Len(d)]
<1>1. PICK n \in Nat : n = Len(d) /\ DOMAIN d = 1 .. n /\ d \in [1 .. n -> Nat]
  OBVIOUS
<1>2. PICK h \in [SUBSET (1 .. n) -> Nat] : Reads(h, d)
  BY <1>1, ReadsExists
<1>3. PICK g : g = CHOOSE f : Reads(f, d)
  OBVIOUS
<1>4. Reads(g, d)
  BY <1>2, <1>3
<1>5. Value(d) = g[1 .. n]
  <2>1. Value(d) = (CHOOSE f : Reads(f, d))[DOMAIN d]
    BY DEF Value, FoldLeft, MapThenFoldSet, Reads
  <2> QED
    BY <1>1, <1>3, <2>1
<1>6. ASSUME NEW i \in 1 .. n PROVE g[1 .. i] = 10 * g[1 .. i - 1] + d[i]
  <2>1. PICK s : s = 1 .. i
    OBVIOUS
  <2>2. s \in SUBSET (1 .. n) /\ s # {}
    BY <2>1
  <2>2a. s \ {i} = 1 .. i - 1
    BY <2>1
  <2>3. Max(s) = i
    BY <2>1, LastIsGreatest
  <2> QED
    BY <1>1, <1>4, <2>1, <2>2, <2>2a, <2>3 DEF Reads
<1>7. g[1 .. 0] = 0
  <2>1. 1 .. 0 = {} /\ {} \in SUBSET DOMAIN d
    OBVIOUS
  <2> QED
    BY <1>4, <2>1 DEF Reads
<1>8. PICK r : r = [i \in 0 .. n |-> g[1 .. i]]
  OBVIOUS
<1>9. Running(r, d) /\ Value(d) = r[n]
  BY <1>1, <1>5, <1>6, <1>7, <1>8 DEF Running
<1>10. \A i \in Nat : i <= n => r[i] \in Nat
  <2> DEFINE S == {i \in Nat : i <= n => r[i] \in Nat}
  <2>1. 0 \in S
    BY <1>9 DEF Running
  <2>2. ASSUME NEW i \in Nat, i \in S PROVE i + 1 \in S
    BY <1>1, <1>9, <2>2 DEF Running
  <2>3. Nat \subseteq S
    <3> HIDE DEF S
    <3> QED
      BY <2>1, <2>2, NatSetInduction
  <2> QED
    BY <2>3
<1> QED
  BY <1>1, <1>8, <1>9, <1>10

\* There is only one sequence of running values.
LEMMA ValueIs ==
    ASSUME NEW d \in Seq(Nat), NEW r \in [0 .. Len(d) -> Nat], Running(r, d)
    PROVE  Value(d) = r[Len(d)]
<1>1. PICK n \in Nat : n = Len(d)
  OBVIOUS
<1>2. PICK q \in [0 .. n -> Nat] : Running(q, d) /\ Value(d) = q[n]
  BY <1>1, ValueRuns
<1> DEFINE S == {i \in Nat : i <= n => r[i] = q[i]}
<1>3. 0 \in S
  BY <1>2 DEF Running
<1>4. ASSUME NEW i \in Nat, i \in S PROVE i + 1 \in S
  BY <1>1, <1>2, <1>4 DEF Running
<1>5. Nat \subseteq S
  <2> HIDE DEF S
  <2> QED
    BY <1>3, <1>4, NatSetInduction
<1> QED
  BY <1>1, <1>2, <1>5

\* A text stands for a natural number.
LEMMA ValueNumber == ASSUME NEW d \in Seq(Nat) PROVE Value(d) \in Nat
BY ValueRuns

\* The empty text, and zeros however many, stand for nothing.
LEMMA ValueOfNothing == Value(<<>>) = 0
<1>1. PICK r : r = [i \in 0 .. 0 |-> 0]
  OBVIOUS
<1>2. r \in [0 .. Len(<<>>) -> Nat] /\ Running(r, <<>>)
  BY <1>1 DEF Running
<1> QED
  BY <1>1, <1>2, ValueIs

LEMMA ValueOfZeros ==
    ASSUME NEW n \in Nat
    PROVE  Zeros(n) \in Seq(Nat) /\ Len(Zeros(n)) = n /\ Value(Zeros(n)) = 0
<1>1. Zeros(n) \in Seq(Nat) /\ Len(Zeros(n)) = n
  BY DEF Zeros
<1>2. PICK r : r = [i \in 0 .. n |-> 0]
  OBVIOUS
<1>3. r \in [0 .. n -> Nat] /\ Running(r, Zeros(n))
  BY <1>1, <1>2 DEF Running, Zeros
<1> QED
  BY <1>1, <1>2, <1>3, ValueIs

\* Two texts one after the other.
LEMMA ValueOfConcat ==
    ASSUME NEW d \in Seq(Nat), NEW e \in Seq(Nat)
    PROVE  Value(d \o e) = Value(d) * Ten[Len(e)] + Value(e)
<1>1. PICK m \in Nat, n \in Nat : m = Len(d) /\ n = Len(e)
  OBVIOUS
<1>2. PICK q \in [0 .. m -> Nat] : Running(q, d) /\ Value(d) = q[m]
  BY <1>1, ValueRuns
<1>3. PICK p \in [0 .. n -> Nat] : Running(p, e) /\ Value(e) = p[n]
  BY <1>1, ValueRuns
<1>4. PICK r : r = [i \in 0 .. m + n |-> IF i <= m THEN q[i] ELSE q[m] * Ten[i - m] + p[i - m]]
  OBVIOUS
<1>5. d \o e \in Seq(Nat) /\ Len(d \o e) = m + n
  BY <1>1
<1>6. ASSUME NEW i \in 0 .. n PROVE r[m + i] = q[m] * Ten[i] + p[i]
  <2>1. CASE i = 0
    <3>1. p[0] = 0 /\ Ten[0] = 1 /\ q[m] \in Nat
      BY <1>3, TenUnfolds DEF Running
    <3> QED
      BY <1>4, <2>1, <3>1
  <2>2. CASE i # 0
    <3>1. m + i \in 0 .. m + n /\ ~ (m + i <= m) /\ (m + i) - m = i
      BY <2>2
    <3> QED
      BY <1>4, <3>1
  <2> QED
    BY <2>1, <2>2
<1>7. ASSUME NEW i \in 0 .. m + n PROVE r[i] \in Nat
  <2>1. CASE i <= m
    BY <1>4, <2>1
  <2>2. CASE i > m
    <3>1. PICK j \in 1 .. n : i = m + j
      BY <2>2
    <3>2. r[i] = q[m] * Ten[j] + p[j] /\ Ten[j] \in Nat /\ q[m] \in Nat /\ p[j] \in Nat
      <4>1. j \in 0 .. n /\ j \in Nat
        OBVIOUS
      <4>2. r[i] = q[m] * Ten[j] + p[j]
        BY <3>1, <1>6, <4>1
      <4>3. Ten[j] \in Nat
        BY <4>1, TenNumber
      <4>4. q[m] \in Nat
        OBVIOUS
      <4>5. p[j] \in Nat
        BY <4>1
      <4> QED
        BY <4>2, <4>3, <4>4, <4>5
    <3>3. q[m] * Ten[j] \in Nat
      BY <3>2
    <3> QED
      BY <3>2, <3>3
  <2> QED
    BY <2>1, <2>2
<1>8. ASSUME NEW i \in 1 .. m + n PROVE r[i] = 10 * r[i - 1] + (d \o e)[i]
  <2>1. CASE i <= m
    <3>1. (d \o e)[i] = d[i]
      BY <1>1, <2>1
    <3>2. r[i] = q[i] /\ r[i - 1] = q[i - 1]
      BY <1>4, <2>1
    <3> QED
      BY <1>1, <1>2, <2>1, <3>1, <3>2 DEF Running
  <2>2. CASE i > m
    <3>1. PICK j \in 1 .. n : i = m + j
      BY <2>2
    <3>2. (d \o e)[i] = e[j]
      BY <1>1, <3>1
    <3>3. r[i] = q[m] * Ten[j] + p[j]
      BY <1>6, <3>1
    <3>4. r[i - 1] = q[m] * Ten[j - 1] + p[j - 1]
      <4>1. j - 1 \in 0 .. n /\ i - 1 = m + (j - 1)
        BY <3>1
      <4> QED
        BY <1>6, <4>1
    <3>5. Ten[j] = 10 * Ten[j - 1] /\ Ten[j - 1] \in Nat
      <4>1. j - 1 \in Nat /\ (j - 1) + 1 = j
        OBVIOUS
      <4> QED
        BY <4>1, TenNumber
    <3>6. p[j] = 10 * p[j - 1] + e[j] /\ p[j - 1] \in Nat /\ e[j] \in Nat
      <4>1. j \in 1 .. Len(e) /\ j - 1 \in 0 .. n
        BY <1>1
      <4>2. p[j] = 10 * p[j - 1] + e[j]
        BY <1>3, <4>1 DEF Running
      <4>3. p[j - 1] \in Nat
        BY <4>1
      <4>4. e[j] \in Nat
        BY <4>1
      <4> QED
        BY <4>2, <4>3, <4>4
    <3>7. q[m] \in Nat
      BY <1>2
    <3>8. PICK a \in Nat, b \in Nat, c \in Nat, z \in Nat :
              a = q[m] /\ b = Ten[j - 1] /\ c = p[j - 1] /\ z = e[j]
      BY <3>5, <3>6, <3>7
    <3>9. a * (10 * b) + (10 * c + z) = 10 * (a * b + c) + z
      OBVIOUS
    <3> QED
      BY <3>2, <3>3, <3>4, <3>5, <3>6, <3>8, <3>9
  <2>3. i <= m \/ i > m
    OBVIOUS
  <2> QED
    BY <2>1, <2>2, <2>3, Zenon
<1>9. r[0] = 0
  BY <1>2, <1>4 DEF Running
<1>10. r \in [0 .. Len(d \o e) -> Nat] /\ Running(r, d \o e)
  BY <1>4, <1>5, <1>7, <1>8, <1>9 DEF Running
<1>11. Value(d \o e) = r[m + n]
  BY <1>5, <1>10, ValueIs
<1>12. r[m + n] = q[m] * Ten[n] + p[n]
  BY <1>6
<1> QED
  BY <1>1, <1>2, <1>3, <1>11, <1>12

\* A text of k digits stands for less than the k-th power of ten.
LEMMA ValueBelow ==
    ASSUME NEW d \in Seq(0 .. 9)
    PROVE  d \in Seq(Nat) /\ Value(d) < Ten[Len(d)]
<1>1. d \in Seq(Nat)
  OBVIOUS
<1>2. PICK n \in Nat : n = Len(d)
  OBVIOUS
<1>3. PICK r \in [0 .. n -> Nat] : Running(r, d) /\ Value(d) = r[n]
  BY <1>1, <1>2, ValueRuns
<1> DEFINE S == {i \in Nat : i <= n => r[i] < Ten[i]}
<1>4. 0 \in S
  BY <1>3, TenUnfolds DEF Running
<1>5. ASSUME NEW i \in Nat, i \in S PROVE i + 1 \in S
  <2> SUFFICES ASSUME i + 1 <= n PROVE r[i + 1] < Ten[i + 1]
    OBVIOUS
  <2>1. r[i] < Ten[i] /\ r[i] \in Nat
    BY <1>5
  <2>2. i + 1 \in 1 .. Len(d)
    BY <1>2
  <2>3. r[i + 1] = 10 * r[i] + d[i + 1]
    BY <1>3, <2>2 DEF Running
  <2>4. d[i + 1] \in 0 .. 9
    BY <2>2
  <2>5. Ten[i + 1] = 10 * Ten[i] /\ Ten[i] \in Nat
    BY TenNumber
  <2>6. PICK x \in Nat, y \in 0 .. 9, t \in Nat : x = r[i] /\ y = d[i + 1] /\ t = Ten[i]
    BY <2>1, <2>4, <2>5
  <2>7. x < t => 10 * x + y < 10 * t
    OBVIOUS
  <2> QED
    BY <2>1, <2>3, <2>5, <2>6, <2>7
<1>6. Nat \subseteq S
  <2> HIDE DEF S
  <2> QED
    BY <1>4, <1>5, NatSetInduction
<1> QED
  BY <1>1, <1>2, <1>3, <1>6

\* The remainder by a tenfold divisor, from the last digit and the others.
LEMMA LastDigit ==
    ASSUME NEW m \in Nat, NEW t \in Nat \ {0}
    PROVE  m % (10 * t) = 10 * ((m \div 10) % t) + (m % 10)
<1>1. PICK a \in Nat, b \in 0 .. 9 : a = m \div 10 /\ b = m % 10 /\ m = 10 * a + b
  OBVIOUS
<1>2. PICK q \in Nat, c \in Nat : c < t /\ c = a % t /\ a = q * t + c
  <2>1. a = t * (a \div t) + (a % t) /\ a \div t \in Nat /\ a % t \in 0 .. t - 1
    OBVIOUS
  <2>2. PICK x, y : x = a \div t /\ y = a % t
    OBVIOUS
  <2> QED
    BY <2>1, <2>2
<1>3. PICK z \in Nat : z = 10 * c + b
  BY <1>1
<1>4. m = q * (10 * t) + z /\ z < 10 * t
  <2>1. z < 10 * t
    BY <1>2, <1>3
  <2>2. m = 10 * (q * t + c) + b
    BY <1>1, <1>2
  <2>3. 10 * (q * t + c) + b = q * (10 * t) + (10 * c + b)
    OBVIOUS
  <2> QED
    BY <1>3, <2>1, <2>2, <2>3
<1>5. PICK u \in Nat : u = 10 * t
  OBVIOUS
<1>6. m % u = z
  BY <1>4, <1>5
<1> QED
  BY <1>1, <1>2, <1>3, <1>5, <1>6

\* k digits of n.
LEMMA ValueOfPadded ==
    ASSUME NEW n \in Nat, NEW k \in Nat
    PROVE  /\ Padded(n, k) \in Seq(0 .. 9) /\ Len(Padded(n, k)) = k
           /\ n < Ten[k] => Value(Padded(n, k)) = n
<1>1. PICK d : d = Padded(n, k)
  OBVIOUS
<1>2. ASSUME NEW i \in 0 .. k PROVE n \div Ten[k - i] \in Nat
  <2>1. Ten[k - i] \in Nat /\ Ten[k - i] > 0
    BY TenNumber
  <2>2. PICK t \in Nat : t = Ten[k - i]
    BY <2>1
  <2> QED
    BY <2>1, <2>2
<1>3. d \in Seq(0 .. 9) /\ Len(d) = k
  <2>1. \A i \in 1 .. k : (n \div Ten[k - i]) % 10 \in 0 .. 9
    BY <1>2
  <2> QED
    BY <1>1, <2>1 DEF Padded
<1>4. PICK q : q = [i \in 0 .. k |-> n \div Ten[k - i]]
  OBVIOUS
<1>5. q \in [0 .. k -> Nat]
  BY <1>2, <1>4
<1>6. PICK r : r = [i \in 0 .. k |-> q[i] % Ten[i]]
  OBVIOUS
<1>7. ASSUME NEW i \in 1 .. k PROVE q[i - 1] = q[i] \div 10
  <2>1. PICK t \in Nat : t = Ten[k - i] /\ t > 0
    BY TenNumber
  <2>2. Ten[k - (i - 1)] = 10 * t
    <3>1. k - i \in Nat /\ (k - i) + 1 = k - (i - 1)
      OBVIOUS
    <3> QED
      BY <2>1, <3>1, TenNumber
  <2>3. n \div (t * 10) = (n \div t) \div 10
    BY <2>1
  <2>4. q[i - 1] = n \div (10 * t) /\ q[i] = n \div t
    BY <1>4, <2>1, <2>2
  <2>5. 10 * t = t * 10
    OBVIOUS
  <2>6. q[i - 1] = n \div (t * 10)
    BY <2>4, <2>5
  <2>7. PICK x : x = n \div t
    OBVIOUS
  <2>8. q[i] = x /\ q[i - 1] = x \div 10
    BY <2>3, <2>4, <2>6, <2>7
  <2> QED
    BY <2>8
<1>8. ASSUME NEW i \in 1 .. k PROVE r[i] = 10 * r[i - 1] + d[i]
  <2>1. PICK t \in Nat \ {0} : t = Ten[i - 1] /\ Ten[i] = 10 * t
    <3>1. i - 1 \in Nat /\ (i - 1) + 1 = i
      OBVIOUS
    <3> QED
      BY <3>1, TenNumber
  <2>2. PICK m \in Nat : m = q[i]
    BY <1>5
  <2>3. d[i] = m % 10
    BY <1>1, <1>4, <2>2 DEF Padded
  <2>4. r[i] = m % (10 * t) /\ r[i - 1] = (m \div 10) % t
    BY <1>6, <1>7, <2>1, <2>2
  <2> QED
    BY <2>3, <2>4, LastDigit
<1>9. ASSUME NEW i \in 0 .. k PROVE r[i] \in Nat
  <2>1. PICK t \in Nat : t = Ten[i] /\ t > 0
    BY TenNumber
  <2>2. PICK m \in Nat : m = q[i]
    BY <1>5
  <2>3. m % t \in Nat
    BY <2>1
  <2> QED
    BY <1>6, <2>1, <2>2, <2>3
<1>10. r[0] = 0
  <2>1. Ten[0] = 1 /\ q[0] \in Nat
    BY <1>5, TenUnfolds
  <2> QED
    BY <1>6, <2>1
<1>11. d \in Seq(Nat) /\ r \in [0 .. Len(d) -> Nat] /\ Running(r, d)
  <2>1. d \in Seq(Nat)
    BY <1>3
  <2>2. r \in [0 .. k -> Nat]
    BY <1>6, <1>9
  <2>3. Running(r, d)
    BY <1>3, <1>8, <1>10 DEF Running
  <2> QED
    BY <1>3, <2>1, <2>2, <2>3
<1>12. Value(d) = r[k]
  BY <1>3, <1>11, ValueIs
<1>13. ASSUME n < Ten[k] PROVE r[k] = n
  <2>1. q[k] = n
    <3>1. Ten[k - k] = 1
      BY TenUnfolds
    <3> QED
      BY <1>4, <3>1
  <2>2. PICK t \in Nat : t = Ten[k] /\ n < t
    BY <1>13, TenNumber
  <2>3. n % t = n
    BY <2>2
  <2> QED
    BY <1>6, <2>1, <2>2, <2>3
<1> QED
  BY <1>1, <1>3, <1>12, <1>13

\* Some power of ten is more than n, and one of them is the first.
LEMMA FirstPower ==
    ASSUME NEW n \in Nat
    PROVE  \E k \in 1 .. n + 1 : n < Ten[k] /\ (k = 1 \/ n >= Ten[k - 1])
<1> DEFINE S == {m \in Nat : m < Ten[m]}
<1>1. 0 \in S
  BY TenUnfolds
<1>2. ASSUME NEW m \in Nat, m \in S PROVE m + 1 \in S
  BY <1>2, TenNumber
<1>3. Nat \subseteq S
  <2> HIDE DEF S
  <2> QED
    BY <1>1, <1>2, NatSetInduction
<1> DEFINE First(k) == n < Ten[k] /\ (k = 1 \/ n >= Ten[k - 1])
           T == {m \in Nat : n < Ten[m + 1] => \E k \in 1 .. m + 1 : First(k)}
<1>4. 0 \in T
  OBVIOUS
<1>5. ASSUME NEW m \in Nat, m \in T PROVE m + 1 \in T
  <2> SUFFICES ASSUME n < Ten[(m + 1) + 1] PROVE \E k \in 1 .. (m + 1) + 1 : First(k)
    OBVIOUS
  <2>1. CASE n < Ten[m + 1]
    <3>1. PICK k \in 1 .. m + 1 : First(k)
      BY <1>5, <2>1
    <3>2. k \in 1 .. (m + 1) + 1
      OBVIOUS
    <3> HIDE DEF First
    <3> QED
      BY <3>1, <3>2
  <2>2. CASE ~ (n < Ten[m + 1])
    <3>1. Ten[m + 1] \in Nat
      BY TenNumber
    <3>2. First((m + 1) + 1)
      BY <2>2, <3>1
    <3>3. (m + 1) + 1 \in 1 .. (m + 1) + 1
      OBVIOUS
    <3> HIDE DEF First
    <3> QED
      BY <3>2, <3>3
  <2> QED
    BY <2>1, <2>2
<1>6. Nat \subseteq T
  <2> HIDE DEF T
  <2> QED
    BY <1>4, <1>5, NatSetInduction
<1>7. n < Ten[n + 1]
  <2>1. n + 1 < Ten[n + 1]
    BY <1>3
  <2> QED
    BY <2>1, TenNumber
<1> QED
  BY <1>6, <1>7

\* A number without leading zeros stands for itself.
LEMMA ValueOfPlain ==
    ASSUME NEW n \in Nat
    PROVE  Plain(n) \in Seq(Nat) /\ Value(Plain(n)) = n
<1> DEFINE First(k) == n < Ten[k] /\ (k = 1 \/ n >= Ten[k - 1])
<1>0. \E k \in 1 .. n + 1 : First(k)
  BY FirstPower
<1>1. PICK k : k = CHOOSE i \in 1 .. n + 1 : First(i)
  OBVIOUS
<1>1a. k \in 1 .. n + 1 /\ First(k)
  <2> HIDE DEF First
  <2> QED
    BY <1>0, <1>1
<1>2. k \in Nat /\ n < Ten[k]
  BY <1>1a
<1>3. Plain(n) = Padded(n, k)
  BY <1>1 DEF Plain
<1>4. Padded(n, k) \in Seq(0 .. 9) /\ Value(Padded(n, k)) = n
  BY <1>2, ValueOfPadded
<1>5. Padded(n, k) \in Seq(Nat)
  BY <1>4
<1> QED
  BY <1>3, <1>4, <1>5

\* The first digits of a text.
LEMMA FirstDigits ==
    ASSUME NEW S, NEW d \in Seq(S), NEW k \in 0 .. Len(d)
    PROVE  /\ SubSeq(d, 1, k) \in Seq(S) /\ Len(SubSeq(d, 1, k)) = k
           /\ \A i \in 1 .. k : SubSeq(d, 1, k)[i] = d[i]
<1>1. \A i \in 1 .. k : d[i] \in S
  BY ElementOfSeq
<1>2. /\ SubSeq(d, 1, k) \in Seq(S)
      /\ Len(SubSeq(d, 1, k)) = IF 1 <= k THEN k - 1 + 1 ELSE 0
      /\ \A i \in 1 .. k - 1 + 1 : SubSeq(d, 1, k)[i] = d[1 + i - 1]
  BY <1>1, k \in Int, 1 \in Int, SubSeqProperties
<1>3. ASSUME NEW i \in 1 .. k PROVE SubSeq(d, 1, k)[i] = d[i]
  <2>1. i \in 1 .. k - 1 + 1 /\ 1 + i - 1 = i
    OBVIOUS
  <2> QED
    BY <1>2, <2>1
<1> QED
  BY <1>2, <1>3

\* The digits of e are the m digits of c and then the n digits of z.
Joins(e, c, m, z, n) ==
    /\ e \in Seq(Nat) /\ Len(e) = m + n
    /\ \A i \in 1 .. m : e[i] = c[i]
    /\ \A i \in 1 .. n : e[m + i] = z[i]

\* Two texts one after the other, digit by digit.
LEMMA Joined ==
    ASSUME NEW c \in Seq(Nat), NEW z \in Seq(Nat), NEW m \in Nat, NEW n \in Nat,
           m = Len(c), n = Len(z), NEW e, e = c \o z
    PROVE  Joins(e, c, m, z, n)
<1>2. /\ e \in Seq(Nat) /\ Len(e) = m + n
      /\ \A i \in 1 .. m + n : e[i] = IF i <= m THEN c[i] ELSE z[i - m]
  BY ConcatProperties
<1>3. ASSUME NEW i \in 1 .. m PROVE e[i] = c[i]
  BY <1>2
<1>4. ASSUME NEW i \in 1 .. n PROVE e[m + i] = z[i]
  <2>1. m + i \in 1 .. m + n /\ ~ (m + i <= m) /\ (m + i) - m = i
    OBVIOUS
  <2> QED
    BY <1>2, <2>1
<1> QED
  BY <1>2, <1>3, <1>4 DEF Joins

\* What is cut off a text at its end are zeros: with them it is the text.
LEMMA ChoppedAndZeros ==
    ASSUME NEW d \in Seq(Nat)
    PROVE  /\ Chopped(d) \in Seq(Nat)
           /\ SubSeq(Chopped(d) \o Zeros(Len(d)), 1, Len(d)) = d
<1>1. PICK n \in Nat : n = Len(d)
  OBVIOUS
<1> DEFINE Cut(k) == (k = 0 \/ d[k] # 0) /\ \A i \in k + 1 .. n : d[i] = 0
           S == {m \in Nat : m <= n /\ (\A i \in m + 1 .. n : d[i] = 0) => \E k \in 0 .. n : Cut(k)}
<1>2. 0 \in S
  OBVIOUS
<1>3. ASSUME NEW m \in Nat, m \in S PROVE m + 1 \in S
  <2> SUFFICES ASSUME m + 1 <= n, \A i \in (m + 1) + 1 .. n : d[i] = 0
               PROVE  \E k \in 0 .. n : Cut(k)
    OBVIOUS
  <2>1. CASE d[m + 1] = 0
    <3>1. \A i \in m + 1 .. n : d[i] = 0
      BY <2>1
    <3> HIDE DEF Cut
    <3> QED
      BY <1>3, <3>1
  <2>2. CASE d[m + 1] # 0
    <3>1. Cut(m + 1) /\ m + 1 \in 0 .. n
      BY <2>2
    <3> HIDE DEF Cut
    <3> QED
      BY <3>1
  <2> QED
    BY <2>1, <2>2
<1>4. Nat \subseteq S
  <2> HIDE DEF S
  <2> QED
    BY <1>2, <1>3, NatSetInduction
<1>5. \E k \in 0 .. n : Cut(k)
  <2>1. \A i \in n + 1 .. n : d[i] = 0
    OBVIOUS
  <2> HIDE DEF Cut
  <2> QED
    BY <1>4, <2>1
<1>6. PICK k : k = CHOOSE i \in 0 .. n : Cut(i)
  OBVIOUS
<1>7. k \in 0 .. n /\ \A i \in k + 1 .. n : d[i] = 0
  BY <1>5, <1>6
<1>8. Chopped(d) = SubSeq(d, 1, k)
  BY <1>1, <1>6 DEF Chopped
<1> HIDE DEF Cut
<1>9. PICK c : c = SubSeq(d, 1, k)
  OBVIOUS
<1>10. c \in Seq(Nat) /\ Len(c) = k /\ \A i \in 1 .. k : c[i] = d[i]
  BY <1>1, <1>7, <1>9, FirstDigits
<1>11. PICK z \in Seq(Nat) : z = Zeros(n) /\ Len(z) = n
  BY ValueOfZeros
<1>12. \A i \in 1 .. n : z[i] = 0
  BY <1>11 DEF Zeros
<1>13. PICK e : e = c \o z
  OBVIOUS
<1>13a. /\ e \in Seq(Nat) /\ Len(e) = k + n
        /\ \A i \in 1 .. k : e[i] = c[i]
        /\ \A i \in 1 .. n : e[k + i] = z[i]
  <2>1. Joins(e, c, k, z, n)
    <3>1. k \in Nat /\ c \in Seq(Nat) /\ Len(c) = k
      BY <1>7, <1>10
    <3> QED
      BY <1>11, <1>13, <3>1, Joined
  <2> QED
    BY <2>1 DEF Joins
<1>14. Len(e) = k + n /\ \A i \in 1 .. n : e[i] = d[i]
  <2>1. Len(e) = k + n
    BY <1>13a
  <2>2. ASSUME NEW i \in 1 .. n PROVE e[i] = d[i]
    <3>1. CASE i <= k
      <4>1. i \in 1 .. k
        BY <1>7, <3>1
      <4> QED
        BY <1>10, <1>13a, <4>1
    <3>2. CASE i > k
      <4>1. i - k \in 1 .. n /\ k + (i - k) = i
        BY <1>7, <3>2
      <4>2. e[i] = z[i - k]
        BY <1>13a, <4>1
      <4>3. d[i] = 0
        BY <1>7, <3>2
      <4> QED
        BY <1>12, <4>1, <4>2, <4>3
    <3> QED
      BY <1>7, <3>1, <3>2
  <2> QED
    BY <2>1, <2>2
<1>15. SubSeq(e, 1, n) = d
  <2>1. PICK s : s = SubSeq(e, 1, n)
    OBVIOUS
  <2>2. s \in Seq(Nat) /\ Len(s) = n /\ \A i \in 1 .. n : s[i] = e[i]
    <3>1. n \in 0 .. Len(e)
      BY <1>7, <1>14
    <3> QED
      BY <1>13a, <2>1, <3>1, FirstDigits
  <2>3. s = d
    BY <1>1, <1>14, <2>2, SeqEqual
  <2> QED
    BY <2>1, <2>3
<1> QED
  BY <1>1, <1>8, <1>9, <1>10, <1>11, <1>13, <1>15

\* Natural numbers are closed under what the proofs below multiply and add.
LEMMA Products ==
    ASSUME NEW a \in Nat, NEW b \in Nat, NEW c \in Nat
    PROVE  a * b \in Nat /\ a * b + c \in Nat
<1>1. a * b \in Nat
  OBVIOUS
<1>2. PICK p \in Nat : p = a * b
  BY <1>1
<1> QED
  BY <1>2

\* What a division with remainder yields.
LEMMA Quotient ==
    ASSUME NEW a \in Nat, NEW b \in Nat, NEW q \in Nat, NEW r \in Nat, a = q * b + r, r < b
    PROVE  a \div b = q
OBVIOUS

\* A fraction with no more digits than decimals is shifted by those missing.
LEMMA CutShort ==
    ASSUME NEW f \in Seq(0 .. 9), NEW n \in Nat, Len(f) <= n
    PROVE  Value(SubSeq(f \o Zeros(n), 1, n)) = Value(f) * Ten[n - Len(f)]
<1>1. PICK m \in Nat : m = Len(f) /\ m <= n
  OBVIOUS
<1>2. f \in Seq(Nat)
  OBVIOUS
<1>3. PICK z : z = Zeros(n)
  OBVIOUS
<1>4. z \in Seq(Nat) /\ Len(z) = n /\ \A i \in 1 .. n : z[i] = 0
  BY <1>3, ValueOfZeros DEF Zeros
<1>5. PICK y : y = Zeros(n - m)
  OBVIOUS
<1>6. y \in Seq(Nat) /\ Len(y) = n - m /\ Value(y) = 0 /\ \A i \in 1 .. n - m : y[i] = 0
  BY <1>1, <1>5, ValueOfZeros, n - m \in Nat DEF Zeros
<1>7. PICK e : e = f \o z
  OBVIOUS
<1>8. /\ e \in Seq(Nat) /\ Len(e) = m + n
      /\ \A i \in 1 .. m : e[i] = f[i]
      /\ \A i \in 1 .. n : e[m + i] = z[i]
  <2>1. Joins(e, f, m, z, n)
    BY <1>1, <1>2, <1>4, <1>7, Joined
  <2> QED
    BY <2>1 DEF Joins
<1>9. PICK g : g = f \o y
  OBVIOUS
<1>10. /\ g \in Seq(Nat) /\ Len(g) = n
       /\ \A i \in 1 .. m : g[i] = f[i]
       /\ \A i \in 1 .. n - m : g[m + i] = y[i]
  <2>1. PICK k \in Nat : k = n - m
    BY <1>1
  <2>2. Joins(g, f, m, y, k)
    BY <1>1, <1>2, <1>6, <1>9, <2>1, Joined
  <2>3. m + k = n
    BY <1>1, <2>1
  <2> QED
    BY <2>1, <2>2, <2>3 DEF Joins
<1>11. PICK c : c = SubSeq(e, 1, n)
  OBVIOUS
<1>12. c \in Seq(Nat) /\ Len(c) = n /\ \A i \in 1 .. n : c[i] = e[i]
  <2>1. n \in 0 .. Len(e)
    BY <1>8
  <2> QED
    BY <1>8, <1>11, <2>1, FirstDigits
<1>13. ASSUME NEW i \in 1 .. n PROVE c[i] = g[i]
  <2>1. CASE i <= m
    <3>1. i \in 1 .. m
      BY <2>1
    <3> QED
      BY <1>8, <1>10, <1>12, <3>1
  <2>2. CASE i > m
    <3>1. PICK j : j = i - m
      OBVIOUS
    <3>1a. j \in 1 .. n - m /\ i = m + j /\ j \in 1 .. n
      BY <1>1, <2>2, <3>1
    <3>2. e[m + j] = 0
      BY <1>4, <1>8, <3>1a
    <3>3. g[m + j] = 0
      BY <1>6, <1>10, <3>1a
    <3> QED
      BY <1>12, <3>1a, <3>2, <3>3
  <2> QED
    BY <2>1, <2>2
<1>14. c = g
  BY <1>10, <1>12, <1>13, SeqEqual
<1>15. Value(g) = Value(f) * Ten[n - m] + 0
  <2>1. Value(f \o y) = Value(f) * Ten[Len(y)] + Value(y)
    BY <1>2, <1>6, ValueOfConcat
  <2> QED
    BY <1>6, <1>9, <2>1
<1>16. Value(f) * Ten[n - m] + 0 = Value(f) * Ten[n - m]
  <2>1. Value(f) \in Nat /\ Ten[n - m] \in Nat
    BY <1>1, <1>2, ValueNumber, TenNumber, n - m \in Nat
  <2>2. PICK a \in Nat, b \in Nat : a = Value(f) /\ b = Ten[n - m]
    BY <2>1
  <2> QED
    BY <2>2
<1>17. Value(c) = Value(f) * Ten[n - m]
  BY <1>14, <1>15, <1>16
<1>18. SubSeq(f \o Zeros(n), 1, n) = c
  BY <1>3, <1>7, <1>11
<1> QED
  BY <1>1, <1>17, <1>18

\* One with more keeps its first digits; what follows them is cut off.
LEMMA CutLong ==
    ASSUME NEW f \in Seq(0 .. 9), NEW n \in Nat, Len(f) >= n
    PROVE  \E g \in Seq(Nat), h \in Seq(0 .. 9) :
               /\ SubSeq(f \o Zeros(n), 1, n) = g
               /\ Len(h) = Len(f) - n
               /\ Value(f) = Value(g) * Ten[Len(h)] + Value(h)
<1>1. PICK m \in Nat : m = Len(f) /\ n <= m
  OBVIOUS
<1>2. f \in Seq(Nat)
  OBVIOUS
<1>3. PICK z : z = Zeros(n)
  OBVIOUS
<1>4. z \in Seq(Nat)
  BY <1>3, ValueOfZeros
<1>5. PICK e : e = f \o z
  OBVIOUS
<1>6. e \in Seq(Nat) /\ Len(e) >= m /\ \A i \in 1 .. m : e[i] = f[i]
  <2>1. PICK k \in Nat : k = Len(z)
    BY <1>4
  <2>2. Joins(e, f, m, z, k)
    BY <1>1, <1>2, <1>4, <1>5, <2>1, Joined
  <2> QED
    BY <2>2 DEF Joins
<1>7. PICK c : c = SubSeq(e, 1, n)
  OBVIOUS
<1>8. c \in Seq(Nat) /\ Len(c) = n /\ \A i \in 1 .. n : c[i] = f[i]
  <2>1. n \in 0 .. Len(e)
    BY <1>1, <1>6
  <2>2. c \in Seq(Nat) /\ Len(c) = n /\ \A i \in 1 .. n : c[i] = e[i]
    BY <1>6, <1>7, <2>1, FirstDigits
  <2>3. \A i \in 1 .. n : i \in 1 .. m
    BY <1>1
  <2> QED
    BY <1>6, <2>2, <2>3
<1>9. PICK h : h = [i \in 1 .. m - n |-> f[n + i]]
  OBVIOUS
<1>10. h \in Seq(0 .. 9) /\ Len(h) = m - n
  <2>1. \A i \in 1 .. m - n : f[n + i] \in 0 .. 9
    <3>1. \A i \in 1 .. m - n : n + i \in 1 .. Len(f)
      BY <1>1
    <3> QED
      BY <3>1, ElementOfSeq
  <2> QED
    BY <1>1, <1>9, <2>1
<1>11. h \in Seq(Nat)
  BY <1>10
<1>12. PICK g : g = c \o h
  OBVIOUS
<1>13. /\ g \in Seq(Nat) /\ Len(g) = m
       /\ \A i \in 1 .. n : g[i] = c[i]
       /\ \A i \in 1 .. m - n : g[n + i] = h[i]
  <2>0. m - n \in Nat
    BY <1>1
  <2>1. PICK k \in Nat : k = m - n
    BY <2>0
  <2>2. Joins(g, c, n, h, k)
    BY <1>8, <1>10, <1>11, <1>12, <2>1, Joined
  <2>3. n + k = m
    BY <1>1, <2>1
  <2> QED
    BY <2>1, <2>2, <2>3 DEF Joins
<1>14. ASSUME NEW i \in 1 .. m PROVE g[i] = f[i]
  <2>1. CASE i <= n
    <3>1. i \in 1 .. n
      BY <2>1
    <3> QED
      BY <1>8, <1>13, <3>1
  <2>2. CASE i > n
    <3>1. i - n \in 1 .. m - n /\ n + (i - n) = i
      BY <2>2
    <3> QED
      BY <1>9, <1>13, <3>1
  <2> QED
    BY <2>1, <2>2
<1>15. g = f
  BY <1>1, <1>2, <1>13, <1>14, SeqEqual
<1>16. Value(c \o h) = Value(c) * Ten[Len(h)] + Value(h)
  BY <1>8, <1>11, ValueOfConcat
<1> QED
  BY <1>1, <1>3, <1>5, <1>7, <1>8, <1>10, <1>12, <1>15, <1>16

\* What parseTokenAmount makes of a text is the number that its digits are,
\* scaled to the planck and cut there.
LEMMA ParsedIsTyped ==
    ASSUME NEW w \in Seq(0 .. 9), NEW f \in Seq(0 .. 9), NEW n \in Nat
    PROVE  /\ Value(w) * Ten[n] + Value(SubSeq(f \o Zeros(n), 1, n)) \in Nat
           /\ Value(w) * Ten[n] + Value(SubSeq(f \o Zeros(n), 1, n))
                 = (Value(w \o f) * Ten[n]) \div Ten[Len(f)]
<1>1. w \in Seq(Nat) /\ f \in Seq(Nat)
  OBVIOUS
<1>2. PICK m \in Nat : m = Len(f)
  OBVIOUS
<1>3. PICK a \in Nat, b \in Nat : a = Value(w) /\ b = Value(f)
  BY <1>1, ValueNumber
<1>4. PICK s \in Nat, t \in Nat : s = Ten[n] /\ t = Ten[m] /\ s > 0 /\ t > 0
  BY TenNumber
<1>5. Value(w \o f) = a * t + b
  <2>1. Value(w \o f) = Value(w) * Ten[Len(f)] + Value(f)
    BY <1>1, ValueOfConcat
  <2> QED
    BY <1>2, <1>3, <1>4, <2>1
<1>6. PICK x : x = Value(SubSeq(f \o Zeros(n), 1, n))
  OBVIOUS
<1>7. x \in Nat /\ a * s + x = ((a * t + b) * s) \div t
  <2>1. CASE m <= n
    <3>1. n - m \in Nat /\ n = m + (n - m)
      BY <2>1
    <3>2. PICK u \in Nat : u = Ten[n - m]
      BY <3>1, TenNumber
    <3>3. s = t * u
      <4>1. Ten[m + (n - m)] = Ten[m] * Ten[n - m]
        BY <3>1, TenOfSum
      <4> QED
        BY <1>4, <3>1, <3>2, <4>1
    <3>4. x = b * u
      <4>1. x = Value(f) * Ten[n - Len(f)]
        BY <1>2, <1>6, <2>1, CutShort
      <4> QED
        BY <1>2, <1>3, <3>2, <4>1
    <3>5. x \in Nat
      BY <3>4
    <3>6. (a * t + b) * (t * u) = (a * (t * u) + b * u) * t + 0
      OBVIOUS
    <3>7. PICK y \in Nat, q \in Nat : y = (a * t + b) * s /\ q = a * s + x
      BY <3>5
    <3>8. y = q * t + 0
      BY <3>3, <3>4, <3>6, <3>7
    <3>9. y \div t = q
      BY <1>4, <3>8, Quotient
    <3> QED
      BY <3>5, <3>7, <3>9
  <2>2. CASE m >= n
    <3>1. PICK g \in Seq(Nat), h \in Seq(0 .. 9) :
              /\ SubSeq(f \o Zeros(n), 1, n) = g
              /\ Len(h) = Len(f) - n
              /\ Value(f) = Value(g) * Ten[Len(h)] + Value(h)
      BY <1>2, <2>2, CutLong
    <3>2. PICK k \in Nat : k = Len(h) /\ m = n + k
      <4>1. Len(h) = m - n /\ m - n \in Nat /\ m = n + (m - n)
        BY <1>2, <2>2, <3>1
      <4> QED
        BY <4>1
    <3>3. PICK v \in Nat : v = Ten[k] /\ v > 0
      BY TenNumber
    <3>4. t = s * v
      BY <1>4, <3>2, <3>3, TenOfSum
    <3>5. x = Value(g) /\ x \in Nat
      BY <1>6, <3>1, ValueNumber
    <3>6. PICK r \in Nat : r = Value(h) /\ r < v
      <4>1. h \in Seq(Nat) /\ Value(h) < Ten[Len(h)]
        BY ValueBelow
      <4>2. Value(h) \in Nat
        BY <4>1, ValueNumber
      <4> QED
        BY <3>2, <3>3, <4>1, <4>2
    <3>7. b = x * v + r
      BY <1>3, <3>1, <3>2, <3>3, <3>5, <3>6
    <3>8. (a * (s * v) + (x * v + r)) * s = (a * s + x) * (s * v) + r * s
      <4>1. (a * (s * v) + (x * v + r)) * s = (a * (s * v)) * s + (x * v) * s + r * s
        BY <3>5
      <4>2. (a * s + x) * (s * v) = (a * s) * (s * v) + x * (s * v)
        BY <3>5
      <4>3. (a * (s * v)) * s = (a * s) * (s * v)
        OBVIOUS
      <4>4. (x * v) * s = x * (s * v)
        BY <3>5
      <4>5. PICK c1 \in Nat, c2 \in Nat, c3 \in Nat :
                c1 = (a * s) * (s * v) /\ c2 = x * (s * v) /\ c3 = r * s
        BY <3>5
      <4> QED
        BY <4>1, <4>2, <4>3, <4>4, <4>5
    <3>9. r * s < s * v
      BY <1>4, <3>6
    <3>10. PICK y \in Nat, q \in Nat, z \in Nat : y = (a * t + b) * s /\ q = a * s + x /\ z = r * s
      <4>1. (a * t + b) * s \in Nat
        <5>1. a * t + b \in Nat
          BY Products
        <5> QED
          BY <5>1, Products
      <4>2. a * s + x \in Nat
        BY <3>5, Products
      <4>3. r * s \in Nat
        BY Products
      <4> QED
        BY <4>1, <4>2, <4>3, Zenon
    <3>11. y = q * t + z /\ z < t
      BY <3>4, <3>7, <3>8, <3>9, <3>10
    <3>12. y \div t = q
      BY <3>11, Quotient
    <3> QED
      BY <3>5, <3>10, <3>12
  <2> QED
    BY <2>1, <2>2
<1>8. a * s + x \in Nat
  BY <1>7
<1> QED
  BY <1>2, <1>3, <1>4, <1>5, <1>6, <1>7, <1>8

\* What a page shows of an amount, typed again, is the amount.
LEMMA ShownIsTyped ==
    ASSUME NEW p \in Nat
    PROVE  ParseTokenAmount(FormatTokenAmount(p)) = p
<1>1. PICK n \in Nat : n = Decimals
  BY TokenAmountAssumption
<1>2. PICK t \in Nat \ {0} : t = Ten[n]
  BY TenNumber
<1>3. PICK q \in Nat, r \in Nat : q = p \div t /\ r = p % t /\ p = q * t + r /\ r < t
  <2>1. p = t * (p \div t) + (p % t) /\ p \div t \in Nat /\ p % t \in 0 .. t - 1
    OBVIOUS
  <2>2. PICK x, y : x = p \div t /\ y = p % t
    OBVIOUS
  <2> QED
    BY <2>1, <2>2
<1>4. PICK w : w = Plain(q)
  OBVIOUS
<1>5. Value(w) = q
  BY <1>4, ValueOfPlain
<1>6. PICK f : f = IF r = 0 THEN <<>> ELSE Chopped(Padded(r, n))
  OBVIOUS
<1>7. FormatTokenAmount(p) = [whole |-> w, frac |-> f]
  BY <1>1, <1>2, <1>3, <1>4, <1>6 DEF FormatTokenAmount
<1>8. Value(SubSeq(f \o Zeros(n), 1, n)) = r
  <2>1. CASE r = 0
    <3>1. f = <<>>
      BY <1>6, <2>1
    <3>2. f \in Seq(0 .. 9) /\ Len(f) = 0
      BY <3>1
    <3>3. Value(SubSeq(f \o Zeros(n), 1, n)) = Value(f) * Ten[n - Len(f)]
      BY <3>2, Len(f) <= n, CutShort
    <3>4. Value(f) = 0 /\ Ten[n - Len(f)] = t
      BY <1>2, <3>1, <3>2, ValueOfNothing
    <3> QED
      BY <2>1, <3>3, <3>4
  <2>2. CASE r # 0
    <3>1. PICK d : d = Padded(r, n)
      OBVIOUS
    <3>2. d \in Seq(0 .. 9) /\ Len(d) = n /\ Value(d) = r
      BY <1>2, <1>3, <3>1, ValueOfPadded
    <3>3. d \in Seq(Nat)
      BY <3>2
    <3>4. SubSeq(Chopped(d) \o Zeros(Len(d)), 1, Len(d)) = d
      BY <3>3, ChoppedAndZeros
    <3> QED
      BY <1>6, <2>2, <3>1, <3>2, <3>4
  <2> QED
    BY <2>1, <2>2
<1>9. ParseTokenAmount(FormatTokenAmount(p)) = q * t + r
  BY <1>1, <1>2, <1>5, <1>7, <1>8 DEF ParseTokenAmount
<1> QED
  BY <1>3, <1>9

\* A typed text is digits before and after the point.
LEMMA TextDigits ==
    ASSUME NEW text \in Text
    PROVE  text.whole \in Seq(0 .. 9) /\ text.frac \in Seq(0 .. 9)
<1>1. ASSUME NEW k \in Nat, NEW d \in BoundedSeq(Digits, k) PROVE d \in Seq(0 .. 9)
  <2>1. PICK m \in 0 .. k : d \in [1 .. m -> Digits]
    BY DEF BoundedSeq, SeqOf
  <2>2. d \in [1 .. m -> 0 .. 9]
    BY <2>1, TokenAmountAssumption
  <2> QED
    BY <2>2
<1>2. text.whole \in BoundedSeq(Digits, MaxWhole) /\ text.frac \in BoundedSeq(Digits, MaxFrac)
  BY DEF Text
<1> QED
  BY <1>1, <1>2, TokenAmountAssumption

\* What was sent is what the typed text stands for.
AmountInv ==
    /\ typed \in Text
    /\ planck # -1 => planck = ParseTokenAmount(typed)

\* What was sent is the amount that was typed, and shown as such.
LEMMA AmountInvKept == AmountInv => AmountsKept
<1> SUFFICES ASSUME AmountInv, planck # -1
             PROVE  planck = TypedPlanck /\ ParseTokenAmount(FormatTokenAmount(planck)) = planck
  BY DEF AmountsKept
<1>1. typed.whole \in Seq(0 .. 9) /\ typed.frac \in Seq(0 .. 9)
  BY TextDigits DEF AmountInv
<1>2. planck = ParseTokenAmount(typed)
  BY DEF AmountInv
<1>3. planck = TypedPlanck /\ planck \in Nat
  <2>1. PICK w \in Seq(0 .. 9), f \in Seq(0 .. 9) : w = typed.whole /\ f = typed.frac
    BY <1>1
  <2>2. Decimals \in Nat
    BY TokenAmountAssumption
  <2>3. planck = Value(w) * Ten[Decimals] + Value(SubSeq(f \o Zeros(Decimals), 1, Decimals))
    BY <1>2, <2>1 DEF ParseTokenAmount
  <2>4. TypedPlanck = (Value(w \o f) * Ten[Decimals]) \div Ten[Len(f)]
    BY <2>1 DEF TypedPlanck
  <2> QED
    BY <2>2, <2>3, <2>4, ParsedIsTyped
<1> QED
  BY <1>3, ShownIsTyped

\* For any number of decimals and texts of any length: no form sends more than
\* was typed (parseTokenAmount), and what a page shows of it, typed again, is the
\* same amount (formatTokenAmount).
THEOREM AmountsAreKept == AmountSpec => []AmountsKept
<1>1. AmountInit => AmountInv
  BY DEF AmountInit, AmountInv
<1>2. AmountInv /\ [AmountNext]_amountVars => AmountInv'
  BY DEF AmountInv, AmountNext, Send, Show, amountVars
<1> QED
  BY <1>1, <1>2, AmountInvKept, PTL DEF AmountSpec
=============================================================================

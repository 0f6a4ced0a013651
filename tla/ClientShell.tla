----------------------------- MODULE ClientShell -----------------------------
(***************************************************************************)
(* What every page of the front end stands on: the demo mode switch with   *)
(* its memory in localStorage, the one connection to the node that getApi  *)
(* caches, a page's usePolkadotApi, and the wallet.  A click or an answer  *)
(* is an action, with the renders and effects it causes; answers of the    *)
(* network and of the wallet's extension come in between.                  *)
(***************************************************************************)
EXTENDS Naturals, FiniteSets

CONSTANTS
    None,        \* nothing stored, nobody selected
    MaxToggles,  \* bound on the clicks on the demo mode switch
    MaxReloads,  \* bound on the reloads of the page
    MaxConnects  \* bound on the clicks on "connect wallet"

ASSUME ShellAssumption ==
    /\ None \notin BOOLEAN
    /\ {MaxToggles, MaxReloads, MaxConnects} \subseteq Nat

VARIABLES
    enabled, hydrated,   \* DemoModeProvider's state
    stored,              \* localStorage[STORAGE_KEY]
    apiPromise,          \* the cache of lib/polkadotApi
    api, apiError,       \* usePolkadotApi's state
    waiting,             \* its calls of getApi: <<number, cancelled>>
    accounts, selected,  \* the wallet's, by where they come from
    connecting,          \* calls of connect that wait for the extension
    chosen,              \* history: the modes the switch may rightly be in
    toggles, reloads, connects   \* how often, for the bounds

demoVars == <<enabled, hydrated, stored, chosen, toggles, reloads>>
connectionVars == <<apiPromise, api, apiError, waiting>>
walletVars == <<accounts, selected, connecting, connects>>
shellVars == <<demoVars, connectionVars, walletVars>>

Origin == {"demo", "extension"}

ShellTypeOK ==
    /\ enabled \in BOOLEAN /\ hydrated \in BOOLEAN /\ chosen \subseteq BOOLEAN
    /\ api \in BOOLEAN /\ apiError \in BOOLEAN
    /\ stored \in BOOLEAN \cup {None}
    /\ apiPromise \in {"none", "pending", "resolved", "rejected"}
    /\ waiting \subseteq Nat \X BOOLEAN
    /\ accounts \in Origin \cup {None}
    /\ selected \in Origin \cup {None}
    /\ connecting \in Nat /\ connects \in Nat /\ toggles \in Nat /\ reloads \in Nat

ShellInit ==
    /\ enabled = TRUE
    /\ hydrated = FALSE
    /\ stored = None
    /\ apiPromise = "none"
    /\ api = FALSE
    /\ apiError = FALSE
    /\ waiting = {}
    /\ accounts = "demo"
    /\ selected = "demo"
    /\ connecting = 0
    /\ chosen = {TRUE}
    /\ toggles = 0
    /\ reloads = 0
    /\ connects = 0

\* Mutant of Cleanup: the effect has no cleanup.
NoCleanup == waiting

\* The effect's cleanup: what it waited for is no longer wanted.
Cleanup == {<<w[1], TRUE>> : w \in waiting}

\* The effects of usePolkadotApi and of the wallet once enabled is demo.  The
\* promise may have settled before; its callbacks then run before any event.
EnabledBecomes(demo) ==
    /\ enabled' = demo
    /\ accounts' = IF demo THEN "demo" ELSE None
    /\ selected' = IF demo THEN "demo" ELSE None
    /\ IF demo
       THEN /\ waiting' = Cleanup
            /\ api' = FALSE
            /\ apiError' = FALSE
            /\ UNCHANGED apiPromise
       ELSE /\ apiPromise' = IF apiPromise = "none" THEN "pending" ELSE apiPromise
            /\ api' = (apiPromise = "resolved")
            /\ apiError' = (apiPromise = "rejected")
            /\ waiting' = IF apiPromise \in {"none", "pending"}
                          THEN Cleanup \cup {<<toggles + reloads, FALSE>>}
                          ELSE Cleanup

\* Mutant of Hydrate: the switch is stored before the stored one is read.
HydrateStoresFirst ==
    /\ ~hydrated
    /\ hydrated' = TRUE
    /\ stored' = enabled
    /\ UNCHANGED <<enabled, connectionVars, accounts, selected, connecting, connects,
                   chosen, toggles, reloads>>

\* The first effects after a load: enabled becomes what was stored, if anything
\* was, and is stored again now that hydrated is set.
Hydrate ==
    /\ ~hydrated
    /\ hydrated' = TRUE
    /\ IF stored \notin {None, enabled}
       THEN EnabledBecomes(stored)
       ELSE UNCHANGED <<enabled, connectionVars, accounts, selected>>
    /\ stored' = IF stored = None THEN enabled ELSE stored
    /\ UNCHANGED <<connecting, connects, chosen, toggles, reloads>>

\* A click on the switch, which does not ask whether the first effects have
\* run: one before them is not stored, and what is stored overrules it.
Toggle ==
    /\ toggles < MaxToggles
    /\ toggles' = toggles + 1
    /\ EnabledBecomes(~enabled)
    /\ stored' = IF hydrated THEN ~enabled ELSE stored
    /\ chosen' = IF hydrated THEN {~enabled} ELSE chosen \cup {~enabled}
    /\ UNCHANGED <<hydrated, reloads, connecting, connects>>

\* The page is loaded anew: all state is gone except localStorage.
Reload ==
    /\ reloads < MaxReloads
    /\ reloads' = reloads + 1
    /\ enabled' = TRUE /\ hydrated' = FALSE
    /\ apiPromise' = "none" /\ api' = FALSE /\ apiError' = FALSE /\ waiting' = {}
    /\ accounts' = "demo" /\ selected' = "demo" /\ connecting' = 0
    /\ chosen' = IF hydrated THEN {enabled} ELSE chosen
    /\ UNCHANGED <<stored, toggles, connects>>

Wanted == \E w \in waiting : ~w[2]

\* The connection is made, or its code cannot be loaded; a rejected promise
\* stays in the cache.
Settle(outcome) ==
    /\ apiPromise = "pending"
    /\ apiPromise' = outcome
    /\ waiting' = {}
    /\ api' = (api \/ (Wanted /\ outcome = "resolved"))
    /\ apiError' = (apiError \/ (Wanted /\ outcome = "rejected"))
    /\ UNCHANGED <<demoVars, walletVars>>

\* The buttons that connect are shown while there are no accounts, and not
\* all of them are disabled while one call is waiting.
Connect ==
    /\ accounts = None
    /\ ~enabled
    /\ connects < MaxConnects
    /\ connects' = connects + 1
    /\ connecting' = connecting + 1
    /\ UNCHANGED <<demoVars, connectionVars, accounts, selected>>

\* The extension answers with its accounts: nothing asks again for the mode.
Authorized ==
    /\ connecting > 0
    /\ connecting' = connecting - 1
    /\ accounts' = "extension"
    /\ selected' = IF selected = None THEN "extension" ELSE selected
    /\ UNCHANGED <<demoVars, connectionVars, connects>>

\* There is no extension or it refuses, which changes nothing; or it answers
\* that it authorizes no account, and the list is empty.
Refused ==
    /\ connecting > 0
    /\ connecting' = connecting - 1
    /\ accounts' \in {accounts, None}
    /\ UNCHANGED <<demoVars, connectionVars, connects, selected>>

\* The account selector of the navigation bar.
SelectAccount ==
    /\ accounts # None
    /\ selected' = accounts
    /\ UNCHANGED <<demoVars, connectionVars, accounts, connecting, connects>>

\* A vendor or a donor was added in demo mode: its accounts are listed anew.
DemoAccountsChange ==
    /\ enabled
    /\ accounts' = "demo"
    /\ selected' = "demo"
    /\ UNCHANGED <<demoVars, connectionVars, connecting, connects>>

ShellNext ==
    \/ Hydrate \/ Toggle \/ Reload
    \/ \E outcome \in {"resolved", "rejected"} : Settle(outcome)
    \/ Connect \/ Authorized \/ Refused
    \/ SelectAccount \/ DemoAccountsChange

ShellSpec == ShellInit /\ [][ShellNext]_shellVars
-----------------------------------------------------------------------------
\* "Demo mode never touches the network": no page has a connection while the
\* demo is on, not even one that was asked for before the switch, or between
\* two switches, and whose answer comes late.
DemoOffline == enabled => ~api /\ ~apiError

\* The switch is remembered: after any sequence of clicks and reloads the mode
\* is the one last chosen, though every load starts with the demo on.  Only a
\* click before the first effects of a load may be lost, and then the mode is
\* the one in which the page was left.
ChoiceSurvives == hydrated => enabled \in chosen
=============================================================================

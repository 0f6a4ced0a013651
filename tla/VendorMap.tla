------------------------------ MODULE VendorMap ------------------------------
(***************************************************************************)
(* The map of vendors, funded projects and RFPs.  Google's script is       *)
(* loaded once per page load, by whichever mount comes first; the map is   *)
(* created when it is there; then every change of a filter or of the data  *)
(* draws all pins anew.  Pins of wards are drawn at once, pins of vendors  *)
(* whose address has to be geocoded when Google answers.  A position is    *)
(* what it is computed from, and is left out.                              *)
(***************************************************************************)
EXTENDS Naturals, FiniteSets

CONSTANTS
    Vendors, Projects, Rfps,   \* what may be shown; Projects are the funded ones
    Categories, Wards,
    CategoryOf,  \* [Vendors -> Categories]
    VendorOf,    \* [Projects -> Vendors]
    WardOf,      \* [Projects \cup Rfps -> Wards]
    DemoCoords,  \* demoVendorCoords knows these vendors
    Addressed,   \* vendors with a business address
    ApiKey,      \* whether the server is configured with a key
    MaxRuns, MaxMounts  \* bounds on redrawings and on visits of the page

ASSUME MapAssumption ==
    /\ CategoryOf \in [Vendors -> Categories]
    /\ VendorOf \in [Projects -> Vendors]
    /\ WardOf \in [Projects \cup Rfps -> Wards]
    /\ Vendors \cap (Projects \cup Rfps) = {}
    /\ DemoCoords \subseteq Vendors /\ Addressed \subseteq Vendors
    /\ ApiKey \in BOOLEAN
    /\ {MaxRuns, MaxMounts} \subseteq Nat

VARIABLES
    script,         \* googleMapsLoadPromise, and whether window.google is there
    mounted, awaiting,   \* the component, and its callbacks on that promise
    ready, unavailable,  \* its state
    made,           \* mapRef: the map is created
    vendors, places,     \* its properties: vendors; proposals and RFPs
    demoOn,         \* demo.enabled
    layers, activeCategories, activeWards,  \* the filters
    pins,           \* markersRef: pins on the map, and the run that drew them
    geocodes,       \* geocoder calls under way
    missed,         \* history: vendors not found since the last redrawing
    run, mounts     \* redrawings and visits, for the bounds

loadVars == <<script, mounted, awaiting, ready, unavailable, made, mounts>>
dataVars == <<vendors, places, demoOn>>
filterVars == <<layers, activeCategories, activeWards>>
pinVars == <<pins, geocodes, missed, run>>
mapVars == <<loadVars, dataVars, filterVars, pinVars>>

Layer == {"vendors", "projects", "rfps"}

MapTypeOK ==
    /\ script \in {"none", "pending", "loaded", "failed"}
    /\ {mounted, awaiting, ready, unavailable, made, demoOn} \subseteq BOOLEAN
    /\ vendors \subseteq Vendors /\ places \subseteq Projects \cup Rfps
    /\ layers \subseteq Layer
    /\ activeCategories \subseteq Categories /\ activeWards \subseteq Wards
    /\ pins \subseteq [item : Vendors \cup Projects \cup Rfps, run : Nat]
    /\ geocodes \subseteq [item : Vendors, run : Nat]
    /\ missed \subseteq Vendors
    /\ made => mounted /\ ready
    /\ pins # {} => made

MapInit ==
    /\ script = "none" /\ mounted = FALSE /\ awaiting = FALSE
    /\ ready = FALSE /\ unavailable = FALSE /\ made = FALSE
    /\ vendors = {} /\ places = {} /\ demoOn \in BOOLEAN
    /\ layers = Layer /\ activeCategories = Categories /\ activeWards = Wards
    /\ pins = {} /\ geocodes = {} /\ missed = {} /\ run = 0 /\ mounts = 0

WantedVendors ==
    IF "vendors" \in layers
    THEN {v \in vendors : CategoryOf[v] \in activeCategories} ELSE {}

WantedPlaces ==
    LET projects == {p \in places \cap Projects :
                        /\ WardOf[p] \in activeWards
                        /\ VendorOf[p] \in vendors =>
                               CategoryOf[VendorOf[p]] \in activeCategories}
        rfps     == {r \in places \cap Rfps : WardOf[r] \in activeWards}
    IN  (IF "projects" \in layers THEN projects ELSE {})
            \cup (IF "rfps" \in layers THEN rfps ELSE {})

Placed == WantedVendors \cap (IF demoOn THEN DemoCoords ELSE {})

Geocoded == (WantedVendors \ Placed) \cap Addressed

\* The effect that draws: after the step its pins are those of the new state;
\* geocoder calls of earlier runs stay under way.
Redraw ==
    IF ready' /\ made'
    THEN /\ run < MaxRuns
         /\ run' = run + 1
         /\ pins' = {[item |-> i, run |-> run + 1] : i \in Placed' \cup WantedPlaces'}
         /\ geocodes' = geocodes \cup {[item |-> v, run |-> run + 1] : v \in Geocoded'}
         /\ missed' = {}
    ELSE UNCHANGED pinVars

\* Mutant of Mount: a script that is being loaded already is not waited for.
MountFirstWaits ==
    /\ ~mounted
    /\ mounts < MaxMounts
    /\ mounts' = mounts + 1
    /\ mounted' = TRUE
    /\ layers' = Layer /\ activeCategories' = Categories /\ activeWards' = Wards
    /\ script' = IF script = "none" THEN (IF ApiKey THEN "pending" ELSE "failed") ELSE script
    /\ ready' = (script = "loaded")
    /\ made' = (script = "loaded")
    /\ unavailable' = (script' = "failed")
    /\ awaiting' = (script = "none")
    /\ UNCHANGED dataVars
    /\ Redraw

\* The page is opened.  Its effects run in their order: the script, the map
\* (which needs ready and its container), the pins.
Mount ==
    /\ ~mounted
    /\ mounts < MaxMounts
    /\ mounts' = mounts + 1
    /\ mounted' = TRUE
    /\ layers' = Layer /\ activeCategories' = Categories /\ activeWards' = Wards
    /\ script' = IF script = "none" THEN (IF ApiKey THEN "pending" ELSE "failed") ELSE script
    /\ ready' = (script = "loaded")
    /\ made' = (script = "loaded")
    /\ unavailable' = (script' = "failed")
    /\ awaiting' = (script' = "pending")
    /\ UNCHANGED dataVars
    /\ Redraw

\* The page is left: the callbacks find cancelled set, the map is gone.
Unmount ==
    /\ mounted
    /\ mounted' = FALSE /\ awaiting' = FALSE /\ ready' = FALSE /\ made' = FALSE
    /\ unavailable' = FALSE
    /\ pins' = {} /\ geocodes' = {} /\ missed' = {} /\ vendors' = {} /\ places' = {}
    /\ UNCHANGED <<script, mounts, demoOn, filterVars, run>>

\* Mutant of Loaded: the effect that creates the map comes after the one that
\* draws the pins.
LoadedMapLast ==
    /\ script = "pending"
    /\ script' = "loaded"
    /\ awaiting' = FALSE
    /\ ready' = (ready \/ awaiting)
    /\ made' = (made \/ awaiting)
    /\ UNCHANGED <<mounted, unavailable, mounts, dataVars, filterVars, pinVars>>

Loaded ==
    /\ script = "pending"
    /\ script' = "loaded"
    /\ awaiting' = FALSE
    /\ ready' = (ready \/ awaiting)
    /\ made' = (made \/ awaiting)
    /\ UNCHANGED <<mounted, unavailable, mounts, dataVars, filterVars>>
    /\ IF awaiting THEN Redraw ELSE UNCHANGED pinVars

\* The script cannot be loaded; the rejected promise stays.
LoadFails ==
    /\ script = "pending"
    /\ script' = "failed"
    /\ awaiting' = FALSE
    /\ unavailable' = (unavailable \/ awaiting)
    /\ UNCHANGED <<mounted, ready, made, mounts, dataVars, filterVars, pinVars>>

\* Google refuses the key after the map was made: the list replaces it.
AuthFails ==
    /\ made /\ ~unavailable
    /\ unavailable' = TRUE
    /\ UNCHANGED <<script, mounted, awaiting, ready, made, mounts, dataVars, filterVars,
                   pinVars>>

\* The lists of the three hooks arrive.
VendorsArrive ==
    /\ mounted /\ vendors = {}
    /\ vendors' = Vendors
    /\ UNCHANGED <<loadVars, places, demoOn, filterVars>>
    /\ Redraw

PlacesArrive ==
    /\ mounted /\ places = {}
    /\ places' = Projects \cup Rfps
    /\ UNCHANGED <<loadVars, vendors, demoOn, filterVars>>
    /\ Redraw

\* Demo mode is entered or left while the map is shown.  Its data are others
\* then; which ones makes no difference to the drawing.
SwitchDemo ==
    /\ mounted
    /\ demoOn' = ~demoOn
    /\ UNCHANGED <<loadVars, vendors, places, filterVars>>
    /\ Redraw

Flip(set, x) == IF x \in set THEN set \ {x} ELSE set \cup {x}

\* A click on a filter: a layer, a category, a ward, or one of the two "all".
Filter ==
    /\ mounted /\ ~unavailable
    /\ \/ /\ \E l \in Layer : layers' = Flip(layers, l)
          /\ UNCHANGED <<activeCategories, activeWards>>
       \/ /\ \/ \E c \in Categories : activeCategories' = Flip(activeCategories, c)
             \/ activeCategories' = Categories
          /\ UNCHANGED <<layers, activeWards>>
       \/ /\ \/ \E w \in Wards : activeWards' = Flip(activeWards, w)
             \/ activeWards' = Wards
          /\ UNCHANGED <<layers, activeCategories>>
    /\ UNCHANGED <<loadVars, dataVars>>
    /\ Redraw

\* Google answers a call of the geocoder, of whichever run: the pin is added to
\* those on the map.
Geocode(g) ==
    /\ geocodes' = geocodes \ {g}
    /\ \/ pins' = pins \cup {g} /\ UNCHANGED missed
       \/ missed' = missed \cup {g.item} /\ UNCHANGED pins
    /\ UNCHANGED <<loadVars, dataVars, filterVars, run>>

MapNext ==
    \/ Mount \/ Unmount \/ Loaded \/ LoadFails \/ AuthFails
    \/ VendorsArrive \/ PlacesArrive \/ SwitchDemo \/ Filter
    \/ \E g \in geocodes : Geocode(g)

MapSpec == MapInit /\ [][MapNext]_mapVars

\* A script is loaded or fails.
ScriptEnds == Loaded \/ LoadFails

FairMapSpec == MapSpec /\ WF_mapVars(ScriptEnds)
-----------------------------------------------------------------------------
PlacesPinned == {p.item : p \in pins} \ Vendors = WantedPlaces

VendorsPinned ==
    \A v \in WantedVendors :
        \/ v \in {p.item : p \in pins}
        \/ v \in missed
        \/ v \notin Addressed /\ ~(demoOn /\ v \in DemoCoords)

\* Projects and RFPs are on the map exactly if data and filters want them, in
\* whatever order script, data and clicks came: no effect is missing what an
\* earlier one of the same render leaves for it.  Once Google has answered the
\* calls of every drawing, so is each vendor that the filters want, unless its
\* address was not found or it has none.
PinsAsFiltered == made => PlacesPinned /\ (geocodes = {} => VendorsPinned)

\* Whoever stays on the page gets a map or the list, also if the script was
\* asked for by an earlier visit that is over, and failed or succeeded then.
MapOrList == mounted ~> (ready \/ unavailable \/ ~mounted)
=============================================================================

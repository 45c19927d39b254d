----------------------------- MODULE Dashboards -----------------------------
(***************************************************************************)
(* A dashboard of child maltreatment and demographic data: selectors, a    *)
(* map of the counties in the colours of ColorScale, and a chart of the    *)
(* county picked on the map.  Everything but the demographic chart is      *)
(* drawn from one answer of the portal; that chart is fetched whenever     *)
(* what it is about changes.                                               *)
(*                                                                         *)
(* There is no link between the three dashboards, so a page is one of      *)
(* them.  The data is in the units of ColorScale: Maltreated[t][y][r][c]   *)
(* for type t in year y, as a rate (r is TRUE) or a count, of county c,    *)
(* and Observed[f][r] a function on the counties that have a value.        *)
(***************************************************************************)
EXTENDS ColorScale, FiniteSets, FiniteSetsExt, TLC

CONSTANTS
    Counties, NoCounty,             \* what is picked on the map
    Types, InitialType,             \* kinds of maltreatment
    Features, InitialFeature, Top,  \* demographics, those offered for analytics
    Years, Latest,
    Offered,                        \* Offered[r]: the variables shown as r
    Maltreated, Observed

\* What the constants are (the composing module assumes it): counties and
\* types of maltreatment are finitely many, whatever value there is, is a
\* whole number of parts.
BoardAssumption ==
    /\ One \in Nat \ {0}
    /\ IsFiniteSet(Counties) /\ IsFiniteSet(Types)
    /\ InitialType \in Types /\ InitialFeature \in Features /\ Latest \in Years
    /\ \A t \in Types, y \in Years, r \in BOOLEAN, c \in Counties :
          Maltreated[t][y][r][c] \in Int
    /\ \A f \in Features, r \in BOOLEAN :
          /\ DOMAIN Observed[f][r] \subseteq Counties
          /\ \A c \in DOMAIN Observed[f][r] : Observed[f][r][c] \in Int

VARIABLES store, calls, ui, alive

vars == <<store, calls, ui, alive>>

Routes == {"maltreatment", "demographics", "analytics"}

----------------------------------------------------------------------------
(* The reducers.                                                           *)

initialState == [loading |-> TRUE, error |-> FALSE]
PROTX_INIT(st) == [st EXCEPT !.protx = initialState]
PROTX_SUCCESS(st) == [st EXCEPT !.protx.loading = FALSE]
PROTX_FAILURE(st) == [st EXCEPT !.protx = [initialState EXCEPT !.error = TRUE]]

\* What a chart is about.
Question(u) == [county |-> u.county, feature |-> u.feature, rate |-> u.showRate]
NoQuestion == [county |-> NoCounty, feature |-> InitialFeature, rate |-> TRUE]

initialDistribution == [loading |-> TRUE, error |-> FALSE, of |-> NoQuestion]
DISTRIBUTION_INIT(st) == [st EXCEPT !.distribution = initialDistribution]
DISTRIBUTION_SUCCESS(st, q) ==
    [st EXCEPT !.distribution.loading = FALSE, !.distribution.of = q]
DISTRIBUTION_FAILURE(st) ==
    [st EXCEPT !.distribution = [initialDistribution EXCEPT !.error = TRUE]]

----------------------------------------------------------------------------
(* The data, and the map drawn from it.                                    *)

\* The portal drops the fraction of a count, of values and extremes alike.
create_dict(v, rate) == IF rate THEN v ELSE v - (v % One)

getMaltreatmentSelectedValues(u, c) ==
    [t \in u.types |-> create_dict(Maltreated[t][u.year][u.showRate][c], u.showRate)]

getMaltreatmentAggregatedValue(u, c) ==
    LET values == getMaltreatmentSelectedValues(u, c)
    IN MapThenSumSet(LAMBDA t : values[t], u.types)

getObservedFeatureValue(u, c) ==
    LET rows == Observed[u.feature][u.showRate]
    IN IF c \in DOMAIN rows THEN create_dict(rows[c], u.showRate) ELSE 0

\* Zero and no value are the same to the map.
Value(u, c) ==
    IF u.route = "maltreatment" THEN getMaltreatmentAggregatedValue(u, c)
    ELSE getObservedFeatureValue(u, c)

\* The extremes of a demographic are computed by the portal, over all values
\* it has; those of maltreatment in the browser, over the sums that are not
\* zero.
Extremes(S) == IF S = {} THEN {} ELSE {[min |-> Min(S), max |-> Max(S)]}

getObservedFeaturesMetaData(u) ==
    LET rows == Observed[u.feature][u.showRate]
    IN Extremes({create_dict(rows[c], u.showRate) : c \in DOMAIN rows})

getMaltreatmentMetaData(u) ==
    Extremes({getMaltreatmentAggregatedValue(u, c) : c \in Counties} \ {0})

\* The extremes of what is selected, none when there is nothing to colour.
getMetaData(u) ==
    IF u.route = "maltreatment" THEN getMaltreatmentMetaData(u)
    ELSE getObservedFeaturesMetaData(u)

\* The class a county is coloured by, none when it stays transparent.
getFeatureStyle(u, c) ==
    IF Value(u, c) = 0 THEN {} ELSE {getColor(m, Value(u, c)) : m \in getMetaData(u)}

----------------------------------------------------------------------------
(* The sagas, both started with takeLeading.                               *)

fetchProtx ==
    /\ calls.protx # {}
    /\ \/ store' = PROTX_SUCCESS(store)
       \/ store' = PROTX_FAILURE(store)
    /\ calls' = [calls EXCEPT !.protx = {}]
    /\ UNCHANGED <<ui, alive>>

\* A request for a chart while another is open is forgotten.
(* Faulty: every request is sent. *)
takeEvery(open, q) == open \cup {q}
takeLeading(open, q) == IF open = {} THEN {q} ELSE open

fetchProtxDemographicDistribution == \E q \in calls.distribution :
    /\ \/ store' = DISTRIBUTION_SUCCESS(store, q)
       \/ store' = DISTRIBUTION_FAILURE(store)
    /\ calls' = [calls EXCEPT !.distribution = @ \ {q}]
    /\ UNCHANGED <<ui, alive>>

\* The effect of the demographic chart, when what it is about is now that of
\* u: a chart is asked for if a county is picked.
ObservedFeaturesChart(u) ==
    LET q == Question(u)
        open == takeLeading(calls.distribution, q)
    IN IF u.route = "demographics" /\ u.county # NoCounty /\ q # Question(ui)
       THEN /\ calls' = [calls EXCEPT !.distribution = open]
            /\ IF open = calls.distribution THEN UNCHANGED store
               ELSE store' = DISTRIBUTION_INIT(store)
            /\ ui' = [u EXCEPT !.forgotten = q \notin open]
       ELSE ui' = u /\ UNCHANGED <<store, calls>>

----------------------------------------------------------------------------
(* The page.                                                               *)

Shown == ui.open /\ ~store.protx.loading /\ ~store.protx.error

\* The page is opened by a user whose setup is complete; others are sent to
\* their setup.  Analytics shows totals.
DashboardDisplay ==
    /\ store.setupComplete /\ ~ui.open
    /\ ui' = [ui EXCEPT !.open = TRUE, !.showRate = ui.route # "analytics"]
    /\ store' = PROTX_INIT(store)
    /\ calls' = [calls EXCEPT !.protx = {"all"}]
    /\ UNCHANGED alive

Change(u) == Shown /\ ObservedFeaturesChart(u) /\ UNCHANGED alive

\* A type that is selected and not offered any more stays selected.
MaltreatmentSelector == \E t \in Types \cap Offered[ui.showRate] :
    /\ ui.route = "maltreatment"
    /\ Change([ui EXCEPT !.types = IF t \in @ THEN @ \ {t} ELSE @ \cup {t}])

setYear == \E y \in Years \ {ui.year} :
    ui.route = "maltreatment" /\ Change([ui EXCEPT !.year = y])

setObservedFeature ==
    /\ ui.route # "maltreatment"
    /\ \E f \in Features \ {ui.feature} :
          /\ f \in IF ui.route = "analytics" THEN Top ELSE Offered[ui.showRate]
          /\ Change([ui EXCEPT !.feature = f])

\* The test for a feature that is not offered in the new unit compares flags
\* to 0 that the portal sends as FALSE, so that the feature always stays.
changeShowRate ==
    /\ ui.route # "analytics"
    /\ Change([ui EXCEPT !.showRate = ~@])

\* A click picks a county and zooms in on it, or lets go of it.
click == \E c \in Counties :
    IF c = ui.county THEN Change([ui EXCEPT !.county = NoCounty])
    ELSE Change([ui EXCEPT !.county = c, !.zoomed = TRUE])

\* Zooming out past the level of the resources lets go of the county.
handleZoom ==
    Change([ui EXCEPT !.zoomed = ~@, !.county = IF ui.zoomed THEN NoCounty ELSE @])

----------------------------------------------------------------------------
Init ==
    /\ \E complete \in BOOLEAN :
          store = [protx |-> initialState, distribution |-> initialDistribution,
                   setupComplete |-> complete]
    /\ calls = [protx |-> {}, distribution |-> {}]
    /\ \E r \in Routes :
          ui = [route |-> r, open |-> FALSE, types |-> {InitialType},
                feature |-> InitialFeature, year |-> Latest, county |-> NoCounty,
                showRate |-> TRUE, zoomed |-> FALSE, forgotten |-> FALSE]
    /\ alive = TRUE

Next ==
    \/ fetchProtx \/ fetchProtxDemographicDistribution \/ DashboardDisplay
    \/ MaltreatmentSelector \/ setYear \/ setObservedFeature \/ changeShowRate
    \/ click \/ handleZoom

Spec == Init /\ [][Next]_vars

----------------------------------------------------------------------------
(* Properties.                                                             *)

\* A county is picked only on a map that is zoomed in, which is where the
\* map lets go of it.
TypeOK ==
    /\ ui.types \subseteq Types /\ ui.year \in Years /\ ui.feature \in Features
    /\ ui.county \in Counties \cup {NoCounty}
    /\ ui.county # NoCounty => ui.zoomed
    /\ calls.distribution \subseteq
          [county : Counties, feature : Features, rate : BOOLEAN]

\* The spinners of the page and of its chart wait for an open call.
SpinnerIsServed ==
    /\ (ui.open /\ store.protx.loading /\ ~store.protx.error) => calls.protx # {}
    /\ (/\ Shown /\ ui.route = "demographics" /\ ui.county # NoCounty
        /\ store.distribution.loading /\ ~store.distribution.error)
          => calls.distribution # {}

\* The demographic chart is of the county, the feature and the unit above it,
\* unless they changed to what they are while another chart was fetched.
PlotIsOfSelection ==
    (/\ Shown /\ ui.route = "demographics" /\ ui.county # NoCounty
     /\ ~store.distribution.loading /\ ~ui.forgotten)
        => store.distribution.of = Question(ui)

\* Whatever is selected, a county with a value has a colour, it is one of the
\* legend's, and the value lies in the class it stands for; the legend goes
\* from the least to the greatest value there is.
ColourIsInClass == Shown =>
    \A c \in Counties : Value(ui, c) # 0 =>
        \E m \in getMetaData(ui) : \E i \in getFeatureStyle(ui, c) :
            i \in Legend(m) /\ InClass(m, Value(ui, c), i)
=============================================================================

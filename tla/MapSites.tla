------------------------------ MODULE MapSites ------------------------------
(***************************************************************************)
(* The app's one RestaurantMapCubit and the maps over it: the tab, and     *)
(* «Cerca de ti», pushed over the tabs.  Here there is no sequence number: *)
(* every load that ends well is emitted, and both maps take what is        *)
(* emitted, whoever asked for it and for whichever island.                 *)
(***************************************************************************)
EXTENDS HttpCache

CONSTANT MaxLoads   \* bound: loads in flight

ASSUME SitesAssumption == MaxLoads \in Nat

VARIABLES
  tab,         \* the map of the tab: its island, whose sites it has, its phase
  nearby,      \* «Cerca de ti», if it is up; its island is the tab's
  emitted,     \* the island of the cubit's last emission
  loads,       \* the cubit's calls in flight, by slot
  crossed      \* since the tab's island changed, the last emission was of another (history)

mapVars == <<tab, nearby, emitted, loads, crossed>>

LoadSlots == 1..MaxLoads
NoLoad    == [at |-> "no", island |-> NoIsland, version |-> Nothing, by |-> "nobody"]
Closed    == [up |-> FALSE, rows |-> NoIsland, phase |-> "loading"]
Free(s)   == loads[s].at = "no"

(* _load of the map `by`; `at` is "clear" when it forces.                  *)
Load(by, i, at) ==
  \E s \in LoadSlots :
    /\ Free(s) /\ \A t \in LoadSlots : t < s => ~Free(t)
    /\ loads' = [loads EXCEPT ![s] = [NoLoad EXCEPT !.at = at, !.island = i, !.by = by]]

-----------------------------------------------------------------------------
(* reloadRestaurants.                                                      *)
ClearsCache(s) ==
  /\ loads[s].at = "clear"
  /\ cached' = Invalidated
  /\ loads' = [loads EXCEPT ![s].at = "cache"]
  /\ UNCHANGED <<tab, nearby, emitted, crossed, server, renewing>>

SitesGoOn(s) ==
  /\ \E a \in {"net", "back", "rest"}, v \in Found :
       LET g == [loads[s] EXCEPT !.at = a, !.version = v]
       IN  GoesOn(loads[s], g) /\ loads' = [loads EXCEPT ![s] = g]
  /\ UNCHANGED <<tab, nearby, emitted, crossed>>

(* _setRestaurants, in every map there is.                                 *)
Given(map, i) == [map EXCEPT !.rows = i, !.phase = "ready"]
SitesArrive(s) ==
  /\ loads[s].at = "rest"
  /\ loads' = [loads EXCEPT ![s] = NoLoad]
  /\ emitted' = loads[s].island
  /\ crossed' = (loads[s].island # tab.island)
  /\ tab' = Given(tab, loads[s].island)
  /\ nearby' = IF nearby.up THEN Given(nearby, loads[s].island) ELSE nearby
  /\ UNCHANGED cacheVars

(* The map that asked hears of the error, if it is still there; with       *)
(* sites on screen it says nothing.                                        *)
ErrorKept(map) == map
ErrorPainted(map) ==
  IF map.phase # "ready" THEN [map EXCEPT !.phase = "error"] ELSE map
SitesFail(s) ==
  /\ GivesUp(loads[s])
  /\ loads' = [loads EXCEPT ![s] = NoLoad]
  /\ tab' = IF loads[s].by = "tab" THEN ErrorPainted(tab) ELSE tab
  /\ nearby' = IF loads[s].by = "nearby" THEN ErrorPainted(nearby) ELSE nearby
  /\ UNCHANGED <<emitted, crossed>>

SitesAnswer(s) == ClearsCache(s) \/ SitesGoOn(s) \/ SitesArrive(s) \/ SitesFail(s)

-----------------------------------------------------------------------------
(* _onIslandChanged, in the tab: the sites of the other island go.         *)
RowsKept(i)  == [tab EXCEPT !.island = i]
StillHere(i) == [tab EXCEPT !.rows = NoIsland, !.phase = "loading"]
Emptied(i)  == [island |-> i, rows |-> NoIsland, phase |-> "loading"]
TabTo(i) ==
  /\ tab' = Emptied(i)
  /\ crossed' = FALSE
  /\ Load("tab", i, "cache")
  /\ UNCHANGED <<nearby, emitted>>

(* initState: what the cubit has last emitted will do until its own load   *)
(* ends.                                                                   *)
OpenNearby ==
  /\ ~nearby.up
  /\ nearby' = [up |-> TRUE, rows |-> emitted,
                phase |-> IF emitted = NoIsland THEN "loading" ELSE "ready"]
  /\ Load("nearby", tab.island, "cache")
  /\ UNCHANGED <<tab, emitted, crossed, cacheVars>>

CloseNearby ==
  /\ nearby.up
  /\ nearby' = Closed
  /\ loads' = [s \in LoadSlots |-> IF loads[s].by = "nearby"
                                   THEN [loads[s] EXCEPT !.by = "gone"] ELSE loads[s]]
  /\ UNCHANGED <<tab, emitted, crossed, cacheVars>>

(* «Reintentar», in the map on top.                                        *)
Retry ==
  /\ \/ /\ ~nearby.up /\ tab.phase = "error"
        /\ tab' = [tab EXCEPT !.phase = "loading"]
        /\ Load("tab", tab.island, "clear")
        /\ UNCHANGED nearby
     \/ /\ nearby.up /\ nearby.phase = "error"
        /\ nearby' = [nearby EXCEPT !.phase = "loading"]
        /\ Load("nearby", tab.island, "clear")
        /\ UNCHANGED tab
  /\ UNCHANGED <<emitted, crossed, cacheVars>>

MapNext == OpenNearby \/ CloseNearby \/ Retry

Phases == {"loading", "ready", "error"}
SitesTypeOK ==
  /\ tab \in [island : Islands, rows : Islands \cup {NoIsland}, phase : Phases]
  /\ nearby \in [up : BOOLEAN, rows : Islands \cup {NoIsland}, phase : Phases]
  /\ emitted \in Islands \cup {NoIsland}
  /\ loads \in [LoadSlots -> [at : {"no", "clear", "cache", "net", "back", "rest"},
                              island : Islands \cup {NoIsland}, version : Found,
                              by : {"nobody", "tab", "nearby", "gone"}]]
  /\ crossed \in BOOLEAN

=============================================================================

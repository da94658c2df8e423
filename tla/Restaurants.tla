----------------------------- MODULE Restaurants -----------------------------
(***************************************************************************)
(* The lists of restaurants of the app: the home, Listas, the results and  *)
(* the maps, over two cubits and one cache.  The tabs are all mounted, so  *)
(* a change of island is at once the home's and the map's.                 *)
(***************************************************************************)
EXTENDS RestaurantLists, MapSites

vars == <<cacheVars, island, listVars, mapVars>>

(* The tabs are built: the home and the map ask for the stored island.     *)
Init ==
  /\ CacheInit
  /\ island \in Islands
  /\ cubit = Shows("loading")
  /\ requests = [s \in Slots |-> IF s = 1 THEN Pool(island, Nothing) ELSE NoRequest]
  /\ home = [island |-> NoIsland, version |-> Nothing, due |-> Nothing]
  /\ pull = FALSE /\ search = NoSearch /\ listas = NoIsland /\ lost = {}
  /\ tab = [island |-> island, rows |-> NoIsland, phase |-> "loading"]
  /\ nearby = Closed /\ emitted = NoIsland /\ crossed = FALSE
  /\ loads = [s \in LoadSlots |-> IF s = 1 THEN [at |-> "cache", island |-> island,
                                                version |-> Nothing, by |-> "tab"]
                                 ELSE NoLoad]

-----------------------------------------------------------------------------
(* NewHomeFiltersCubit.selectIsland: the picker of the home or of the map, *)
(* Descubre, the ranking, or the map dragged over another island.          *)
ChangeIsland(i) ==
  /\ i # island /\ ~search.up /\ ~nearby.up
  /\ island' = i
  /\ LoadPool(i, Nothing)
  /\ TabTo(i)
  /\ UNCHANGED <<home, pull, search, listas, cacheVars>>

(* A fetch of island i that was made before the cache was emptied may      *)
(* still write its copy afterwards.                                        *)
Fetching(i) ==
  \/ renewing[i] # Idle
  \/ \E s \in Slots : requests[s].island = i /\ OnTheWire(requests[s])
  \/ \E s \in LoadSlots : loads[s].island = i /\ OnTheWire(loads[s])

Pull == PullReloads(IF Fetching(island) THEN Nothing ELSE server)

(* What the home and the results do, and what the maps do: apart.          *)
Lists(A) == UNCHANGED <<island, mapVars>> /\ A
Maps(A)  == UNCHANGED <<island, listVars>> /\ A

CacheStep == (\E i \in Islands : Renews(i)) \/ ServerChanges

Next ==
  \/ \E i \in Islands : ChangeIsland(i)
  \/ Lists(PullRefresh) /\ ~nearby.up
  \/ Lists(Pull)
  \/ Lists(\E s \in Slots : Answers(s))
  \/ Lists(SearchNext) /\ ~nearby.up
  \/ Maps(\E s \in LoadSlots : SitesAnswer(s))
  \/ Maps(MapNext) /\ ~search.up
  \/ CacheStep /\ UNCHANGED <<island, listVars, mapVars>>

Spec == Init /\ [][Next]_vars

NewestAnswers(s) == requests[s].newest /\ (FindArrives(s) \/ FindFails(s))

-----------------------------------------------------------------------------
TypeOK == CacheTypeOK /\ ListsTypeOK /\ SitesTypeOK /\ tab.island = island

(* The pool of the home is its island's, or on its way, however the        *)
(* changes of island, the refreshes and the answers interleave; unless its *)
(* load failed, or a search has overtaken it: nobody asks for it again     *)
(* then (new_home_screen.dart:508 says they are never out of step).        *)
PoolIsTheIslands ==
  \/ home.island = island
  \/ \E s \in Slots : requests[s].what = "pool" /\ requests[s].newest
                      /\ requests[s].island = island
  \/ "pool" \in lost

(* The results on screen are those of what the list last asked, for the    *)
(* island it was opened for: no late answer to an older search, nor to     *)
(* another screen's, takes their place.                                    *)
ResultsAreItsOwn ==
  Showing(search) /\ ~Pooled(search) /\ search.asked # NoQuery /\ cubit.is = "results"
    => cubit.query = search.asked /\ cubit.island = search.island

(* What pull to refresh brings is no older than the server was when the    *)
(* cache was emptied, whatever the map reads and writes meanwhile.         *)
PullIsFresh == home.version >= home.due

(* The map of the tab shows its island's sites, unless the answer for      *)
(* another one came after the change: the cubit has no sequence number.    *)
SitesAreTheIslands == tab.phase = "ready" => tab.rows = island \/ crossed

(* Who waits for an answer, with nothing else to show; a list whose cubit  *)
(* the home's own reload has taken waits for nothing.                      *)
Waits == /\ Showing(search) /\ ~Pooled(search) /\ cubit.is \notin {"results", "error"}
         /\ "search" \notin lost
TabLoads    == tab.phase = "loading"
NearbyLoads == nearby.up /\ nearby.phase = "loading"
=============================================================================

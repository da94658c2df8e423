--------------------------- MODULE RestaurantsProofs ---------------------------
(***************************************************************************)
(* Theorems about Restaurants, for any islands, queries and versions of    *)
(* the lists, and any number of calls in flight.                           *)
(***************************************************************************)
EXTENDS Restaurants, TLAPS

USE CacheAssumption, ListsAssumption, SitesAssumption

(* One request at most is the newest, and the newest pool is the island's. *)
RequestsSound ==
  /\ \A s, t \in Slots : requests[s].newest /\ requests[t].newest => s = t
  /\ \A s \in Slots :
       /\ requests[s].what = "pool" => requests[s].island \in Islands
       /\ requests[s].what = "pool" /\ requests[s].newest => requests[s].island = island

(* The newest search is the one the list has asked for, and so are the     *)
(* results the cubit holds.                                                *)
SearchSound ==
  search.asked # NoQuery =>
    /\ \A s \in Slots : requests[s].what = "find" /\ requests[s].newest
         => requests[s].query = search.asked /\ requests[s].island = search.island
    /\ cubit.is = "results" => cubit.query = search.asked /\ cubit.island = search.island

(* Nothing that is or will be written into the copy of island i is older   *)
(* than version d.                                                         *)
CopyFresh(i, d) ==
  /\ d \in Found /\ d <= server
  /\ cached[i] # Nothing => d <= cached[i]
  /\ renewing[i].at = "back" => d <= renewing[i].version

Carries(f, i, d) == f.island = i /\ f.at = "back" => d <= f.version

(* While the pool of a pull is on its way.                                 *)
PoolFresh ==
  \A s \in Slots : requests[s].what = "pool" /\ requests[s].newest =>
    /\ CopyFresh(requests[s].island, requests[s].due)
    /\ requests[s].at = "rest" => requests[s].due <= requests[s].version
    /\ \A t \in Slots : Carries(requests[t], requests[s].island, requests[s].due)
    /\ \A t \in LoadSlots : Carries(loads[t], requests[s].island, requests[s].due)

LoadsSound == \A s \in LoadSlots : ~Free(s) => loads[s].island \in Islands

ListsInv ==
  /\ TypeOK /\ RequestsSound /\ SearchSound /\ PoolIsTheIslands
  /\ PoolFresh /\ PullIsFresh
  /\ LoadsSound /\ SitesAreTheIslands

-----------------------------------------------------------------------------
(* The records.                                                            *)

LoadRec == [at : {"no", "clear", "cache", "net", "back", "rest"},
            island : Islands \cup {NoIsland}, version : Found,
            by : {"nobody", "tab", "nearby", "gone"}]

SearchRec == [up : BOOLEAN, island : Islands \cup {NoIsland}, pool : BOOLEAN,
              today : BOOLEAN, text : BOOLEAN, filters : BOOLEAN, searched : BOOLEAN,
              typing : BOOLEAN, asked : Queries \cup {NoQuery}]

Marks == {"initial", "loading", "all", "results", "error"}

LEMMA TypesAre ==
  TypeOK <=>
    /\ CacheTypeOK /\ SitesTypeOK /\ tab.island = island
    /\ loads \in [LoadSlots -> LoadRec]
    /\ island \in Islands
    /\ cubit \in [is : Marks, island : Islands \cup {NoIsland}, query : Queries \cup {NoQuery}]
    /\ requests \in [Slots -> Asks]
    /\ home \in [island : Islands \cup {NoIsland}, version : Found, due : Found]
    /\ pull \in BOOLEAN /\ search \in SearchRec
    /\ listas \in Islands \cup {NoIsland} /\ lost \subseteq {"pool", "search"}
BY DEF TypeOK, ListsTypeOK, SitesTypeOK, LoadRec, SearchRec, Marks

LEMMA Numbers ==
  /\ Nothing \in Found /\ Nothing = 0 /\ 1 \in Versions
  /\ \A v \in Found : v \in Nat /\ 0 <= v
  /\ \A v \in Versions : v \in Found /\ v \in Nat /\ v # Nothing
BY DEF Nothing, Found, Versions

LEMMA NoRequestIs == NoRequest \in Asks /\ NoRequest.what = "none" /\ ~NoRequest.newest
                     /\ NoRequest.at = "no"
BY Numbers DEF NoRequest, Asks

LEMMA PoolIs ==
  ASSUME NEW i \in Islands, NEW due \in Found
  PROVE  /\ Pool(i, due) \in Asks /\ Pool(i, due).what = "pool" /\ Pool(i, due).newest
         /\ Pool(i, due).island = i /\ Pool(i, due).due = due /\ Pool(i, due).at = "cache"
BY NoRequestIs DEF Pool, Asks

LEMMA FindIs ==
  ASSUME NEW i \in Islands \cup {NoIsland}, NEW q \in Queries
  PROVE  /\ Find(i, q) \in Asks /\ Find(i, q).what = "find" /\ Find(i, q).newest
         /\ Find(i, q).island = i /\ Find(i, q).query = q /\ Find(i, q).at = "find"
BY NoRequestIs DEF Find, Asks

LEMMA ShowsIs ==
  ASSUME NEW is \in Marks
  PROVE  /\ Shows(is) \in [is : Marks, island : Islands \cup {NoIsland},
                           query : Queries \cup {NoQuery}]
         /\ Shows(is).is = is
BY DEF Shows

LEMMA PassedOver ==
  ASSUME NEW r \in Asks
  PROVE  LET o == [r EXCEPT !.newest = FALSE]
         IN  /\ o \in Asks /\ ~o.newest /\ o.what = r.what
             /\ o.island = r.island /\ o.at = r.at /\ o.version = r.version
<1> DEFINE o == [r EXCEPT !.newest = FALSE]
<1>1. o \in Asks
  BY DEF Asks
<1>2. o.newest = FALSE /\ o.what = r.what /\ o.island = r.island
  BY DEF Asks
<1>3. o.at = r.at /\ o.version = r.version
  BY DEF Asks
<1>4. QED
  BY <1>1, <1>2, <1>3

(* A request takes the sequence number of all the others.                  *)
LEMMA Begun ==
  ASSUME requests \in [Slots -> Asks], NEW r \in Asks, r.newest, Begin(r)
  PROVE  /\ requests' \in [Slots -> Asks] /\ cubit' = Shows("loading")
         /\ \E s \in Slots : requests'[s] = r
         /\ \A s, t \in Slots : requests'[s].newest /\ requests'[t].newest => s = t
         /\ \A s \in Slots :
              \/ requests'[s] = r
              \/ /\ ~requests'[s].newest /\ requests'[s].what = requests[s].what
                 /\ requests'[s].island = requests[s].island
                 /\ requests'[s].at = requests[s].at
                 /\ requests'[s].version = requests[s].version
<1>1. PICK s \in Slots :
        requests' = [t \in Slots |-> IF t = s THEN r
                                     ELSE [requests[t] EXCEPT !.newest = FALSE]]
  BY DEF Begin
<1>2. \A t \in Slots : requests[t] \in Asks
  OBVIOUS
<1>3. \A t \in Slots : LET o == [requests[t] EXCEPT !.newest = FALSE]
                       IN  /\ o \in Asks /\ ~o.newest /\ o.what = requests[t].what
                           /\ o.island = requests[t].island /\ o.at = requests[t].at
                           /\ o.version = requests[t].version
  BY <1>2, PassedOver
<1>4. requests'[s] = r /\ \A t \in Slots : t # s =>
         requests'[t] = [requests[t] EXCEPT !.newest = FALSE]
  BY <1>1
<1>5. requests' \in [Slots -> Asks]
  BY <1>1, <1>3
<1>6. \A t \in Slots : t # s => ~requests'[t].newest
  BY <1>3, <1>4
<1>7. \A a, b \in Slots : requests'[a].newest /\ requests'[b].newest => a = b
  BY <1>6
<1>8. \A t \in Slots :
        \/ requests'[t] = r
        \/ /\ ~requests'[t].newest /\ requests'[t].what = requests[t].what
           /\ requests'[t].island = requests[t].island
           /\ requests'[t].at = requests[t].at
           /\ requests'[t].version = requests[t].version
  BY <1>3, <1>4
<1>9. QED
  BY <1>4, <1>5, <1>7, <1>8 DEF Begin

LEMMA EndedRequest ==
  ASSUME requests \in [Slots -> Asks], NEW s \in Slots, Ends(s)
  PROVE  /\ requests' \in [Slots -> Asks] /\ requests'[s] = NoRequest
         /\ \A t \in Slots : t # s => requests'[t] = requests[t]
BY NoRequestIs DEF Ends

-----------------------------------------------------------------------------
(* The cache.                                                              *)

Fetches == Asks \cup LoadRec

LEMMA Goes ==
  ASSUME CacheTypeOK, NEW f \in Fetches, f.island \in Islands, NEW g, GoesOn(f, g)
  PROVE  /\ CacheTypeOK' /\ server' = server
         /\ g.island = f.island /\ g.at \in {"net", "back", "rest"} /\ g.version \in Found
<1>1. f.version \in Found
  BY DEF Fetches, Asks, LoadRec
<1>2. CASE ReadsCache(f, g)
  <2>1. \/ g = [f EXCEPT !.at = "rest", !.version = cached[f.island]]
        \/ g = [f EXCEPT !.at = "net"]
    BY <1>2 DEF ReadsCache
  <2>2. cached[f.island] \in Found
    BY DEF CacheTypeOK
  <2>3. /\ g.island = f.island /\ g.at \in {"net", "back", "rest"} /\ g.version \in Found
    BY <1>1, <2>1, <2>2 DEF Fetches, Asks, LoadRec
  <2>4. UNCHANGED <<server, cached>>
        /\ (UNCHANGED renewing \/ renewing' = [renewing EXCEPT ![f.island].at = "net"])
    BY <1>2 DEF ReadsCache
  <2>5. CacheTypeOK'
    BY <2>4 DEF CacheTypeOK
  <2>6. QED
    BY <2>3, <2>4, <2>5
<1>3. CASE IsHandled(f, g)
  BY <1>1, <1>3, Numbers DEF IsHandled, CacheTypeOK, cacheVars, Fetches, Asks, LoadRec
<1>4. CASE IsWritten(f, g)
  <2>1. /\ cached' = [cached EXCEPT ![f.island] = f.version]
        /\ g = [f EXCEPT !.at = "rest"] /\ UNCHANGED <<server, renewing>>
    BY <1>4 DEF IsWritten
  <2>2. CacheTypeOK'
    BY <1>1, <2>1 DEF CacheTypeOK
  <2>3. /\ g.island = f.island /\ g.at = "rest" /\ g.version \in Found
    BY <1>1, <2>1 DEF Fetches, Asks, LoadRec
  <2>4. QED
    BY <2>1, <2>2, <2>3
<1>5. CASE FallsBack(f, g)
  <2>1. g = [f EXCEPT !.at = "rest", !.version = cached[f.island]] /\ UNCHANGED cacheVars
        /\ cached[f.island] \in Found
    BY <1>5 DEF FallsBack, CacheTypeOK
  <2>2. CacheTypeOK' /\ server' = server
    BY <2>1 DEF CacheTypeOK, cacheVars
  <2>3. /\ g.island = f.island /\ g.at = "rest" /\ g.version \in Found
    BY <1>1, <2>1 DEF Fetches, Asks, LoadRec
  <2>4. QED
    BY <2>2, <2>3
<1>6. QED
  BY <1>2, <1>3, <1>4, <1>5 DEF GoesOn

(* Nothing older gets into the copy through a fetch, nor out of it.        *)
LEMMA GoesFresh ==
  ASSUME CacheTypeOK, NEW f \in Fetches, f.island \in Islands, NEW g, GoesOn(f, g),
         NEW i \in Islands, NEW d, CopyFresh(i, d), Carries(f, i, d)
  PROVE  /\ CopyFresh(i, d)' /\ Carries(g, i, d)
         /\ g.island = i /\ g.at = "rest" => d <= g.version
<1>1. /\ f.version \in Found /\ d \in Nat /\ server \in Nat /\ d <= server
      /\ cached \in [Islands -> Found]
      /\ renewing \in [Islands -> [at : {"no", "net", "back"}, version : Found]]
  BY Numbers DEF CacheTypeOK, CopyFresh, Fetches, Asks, LoadRec
<1>2. cached[f.island] # Nothing /\ f.island = i => d <= cached[f.island]
  BY DEF CopyFresh
<1>3. CASE ReadsCache(f, g)
  <2>1. \/ cached[f.island] # Nothing
           /\ g = [f EXCEPT !.at = "rest", !.version = cached[f.island]]
        \/ g = [f EXCEPT !.at = "net"]
    BY <1>3 DEF ReadsCache
  <2>2. Carries(g, i, d) /\ (g.island = i /\ g.at = "rest" => d <= g.version)
    BY <1>1, <1>2, <2>1 DEF Fetches, Asks, LoadRec, Carries
  <2>3. UNCHANGED <<server, cached>>
        /\ (UNCHANGED renewing \/ renewing' = [renewing EXCEPT ![f.island].at = "net"])
    BY <1>3 DEF ReadsCache
  <2>4. renewing'[i].at = "back" => d <= renewing'[i].version
    BY <1>1, <2>3 DEF CopyFresh
  <2>5. CopyFresh(i, d)'
    BY <2>3, <2>4 DEF CopyFresh
  <2>6. QED
    BY <2>2, <2>5
<1>4. CASE IsHandled(f, g)
  <2>1. g = [f EXCEPT !.at = "back", !.version = server] /\ UNCHANGED cacheVars
    BY <1>4 DEF IsHandled
  <2>2. g.at = "back" /\ g.version = server
    BY <2>1 DEF Fetches, Asks, LoadRec
  <2>3. QED
    BY <1>1, <2>1, <2>2 DEF Carries, CopyFresh, cacheVars
<1>5. CASE IsWritten(f, g)
  <2>1. /\ f.at = "back" /\ cached' = [cached EXCEPT ![f.island] = f.version]
        /\ g = [f EXCEPT !.at = "rest"] /\ UNCHANGED <<server, renewing>>
    BY <1>5 DEF IsWritten
  <2>2. g.at = "rest" /\ g.version = f.version /\ g.island = f.island
    BY <2>1 DEF Fetches, Asks, LoadRec
  <2>3. f.island = i => d <= f.version
    BY <2>1 DEF Carries
  <2>4. cached'[i] # Nothing => d <= cached'[i]
    BY <1>1, <2>1, <2>3 DEF CopyFresh
  <2>5. QED
    BY <2>1, <2>2, <2>3, <2>4 DEF Carries, CopyFresh
<1>6. CASE FallsBack(f, g)
  <2>1. g = [f EXCEPT !.at = "rest", !.version = cached[f.island]] /\ UNCHANGED cacheVars
        /\ cached[f.island] # Nothing
    BY <1>6 DEF FallsBack
  <2>2. g.at = "rest" /\ g.version = cached[f.island] /\ g.island = f.island
    BY <2>1 DEF Fetches, Asks, LoadRec
  <2>3. QED
    BY <1>2, <2>1, <2>2 DEF Carries, CopyFresh, cacheVars
<1>7. QED
  BY <1>3, <1>4, <1>5, <1>6 DEF GoesOn

-----------------------------------------------------------------------------
(* The initial states, and the changes of island.                          *)

LEMMA InitHolds == Init => ListsInv
<1> SUFFICES ASSUME Init PROVE ListsInv
  OBVIOUS
<1>1. Pool(island, Nothing) \in Asks /\ Pool(island, Nothing).what = "pool"
      /\ Pool(island, Nothing).newest /\ Pool(island, Nothing).island = island
      /\ Pool(island, Nothing).due = Nothing /\ Pool(island, Nothing).at = "cache"
  BY PoolIs, Numbers DEF Init
<1>2. /\ requests = [s \in Slots |-> IF s = 1 THEN Pool(island, Nothing) ELSE NoRequest]
      /\ island \in Islands /\ cubit = Shows("loading")
      /\ home = [island |-> NoIsland, version |-> Nothing, due |-> Nothing]
      /\ pull = FALSE /\ search = NoSearch /\ listas = NoIsland /\ lost = {}
  BY DEF Init
<1>3. /\ requests \in [Slots -> Asks]
      /\ \A s \in Slots : \/ requests[s] = Pool(island, Nothing) /\ s = 1
                          \/ requests[s] = NoRequest
  BY <1>1, <1>2, NoRequestIs
<1>4. CacheTypeOK /\ server = 1
  <2>1. server = 1 /\ cached \in [Islands -> {Nothing, 1}] /\ renewing = [i \in Islands |-> Idle]
    BY DEF Init, CacheInit
  <2>2. Idle \in [at : {"no", "net", "back"}, version : Found] /\ Idle.at = "no"
    BY Numbers DEF Idle
  <2>3. QED
    BY <2>1, <2>2, Numbers DEF CacheTypeOK
<1>5. \A i \in Islands : renewing[i].at = "no"
  BY DEF Init, CacheInit, Idle
<1>6. /\ SitesTypeOK /\ tab.island = island /\ LoadsSound /\ SitesAreTheIslands
      /\ loads \in [LoadSlots -> LoadRec] /\ \A s \in LoadSlots : loads[s].at # "back"
  <2>1. /\ tab = [island |-> island, rows |-> NoIsland, phase |-> "loading"]
        /\ nearby = Closed /\ emitted = NoIsland /\ crossed = FALSE
        /\ loads = [s \in LoadSlots |-> IF s = 1 THEN [at |-> "cache", island |-> island,
                                                version |-> Nothing, by |-> "tab"]
                                 ELSE NoLoad]
    BY DEF Init
  <2>2. loads \in [LoadSlots -> LoadRec]
    BY <1>2, <2>1, Numbers DEF LoadRec, NoLoad
  <2>3. \A s \in LoadSlots : loads[s].at # "back" /\ (~Free(s) => loads[s].island \in Islands)
    BY <1>2, <2>1 DEF NoLoad, Free
  <2>4. QED
    BY <1>2, <2>1, <2>2, <2>3
       DEF SitesTypeOK, Phases, Closed, LoadRec, LoadsSound, SitesAreTheIslands
<1>7. search \in SearchRec /\ search.asked = NoQuery
  BY <1>2 DEF NoSearch, SearchRec
<1>8. cubit \in [is : Marks, island : Islands \cup {NoIsland}, query : Queries \cup {NoQuery}]
  BY <1>2, ShowsIs DEF Marks
<1>9. home \in [island : Islands \cup {NoIsland}, version : Found, due : Found]
      /\ home.version = home.due /\ home.version \in Nat
  BY <1>2, Numbers
<1>10. TypeOK
  BY <1>2, <1>3, <1>4, <1>6, <1>7, <1>8, <1>9, TypesAre
<1>11. RequestsSound /\ SearchSound /\ PullIsFresh
  BY <1>1, <1>2, <1>3, <1>7, <1>9, NoRequestIs DEF RequestsSound, SearchSound, PullIsFresh
<1>12. PoolFresh
  <2>1. \A s \in Slots : requests[s].what = "pool" /\ requests[s].newest =>
          requests[s] = Pool(island, Nothing)
    BY <1>3, NoRequestIs
  <2>2. CopyFresh(island, Nothing)
    BY <1>2, <1>4, <1>5, Numbers DEF CopyFresh, CacheTypeOK
  <2>3. \A t \in Slots : requests[t].at # "back"
    BY <1>1, <1>3, NoRequestIs
  <2>4. QED
    BY <1>1, <1>6, <2>1, <2>2, <2>3 DEF PoolFresh, Carries
<1>13. PoolIsTheIslands
  <2>1. 1 \in Slots
    BY DEF Slots
  <2>2. QED
    BY <1>1, <1>2, <2>1 DEF PoolIsTheIslands
<1>14. QED
  BY <1>6, <1>10, <1>11, <1>12, <1>13 DEF ListsInv

(* A load of a map takes a free slot.                                      *)
LEMMA LoadBegun ==
  ASSUME loads \in [LoadSlots -> LoadRec], LoadsSound, NEW by \in {"tab", "nearby"},
         NEW i \in Islands, NEW at \in {"cache", "clear"}, Load(by, i, at)
  PROVE  /\ loads' \in [LoadSlots -> LoadRec] /\ LoadsSound'
         /\ \A t \in LoadSlots : loads'[t] = loads[t] \/ loads'[t].at # "back"
<1> DEFINE g == [NoLoad EXCEPT !.at = at, !.island = i, !.by = by]
<1>1. PICK s \in LoadSlots : loads' = [loads EXCEPT ![s] = g]
  BY DEF Load
<1>2. g \in LoadRec /\ g.at # "back" /\ g.island = i
  BY Numbers DEF NoLoad, LoadRec
<1> HIDE DEF g
<1>3. /\ loads' \in [LoadSlots -> LoadRec] /\ loads'[s] = g
      /\ \A t \in LoadSlots : t # s => loads'[t] = loads[t]
  BY <1>1, <1>2
<1>4. QED
  BY <1>2, <1>3 DEF LoadsSound, Free

(* The home asks for the pool of the island.                               *)
LEMMA PoolAsked ==
  ASSUME ListsInv, NEW i \in Islands, NEW due \in Found, LoadPool(i, due), island' = i,
         UNCHANGED <<home, search, listas>>, pull' \in BOOLEAN,
         CacheTypeOK', SitesTypeOK', tab'.island = i, loads' \in [LoadSlots -> LoadRec],
         LoadsSound', SitesAreTheIslands', CopyFresh(i, due)',
         \A t \in Slots : Carries(requests[t], i, due),
         \A t \in LoadSlots : Carries(loads'[t], i, due)
  PROVE  ListsInv'
<1> DEFINE r == Pool(i, due)
<1>1. /\ r \in Asks /\ r.what = "pool" /\ r.newest /\ r.island = i /\ r.due = due
      /\ r.at = "cache" /\ Begin(r)
      /\ lost' \subseteq {"pool", "search"}
  BY PoolIs DEF LoadPool
<1> HIDE DEF r
<1>2. /\ requests \in [Slots -> Asks] /\ search \in SearchRec /\ listas \in Islands \cup {NoIsland}
      /\ home \in [island : Islands \cup {NoIsland}, version : Found, due : Found]
  BY TypesAre DEF ListsInv
<1>3. /\ requests' \in [Slots -> Asks] /\ cubit' = Shows("loading")
      /\ \E s \in Slots : requests'[s] = r
      /\ \A s, t \in Slots : requests'[s].newest /\ requests'[t].newest => s = t
      /\ \A s \in Slots :
           \/ requests'[s] = r
           \/ /\ ~requests'[s].newest /\ requests'[s].what = requests[s].what
              /\ requests'[s].island = requests[s].island
              /\ requests'[s].at = requests[s].at
              /\ requests'[s].version = requests[s].version
  BY <1>1, <1>2, Begun
<1>4. cubit' \in [is : Marks, island : Islands \cup {NoIsland}, query : Queries \cup {NoQuery}]
      /\ cubit'.is = "loading"
  BY <1>3, ShowsIs DEF Marks
<1>5. TypeOK'
  BY <1>1, <1>2, <1>3, <1>4
     DEF TypeOK, ListsTypeOK, SearchRec, Marks
<1>6. RequestsSound'
  BY <1>1, <1>3 DEF ListsInv, RequestsSound
<1>7. SearchSound'
  BY <1>1, <1>3, <1>4 DEF SearchSound
<1>8. PoolIsTheIslands'
  BY <1>1, <1>3 DEF PoolIsTheIslands
<1>9. PoolFresh'
  <2>1. \A s \in Slots : requests'[s].newest => requests'[s] = r
    BY <1>3
  <2>2. \A t \in Slots : Carries(requests'[t], i, due)
    BY <1>1, <1>3 DEF Carries
  <2>3. QED
    BY <1>1, <2>1, <2>2 DEF PoolFresh
<1>10. PullIsFresh'
  BY DEF ListsInv, PullIsFresh
<1>11. QED
  BY <1>5, <1>6, <1>7, <1>8, <1>9, <1>10 DEF ListsInv

LEMMA ChangeStep == ASSUME ListsInv, NEW i \in Islands, ChangeIsland(i) PROVE ListsInv'
<1>1. /\ island' = i /\ LoadPool(i, Nothing) /\ UNCHANGED <<home, pull, search, listas, cacheVars>>
      /\ tab' = Emptied(i) /\ crossed' = FALSE /\ Load("tab", i, "cache")
      /\ UNCHANGED <<nearby, emitted>>
  BY DEF ChangeIsland, TabTo
<1>2. /\ CacheTypeOK /\ SitesTypeOK /\ LoadsSound /\ loads \in [LoadSlots -> LoadRec]
      /\ requests \in [Slots -> Asks] /\ pull \in BOOLEAN
  BY TypesAre DEF ListsInv
<1>3. /\ loads' \in [LoadSlots -> LoadRec] /\ LoadsSound'
  BY <1>1, <1>2, LoadBegun
<1>4. tab' \in [island : Islands, rows : Islands \cup {NoIsland}, phase : Phases]
      /\ tab'.island = i /\ tab'.phase = "loading"
  BY <1>1 DEF Emptied, Phases
<1>5. SitesTypeOK' /\ SitesAreTheIslands'
  BY <1>1, <1>2, <1>3, <1>4 DEF SitesTypeOK, SitesAreTheIslands, LoadRec
<1>6. CacheTypeOK' /\ CopyFresh(i, Nothing)'
  BY <1>1, <1>2, Numbers DEF CacheTypeOK, CopyFresh, cacheVars
<1>7. (\A t \in Slots : Carries(requests[t], i, Nothing))
      /\ (\A t \in LoadSlots : Carries(loads'[t], i, Nothing))
  BY <1>2, <1>3, Numbers DEF Carries, Asks, LoadRec
<1>8. QED
  BY <1>1, <1>2, <1>3, <1>4, <1>5, <1>6, <1>7, Numbers, PoolAsked

LEMMA PullStep == ASSUME ListsInv, Lists(Pull) PROVE ListsInv'
<1> DEFINE due == IF Fetching(island) THEN Nothing ELSE server
<1>1. /\ UNCHANGED <<island, mapVars>> /\ pull' = FALSE /\ cached' = Invalidated
      /\ LoadPool(island, due) /\ UNCHANGED <<home, search, listas, server, renewing>>
  BY DEF Lists, Pull, PullReloads
<1>2. /\ CacheTypeOK /\ SitesTypeOK /\ LoadsSound /\ loads \in [LoadSlots -> LoadRec]
      /\ requests \in [Slots -> Asks] /\ island \in Islands /\ tab.island = island
  BY TypesAre DEF ListsInv
<1>3. due \in Found /\ due <= server /\ (due = Nothing \/ ~Fetching(island))
  BY <1>2, Numbers DEF CacheTypeOK
<1>4. CacheTypeOK' /\ \A i \in Islands : cached'[i] = Nothing
  BY <1>1, <1>2, Numbers DEF CacheTypeOK, Invalidated
<1>5. /\ ~Fetching(island) => renewing[island].at # "back"
      /\ ~Fetching(island) => \A t \in Slots : Carries(requests[t], island, due)
      /\ ~Fetching(island) => \A t \in LoadSlots : Carries(loads[t], island, due)
  BY DEF Fetching, Idle, OnTheWire, Carries
<1>6. /\ due = Nothing => \A t \in Slots : Carries(requests[t], island, due)
      /\ due = Nothing => \A t \in LoadSlots : Carries(loads[t], island, due)
      /\ due = Nothing => due <= renewing[island].version
  BY <1>2, Numbers DEF Carries, Asks, LoadRec, CacheTypeOK
<1> HIDE DEF due
<1>7. /\ \A t \in Slots : Carries(requests[t], island, due)
      /\ \A t \in LoadSlots : Carries(loads[t], island, due)
      /\ renewing[island].at = "back" => due <= renewing[island].version
  BY <1>3, <1>5, <1>6
<1>8. PICK i \in Islands, d \in Found : i = island /\ d = due
  BY <1>2, <1>3
<1>9. UNCHANGED <<tab, nearby, emitted, loads, crossed, island>>
  BY <1>1 DEF mapVars
<1>10. CopyFresh(i, d)'
  BY <1>1, <1>3, <1>4, <1>7, <1>8 DEF CopyFresh
<1>11. SitesTypeOK' /\ LoadsSound' /\ SitesAreTheIslands'
  BY <1>2, <1>9 DEF ListsInv, SitesTypeOK, LoadsSound, Free, SitesAreTheIslands
<1>12. QED
  BY <1>1, <1>2, <1>4, <1>7, <1>8, <1>9, <1>10, <1>11, PoolAsked

-----------------------------------------------------------------------------
(* What the cubit does with its answers.                                   *)

MapsStay == UNCHANGED <<island, tab, nearby, emitted, loads, crossed>>

LEMMA MapsKept ==
  ASSUME ListsInv, MapsStay
  PROVE  /\ SitesTypeOK' /\ tab'.island = island' /\ LoadsSound' /\ SitesAreTheIslands'
BY TypesAre DEF ListsInv, MapsStay, SitesTypeOK, LoadsSound, Free, SitesAreTheIslands

(* A request ends: the rest of them stand as they were.                    *)
LEMMA RequestEnds ==
  ASSUME ListsInv, MapsStay, UNCHANGED cacheVars, NEW s \in Slots, Ends(s),
         UNCHANGED <<pull, search, listas>>,
         lost' \subseteq {"pool", "search"}, lost \subseteq lost',
         requests[s].what = "pool" /\ requests[s].newest
           => "pool" \in lost' \/ home'.island = island,
         home' = home \/ home'.island = island,
         home' \in [island : Islands \cup {NoIsland}, version : Found, due : Found],
         PullIsFresh',
         cubit' \in [is : Marks, island : Islands \cup {NoIsland},
                     query : Queries \cup {NoQuery}],
         cubit' = cubit \/ cubit'.is # "results"
           \/ (search.asked # NoQuery
                 => cubit'.query = search.asked /\ cubit'.island = search.island)
  PROVE  ListsInv'
<1>1. /\ requests \in [Slots -> Asks] /\ CacheTypeOK /\ island \in Islands
      /\ RequestsSound /\ SearchSound /\ PoolIsTheIslands /\ PoolFresh
  BY TypesAre DEF ListsInv
<1>2. /\ requests' \in [Slots -> Asks] /\ requests'[s] = NoRequest
      /\ \A t \in Slots : t # s => requests'[t] = requests[t]
  BY <1>1, EndedRequest
<1>3. \A t \in Slots : requests'[t].newest => t # s /\ requests'[t] = requests[t]
  BY <1>2, NoRequestIs
<1>4. \A t \in Slots : requests'[t].what \in {"pool", "find"} => t # s /\ requests'[t] = requests[t]
  BY <1>2, NoRequestIs
<1>5. CacheTypeOK'
  BY <1>1 DEF CacheTypeOK, cacheVars
<1>6. TypeOK'
  BY <1>2, <1>5, MapsKept, TypesAre DEF ListsInv, MapsStay, TypeOK, ListsTypeOK, Marks
<1>7. RequestsSound'
  BY <1>1, <1>3, <1>4 DEF RequestsSound, MapsStay
<1>8. SearchSound'
  <2>1. ASSUME search.asked # NoQuery, NEW t \in Slots, requests'[t].what = "find",
               requests'[t].newest
        PROVE  requests'[t].query = search.asked /\ requests'[t].island = search.island
    BY <1>1, <1>3, <2>1 DEF SearchSound
  <2>2. search.asked # NoQuery /\ cubit'.is = "results"
          => cubit'.query = search.asked /\ cubit'.island = search.island
    BY <1>1 DEF SearchSound
  <2>3. QED
    BY <2>1, <2>2 DEF SearchSound
<1>9. PoolIsTheIslands'
  <2>1. CASE home.island = island \/ "pool" \in lost
    BY <2>1 DEF PoolIsTheIslands, MapsStay
  <2>2. CASE \E t \in Slots : requests[t].what = "pool" /\ requests[t].newest
                              /\ requests[t].island = island
    <3>1. PICK t \in Slots : requests[t].what = "pool" /\ requests[t].newest
                             /\ requests[t].island = island
      BY <2>2
    <3>2. CASE t = s
      BY <3>1, <3>2 DEF PoolIsTheIslands, MapsStay
    <3>3. CASE t # s
      BY <1>2, <3>1, <3>3 DEF PoolIsTheIslands, MapsStay
    <3>4. QED
      BY <3>2, <3>3
  <2>3. QED
    BY <1>1, <2>1, <2>2 DEF PoolIsTheIslands
<1>10. PoolFresh'
  <2>1. SUFFICES ASSUME NEW t \in Slots, requests'[t].what = "pool", requests'[t].newest
                 PROVE  /\ CopyFresh(requests[t].island, requests[t].due)'
                        /\ requests'[t].at = "rest" => requests'[t].due <= requests'[t].version
                        /\ \A u \in Slots : Carries(requests'[u], requests'[t].island, requests'[t].due)
                        /\ \A u \in LoadSlots : Carries(loads'[u], requests'[t].island, requests'[t].due)
    BY DEF PoolFresh
  <2>2. requests'[t] = requests[t]
    BY <1>3, <2>1
  <2>3. CopyFresh(requests[t].island, requests[t].due)
        /\ (requests[t].at = "rest" => requests[t].due <= requests[t].version)
        /\ (\A u \in Slots : Carries(requests[u], requests[t].island, requests[t].due))
        /\ (\A u \in LoadSlots : Carries(loads[u], requests[t].island, requests[t].due))
    BY <1>1, <2>1, <2>2 DEF PoolFresh
  <2>4. CopyFresh(requests[t].island, requests[t].due)'
    BY <2>2, <2>3 DEF CopyFresh, cacheVars
  <2>5. \A u \in Slots : Carries(requests'[u], requests[t].island, requests[t].due)
    BY <1>2, <2>3, NoRequestIs DEF Carries
  <2>6. QED
    BY <2>2, <2>3, <2>4, <2>5 DEF MapsStay
<1>11. QED
  BY <1>6, <1>7, <1>8, <1>9, <1>10, MapsKept DEF ListsInv

(* The first page of a pool, which goes on or is dropped.                  *)
LEMMA FirstPageStep ==
  ASSUME ListsInv, MapsStay, NEW s \in Slots, FirstPage(s) PROVE ListsInv'
<1>1. /\ requests \in [Slots -> Asks] /\ CacheTypeOK /\ island \in Islands
      /\ RequestsSound /\ SearchSound /\ PoolIsTheIslands /\ PoolFresh /\ PullIsFresh
  BY TypesAre DEF ListsInv
<1>2. PICK a \in {"net", "back", "rest"}, v \in Found :
        LET r == [requests[s] EXCEPT !.at = a, !.version = v]
        IN  /\ GoesOn(requests[s], r)
            /\ IF r.at = "rest" /\ Overtaken(s) THEN Ends(s)
               ELSE requests' = [requests EXCEPT ![s] = r]
  BY DEF FirstPage
<1> DEFINE r == [requests[s] EXCEPT !.at = a, !.version = v]
<1>3. requests[s].what = "pool" /\ UNCHANGED <<cubit, home, pull, search, listas, lost>>
  BY DEF FirstPage
<1>4. /\ requests[s] \in Asks /\ requests[s].island \in Islands
      /\ r \in Asks /\ r.what = "pool" /\ r.newest = requests[s].newest
      /\ r.island = requests[s].island /\ r.due = requests[s].due
      /\ r.query = requests[s].query
  <2>1. requests[s] \in Asks /\ requests[s].island \in Islands
    BY <1>1, <1>3 DEF RequestsSound
  <2>2. r \in Asks
    BY <2>1 DEF Asks
  <2>3. r.what = "pool" /\ r.newest = requests[s].newest /\ r.island = requests[s].island
    BY <1>3, <2>1 DEF Asks
  <2>4. r.due = requests[s].due /\ r.query = requests[s].query
    BY <2>1 DEF Asks
  <2>5. QED
    BY <2>1, <2>2, <2>3, <2>4
<1>5. /\ GoesOn(requests[s], r)
      /\ \/ requests' = [requests EXCEPT ![s] = r]
         \/ ~requests[s].newest /\ Ends(s)
  BY <1>2 DEF Overtaken
<1> HIDE DEF r
<1>6. CacheTypeOK' /\ server' = server
  BY <1>1, <1>4, <1>5, Goes DEF Fetches
<1>7. /\ requests' \in [Slots -> Asks]
      /\ \A t \in Slots : t # s => requests'[t] = requests[t]
      /\ requests'[s] = r \/ (~requests[s].newest /\ requests'[s] = NoRequest)
  BY <1>1, <1>4, <1>5, EndedRequest
<1>8. TypeOK'
  BY <1>3, <1>6, <1>7, MapsKept, TypesAre DEF ListsInv, MapsStay, TypeOK, ListsTypeOK, Marks
<1>9. RequestsSound'
  <2>1. \A t \in Slots : requests'[t].newest => requests[t].newest
    BY <1>4, <1>7, NoRequestIs
  <2>2. \A t \in Slots : requests'[t].what = "pool" =>
           requests[t].what = "pool" /\ requests'[t].island = requests[t].island
    BY <1>3, <1>4, <1>7, NoRequestIs
  <2>3. QED
    BY <1>1, <2>1, <2>2 DEF RequestsSound, MapsStay
<1>10. SearchSound'
  <2>1. \A t \in Slots : requests'[t].what = "find" => requests'[t] = requests[t]
    BY <1>4, <1>7, NoRequestIs
  <2>2. QED
    BY <1>1, <1>3, <2>1 DEF SearchSound
<1>11. PoolIsTheIslands'
  <2>1. \A t \in Slots : requests[t].newest /\ requests[t].what = "pool" =>
           requests'[t].newest /\ requests'[t].what = "pool"
           /\ requests'[t].island = requests[t].island
    BY <1>4, <1>7
  <2>2. QED
    BY <1>1, <1>3, <2>1 DEF PoolIsTheIslands, MapsStay
<1>12. PullIsFresh'
  BY <1>1, <1>3 DEF PullIsFresh
<1>13. PoolFresh'
  <2>1. SUFFICES ASSUME NEW t \in Slots, requests'[t].what = "pool", requests'[t].newest,
                        NEW i, NEW d, i = requests'[t].island, d = requests'[t].due
                 PROVE  /\ CopyFresh(i, d)'
                        /\ requests'[t].at = "rest" => d <= requests'[t].version
                        /\ \A u \in Slots : Carries(requests'[u], i, d)
                        /\ \A u \in LoadSlots : Carries(loads'[u], i, d)
    BY DEF PoolFresh
  <2>2. /\ requests[t].what = "pool" /\ requests[t].newest
        /\ requests[t].island = i /\ requests[t].due = d
    BY <1>3, <1>4, <1>7, <2>1, NoRequestIs
  <2>3. CopyFresh(i, d)
        /\ (requests[t].at = "rest" => d <= requests[t].version)
        /\ (\A u \in Slots : Carries(requests[u], i, d))
        /\ (\A u \in LoadSlots : Carries(loads[u], i, d)) /\ i \in Islands
    BY <1>1, <2>2 DEF PoolFresh, RequestsSound
  <2>4. /\ CopyFresh(i, d)' /\ Carries(r, i, d)
        /\ r.island = i /\ r.at = "rest" => d <= r.version
    BY <1>1, <1>4, <1>5, <2>3, GoesFresh DEF Fetches
  <2>5. \A u \in Slots : Carries(requests'[u], i, d)
    BY <1>7, <2>3, <2>4, NoRequestIs DEF Carries
  <2>6. requests'[t].at = "rest" => d <= requests'[t].version
    BY <1>7, <2>1, <2>3, <2>4, NoRequestIs
  <2>7. QED
    BY <2>3, <2>4, <2>5, <2>6 DEF MapsStay
<1>14. QED
  BY <1>8, <1>9, <1>10, <1>11, <1>12, <1>13, MapsKept DEF ListsInv

LEMMA AnswerStep ==
  ASSUME ListsInv, MapsStay, NEW s \in Slots, Answers(s) PROVE ListsInv'
<1>1. /\ requests \in [Slots -> Asks] /\ island \in Islands /\ requests[s] \in Asks
      /\ lost \subseteq {"pool", "search"} /\ RequestsSound /\ SearchSound /\ PoolFresh
      /\ home \in [island : Islands \cup {NoIsland}, version : Found, due : Found]
      /\ cubit \in [is : Marks, island : Islands \cup {NoIsland}, query : Queries \cup {NoQuery}]
      /\ PullIsFresh
  BY TypesAre DEF ListsInv
<1>2. CASE PoolArrives(s)
  <2>1. /\ requests[s].what = "pool" /\ requests[s].at = "rest" /\ Ends(s)
        /\ UNCHANGED <<pull, search, listas, lost>> /\ UNCHANGED cacheVars
    BY <1>2 DEF PoolArrives
  <2>2. CASE Overtaken(s)
    <3>1. UNCHANGED <<cubit, home>> /\ ~requests[s].newest
      BY <1>2, <2>2 DEF PoolArrives, Overtaken
    <3>2. PullIsFresh'
      BY <1>1, <3>1 DEF PullIsFresh
    <3>3. QED
      BY <1>1, <2>1, <3>1, <3>2, RequestEnds
  <2>3. CASE ~Overtaken(s)
    <3>1. /\ cubit' = Shows("all") /\ requests[s].newest
          /\ home' = [island |-> requests[s].island, version |-> requests[s].version,
                      due |-> requests[s].due]
      BY <1>2, <2>3 DEF PoolArrives, Overtaken
    <3>2. requests[s].island = island /\ requests[s].due <= requests[s].version
          /\ requests[s].due \in Nat /\ requests[s].version \in Nat
      BY <1>1, <2>1, <3>1, Numbers DEF RequestsSound, PoolFresh, Asks
    <3>3. PullIsFresh'
      BY <3>1, <3>2 DEF PullIsFresh
    <3>4. home' \in [island : Islands \cup {NoIsland}, version : Found, due : Found]
          /\ home'.island = island
      BY <1>1, <3>1, <3>2 DEF Asks
    <3>5. cubit'.is = "all" /\ cubit' \in [is : Marks, island : Islands \cup {NoIsland},
                                            query : Queries \cup {NoQuery}]
      BY <3>1, ShowsIs DEF Marks
    <3>6. QED
      BY <1>1, <2>1, <3>3, <3>4, <3>5, RequestEnds
  <2>4. QED
    BY <2>2, <2>3
<1>3. CASE PoolFails(s)
  <2>1. /\ requests[s].what = "pool" /\ Ends(s) /\ UNCHANGED cacheVars
        /\ lost' = IF requests[s].newest THEN lost \cup {"pool"} ELSE lost
        /\ UNCHANGED <<cubit, home, pull, search, listas>>
    BY <1>3 DEF PoolFails, GivesUp
  <2>2. PullIsFresh'
    BY <1>1, <2>1 DEF PullIsFresh
  <2>3. lost' \subseteq {"pool", "search"} /\ lost \subseteq lost'
        /\ (requests[s].newest => "pool" \in lost')
    BY <1>1, <2>1
  <2>4. QED
    BY <1>1, <2>1, <2>2, <2>3, RequestEnds
<1>4. CASE FindArrives(s)
  <2>1. /\ requests[s].what = "find" /\ Ends(s)
        /\ cubit' = IF Overtaken(s) THEN cubit ELSE Results(requests[s])
        /\ UNCHANGED <<home, pull, search, listas, lost>> /\ UNCHANGED cacheVars
    BY <1>4 DEF FindArrives
  <2>2. PullIsFresh'
    BY <1>1, <2>1 DEF PullIsFresh
  <2>3. \/ cubit' = cubit
        \/ /\ requests[s].newest
           /\ cubit' = [is |-> "results", island |-> requests[s].island,
                        query |-> requests[s].query]
    BY <2>1 DEF Overtaken, Results
  <2>4. cubit' \in [is : Marks, island : Islands \cup {NoIsland}, query : Queries \cup {NoQuery}]
    BY <1>1, <2>3 DEF Asks, Marks
  <2>5. cubit' = cubit
        \/ (search.asked # NoQuery
              => cubit'.query = search.asked /\ cubit'.island = search.island)
    BY <1>1, <2>1, <2>3 DEF SearchSound
  <2>6. QED
    BY <1>1, <2>1, <2>2, <2>4, <2>5, RequestEnds
<1>5. CASE FindFails(s)
  <2>1. /\ requests[s].what = "find" /\ Ends(s)
        /\ cubit' = cubit \/ cubit' = Shows("error")
        /\ UNCHANGED <<home, pull, search, listas, lost>> /\ UNCHANGED cacheVars
    BY <1>5 DEF FindFails, ErrorShown
  <2>2. PullIsFresh'
    BY <1>1, <2>1 DEF PullIsFresh
  <2>3. cubit' \in [is : Marks, island : Islands \cup {NoIsland}, query : Queries \cup {NoQuery}]
        /\ (cubit' = cubit \/ cubit'.is # "results")
    BY <1>1, <2>1, ShowsIs DEF Marks
  <2>4. QED
    BY <1>1, <2>1, <2>2, <2>3, RequestEnds
<1>6. QED
  BY <1>2, <1>3, <1>4, <1>5, FirstPageStep DEF Answers

-----------------------------------------------------------------------------
(* The list of results, and pull to refresh.                               *)

LEMMA NothingAsked ==
  ASSUME ListsInv, MapsStay, UNCHANGED cacheVars, UNCHANGED <<cubit, requests, home>>,
         pull' \in BOOLEAN, search' \in SearchRec, listas' \in Islands \cup {NoIsland},
         lost' \subseteq {"pool", "search"}, "pool" \in lost => "pool" \in lost',
         search'.asked = NoQuery
           \/ (search'.asked = search.asked /\ search'.island = search.island)
  PROVE  ListsInv'
<1>1. /\ requests \in [Slots -> Asks] /\ CacheTypeOK /\ island \in Islands
      /\ RequestsSound /\ SearchSound /\ PoolIsTheIslands /\ PoolFresh /\ PullIsFresh
  BY TypesAre DEF ListsInv
<1>2. CacheTypeOK'
  BY <1>1 DEF CacheTypeOK, cacheVars
<1>3. TypeOK'
  BY <1>2, MapsKept, TypesAre
     DEF ListsInv, MapsStay, TypeOK, ListsTypeOK, SearchRec, Marks
<1>4. RequestsSound' /\ PullIsFresh'
  BY <1>1 DEF RequestsSound, PullIsFresh, MapsStay
<1>5. SearchSound'
  BY <1>1 DEF SearchSound
<1>6. PoolIsTheIslands'
  BY <1>1 DEF PoolIsTheIslands, MapsStay
<1>7. PoolFresh'
  BY <1>1 DEF PoolFresh, CopyFresh, MapsStay, cacheVars
<1>8. QED
  BY <1>3, <1>4, <1>5, <1>6, <1>7, MapsKept DEF ListsInv

LEMMA Searched ==
  ASSUME ListsInv, MapsStay, UNCHANGED cacheVars, UNCHANGED <<home, pull>>,
         listas' \in Islands \cup {NoIsland}, NEW l \in SearchRec, RunSearch(l)
  PROVE  ListsInv'
<1>1. /\ requests \in [Slots -> Asks] /\ CacheTypeOK /\ island \in Islands /\ pull \in BOOLEAN
      /\ home \in [island : Islands \cup {NoIsland}, version : Found, due : Found]
      /\ lost \subseteq {"pool", "search"}
      /\ RequestsSound /\ SearchSound /\ PoolIsTheIslands /\ PoolFresh /\ PullIsFresh
  BY TypesAre DEF ListsInv
<1>2. CASE Pooled(l)
  <2>1. /\ search' = [l EXCEPT !.searched = TRUE, !.asked = NoQuery]
        /\ UNCHANGED <<cubit, requests, lost>>
    BY <1>2 DEF RunSearch
  <2>2. search' \in SearchRec /\ search'.asked = NoQuery
    BY <2>1 DEF SearchRec
  <2>3. QED
    BY <1>1, <2>1, <2>2, NothingAsked
<1>3. CASE ~Pooled(l)
  <2>1. PICK q \in Queries : /\ search' = [l EXCEPT !.searched = TRUE, !.asked = q]
                             /\ Ask(q)
    BY <1>3 DEF RunSearch
  <2>2. search' \in SearchRec /\ search'.asked = q /\ search'.island = l.island
        /\ l.island \in Islands \cup {NoIsland}
    BY <2>1 DEF SearchRec
  <2> DEFINE r == Find(l.island, q)
  <2>3. /\ r \in Asks /\ r.what = "find" /\ r.newest /\ r.island = l.island /\ r.query = q
        /\ r.at = "find" /\ Begin(r)
        /\ lost' = IF PoolComing THEN {"pool"} ELSE lost \ {"search"}
    BY <2>1, <2>2, FindIs DEF Ask
  <2> HIDE DEF r
  <2>4. /\ requests' \in [Slots -> Asks] /\ cubit' = Shows("loading")
        /\ \A s, t \in Slots : requests'[s].newest /\ requests'[t].newest => s = t
        /\ \A s \in Slots :
             \/ requests'[s] = r
             \/ /\ ~requests'[s].newest /\ requests'[s].what = requests[s].what
                /\ requests'[s].island = requests[s].island
                /\ requests'[s].at = requests[s].at
                /\ requests'[s].version = requests[s].version
    BY <1>1, <2>3, Begun
  <2>5. cubit' \in [is : Marks, island : Islands \cup {NoIsland}, query : Queries \cup {NoQuery}]
        /\ cubit'.is = "loading"
    BY <2>4, ShowsIs DEF Marks
  <2>6. CacheTypeOK'
    BY <1>1 DEF CacheTypeOK, cacheVars
  <2>7. lost' \subseteq {"pool", "search"}
    BY <1>1, <2>3
  <2>8. TypeOK'
    BY <1>1, <2>2, <2>4, <2>5, <2>6, <2>7, MapsKept
       DEF MapsStay, TypeOK, ListsTypeOK, SearchRec, Marks
  <2>9. RequestsSound'
    BY <1>1, <2>3, <2>4 DEF RequestsSound
  <2>10. SearchSound'
    BY <2>2, <2>3, <2>4, <2>5 DEF SearchSound
  <2>11. PoolIsTheIslands'
    BY <1>1, <2>3 DEF PoolIsTheIslands, PoolComing, MapsStay
  <2>12. \A s \in Slots : ~(requests'[s].what = "pool" /\ requests'[s].newest)
    BY <2>3, <2>4
  <2>13. PoolFresh' /\ PullIsFresh'
    BY <1>1, <2>12 DEF PoolFresh, PullIsFresh
  <2>14. QED
    BY <2>8, <2>9, <2>10, <2>11, <2>13, MapsKept DEF ListsInv
<1>4. QED
  BY <1>2, <1>3

LEMMA OpenedIs ==
  ASSUME ListsInv, NEW i \in Islands
  PROVE  Opened(i) \in SearchRec /\ Opened(i).asked = NoQuery
BY DEF Opened, NoSearch, SearchRec

LEMMA SearchChanged ==
  ASSUME NEW s \in SearchRec, NEW text \in BOOLEAN, NEW filters \in BOOLEAN,
         NEW typing \in BOOLEAN, NEW today \in BOOLEAN
  PROVE  [s EXCEPT !.text = text, !.filters = filters, !.typing = typing, !.today = today]
           \in SearchRec
BY DEF SearchRec

LEMMA NoSearchIs == NoSearch \in SearchRec /\ NoSearch.asked = NoQuery
BY DEF NoSearch, SearchRec

LEMMA OpenedWithFilters ==
  ASSUME ListsInv, MapsStay, UNCHANGED cacheVars, UNCHANGED <<home, pull>>,
         listas' \in Islands \cup {NoIsland}, NEW i \in Islands, OpensWithFilters(i)
  PROVE  ListsInv'
<1>1. PICK today \in BOOLEAN :
        RunSearch([Opened(i) EXCEPT !.filters = TRUE,
                                    !.today = today /\ home.version # Nothing])
  BY DEF OpensWithFilters
<1> DEFINE l == [Opened(i) EXCEPT !.filters = TRUE, !.today = today /\ home.version # Nothing]
<1>2. l \in SearchRec
  BY OpenedIs DEF SearchRec
<1> HIDE DEF l
<1>3. RunSearch(l)
  BY <1>1 DEF l
<1>4. QED
  BY <1>2, <1>3, Searched

LEMMA SearchOrBrowseStep ==
  ASSUME ListsInv, MapsStay, NEW l \in SearchRec, SearchOrBrowse(l),
         l.asked = search.asked, l.island = search.island
  PROVE  ListsInv'
<1>1. /\ UNCHANGED cacheVars /\ UNCHANGED <<home, pull, listas>>
      /\ listas \in Islands \cup {NoIsland} /\ pull \in BOOLEAN
      /\ lost \subseteq {"pool", "search"}
  BY TypesAre DEF SearchOrBrowse, ListsInv
<1>2. CASE l.text \/ l.filters
  BY <1>1, <1>2, Searched DEF SearchOrBrowse
<1>3. CASE ~(l.text \/ l.filters)
  <2>1. search' = [l EXCEPT !.searched = FALSE] /\ UNCHANGED <<cubit, requests, lost>>
    BY <1>3 DEF SearchOrBrowse
  <2>2. search' \in SearchRec /\ search'.asked = l.asked /\ search'.island = l.island
    BY <2>1 DEF SearchRec
  <2>3. QED
    BY <1>1, <2>1, <2>2, NothingAsked
<1>4. QED
  BY <1>2, <1>3

LEMMA SearchStep ==
  ASSUME ListsInv, MapsStay, SearchNext \/ PullRefresh PROVE ListsInv'
<1>1. /\ island \in Islands /\ pull \in BOOLEAN /\ search \in SearchRec
      /\ listas \in Islands \cup {NoIsland} /\ lost \subseteq {"pool", "search"}
  BY TypesAre DEF ListsInv
<1>2. CASE OpenSearch
  <2>1. UNCHANGED <<home, pull, listas, cacheVars>>
    BY <1>2 DEF OpenSearch
  <2>2. CASE search' = Opened(island) /\ UNCHANGED <<cubit, requests, lost>>
    <3>1. search' \in SearchRec /\ search'.asked = NoQuery
      BY <1>1, <2>2, OpenedIs
    <3>2. QED
      BY <1>1, <2>1, <2>2, <3>1, NothingAsked
  <2>3. CASE OpensWithFilters(island)
    BY <1>1, <2>1, <2>3, OpenedWithFilters
  <2>4. QED
    BY <1>2, <2>2, <2>3 DEF OpenSearch
<1>3. CASE OpenFromListas
  BY <1>1, <1>3, NothingAsked DEF OpenFromListas
<1>4. CASE ListasOpens
  BY <1>1, <1>4, OpenedWithFilters DEF ListasOpens
<1>5. ASSUME NEW text \in BOOLEAN, Type(text) PROVE ListsInv'
  <2>1. /\ search' = [search EXCEPT !.text = text, !.typing = TRUE]
        /\ UNCHANGED <<cubit, requests, home, pull, listas, lost, cacheVars>>
    BY <1>5 DEF Type
  <2>2. search' \in SearchRec /\ search'.asked = search.asked /\ search'.island = search.island
    BY <1>1, <2>1 DEF SearchRec
  <2>3. QED
    BY <1>1, <2>1, <2>2, NothingAsked
<1>6. CASE TypingEnds
  <2> DEFINE l == [search EXCEPT !.typing = FALSE]
  <2>1. l \in SearchRec /\ l.asked = search.asked /\ l.island = search.island
    BY <1>1 DEF SearchRec
  <2>2. SearchOrBrowse(l)
    BY <1>6 DEF TypingEnds
  <2> HIDE DEF l
  <2>3. QED
    BY <2>1, <2>2, SearchOrBrowseStep
<1>7. CASE Clear
  <2> DEFINE l == [search EXCEPT !.text = FALSE]
  <2>1. l \in SearchRec /\ l.asked = search.asked /\ l.island = search.island
    BY <1>1 DEF SearchRec
  <2>2. SearchOrBrowse(l)
    BY <1>7 DEF Clear
  <2> HIDE DEF l
  <2>3. QED
    BY <2>1, <2>2, SearchOrBrowseStep
<1>8. CASE SearchNow
  <2>1. UNCHANGED <<home, pull, listas, cacheVars>>
    BY <1>8 DEF SearchNow
  <2>2. PICK text \in BOOLEAN, filters \in BOOLEAN, today \in BOOLEAN,
             typing \in {FALSE, search.typing} :
          RunSearch([search EXCEPT !.text = text, !.filters = filters, !.typing = typing,
                                   !.today = today /\ filters /\ search.pool])
    BY <1>8 DEF SearchNow
  <2> DEFINE d == today /\ filters /\ search.pool
             l == [search EXCEPT !.text = text, !.filters = filters, !.typing = typing, !.today = d]
  <2>3. RunSearch(l)
    BY <2>2
  <2>4. typing \in BOOLEAN /\ d \in BOOLEAN
    BY <1>1 DEF SearchRec
  <2> HIDE DEF d
  <2>5. l \in SearchRec
    BY <1>1, <2>4, SearchChanged
  <2> HIDE DEF l
  <2>6. QED
    BY <1>1, <2>1, <2>3, <2>5, Searched
<1>9. CASE CloseSearch
  BY <1>1, <1>9, NoSearchIs, NothingAsked DEF CloseSearch
<1>10. CASE PullRefresh
  BY <1>1, <1>10, NothingAsked DEF PullRefresh
<1>11. QED
  BY <1>2, <1>3, <1>4, <1>5, <1>6, <1>7, <1>8, <1>9, <1>10 DEF SearchNext

-----------------------------------------------------------------------------
(* The maps and the cache: the lists stand still.                          *)

ListsStay == UNCHANGED <<island, cubit, requests, home, pull, search, listas, lost>>

LEMMA ListsKept ==
  ASSUME ListsInv, ListsStay, CacheTypeOK', SitesTypeOK', tab'.island = tab.island,
         loads' \in [LoadSlots -> LoadRec], LoadsSound', SitesAreTheIslands',
         \A i \in Islands, d \in Found :
           CopyFresh(i, d) /\ (\A t \in LoadSlots : Carries(loads[t], i, d))
           /\ (\A t \in Slots : Carries(requests[t], i, d))
             => CopyFresh(i, d)' /\ \A t \in LoadSlots : Carries(loads'[t], i, d)
  PROVE  ListsInv'
<1>1. /\ requests \in [Slots -> Asks] /\ CacheTypeOK /\ island \in Islands
      /\ tab.island = island
      /\ RequestsSound /\ SearchSound /\ PoolIsTheIslands /\ PoolFresh /\ PullIsFresh
  BY TypesAre DEF ListsInv
<1>2. UNCHANGED <<island, cubit, requests, home, pull, search, listas, lost>>
  BY DEF ListsStay
<1>3. TypeOK'
  BY <1>1, <1>2, TypesAre DEF ListsInv, TypeOK, ListsTypeOK, SearchRec, Marks
<1>4. RequestsSound' /\ PullIsFresh' /\ SearchSound'
  BY <1>1, <1>2 DEF RequestsSound, PullIsFresh, SearchSound
<1>5. PoolIsTheIslands'
  BY <1>1, <1>2 DEF PoolIsTheIslands
<1>6. PoolFresh'
  <2>1. SUFFICES ASSUME NEW s \in Slots, requests[s].what = "pool", requests[s].newest,
                        NEW i, NEW d, i = requests[s].island, d = requests[s].due
                 PROVE  /\ CopyFresh(i, d)'
                        /\ requests[s].at = "rest" => d <= requests[s].version
                        /\ \A t \in Slots : Carries(requests[t], i, d)
                        /\ \A t \in LoadSlots : Carries(loads'[t], i, d)
    BY <1>2 DEF PoolFresh
  <2>2. CopyFresh(i, d)
        /\ (requests[s].at = "rest" => d <= requests[s].version)
        /\ (\A t \in Slots : Carries(requests[t], i, d))
        /\ (\A t \in LoadSlots : Carries(loads[t], i, d))
    BY <1>1, <2>1 DEF PoolFresh
  <2>3. i \in Islands /\ d \in Found
    BY <1>1, <2>1 DEF RequestsSound, Asks
  <2>4. QED
    BY <2>2, <2>3
<1>7. QED
  BY <1>3, <1>4, <1>5, <1>6 DEF ListsInv

(* A load ends, or goes on as g, which carries nothing older.              *)
LEMMA LoadReplaced ==
  ASSUME loads \in [LoadSlots -> LoadRec], LoadsSound, NEW s \in LoadSlots, NEW g \in LoadRec,
         g.at # "no" => g.island \in Islands, loads' = [loads EXCEPT ![s] = g]
  PROVE  /\ loads' \in [LoadSlots -> LoadRec] /\ LoadsSound'
         /\ \A t \in LoadSlots : loads'[t] = g \/ loads'[t] = loads[t]
BY DEF LoadsSound, Free

LEMMA NoLoadIs == NoLoad \in LoadRec /\ NoLoad.at = "no"
BY Numbers DEF NoLoad, LoadRec

LEMMA SitesStep ==
  ASSUME ListsInv, ListsStay, NEW s \in LoadSlots, SitesAnswer(s) PROVE ListsInv'
<1>1. /\ CacheTypeOK /\ SitesTypeOK /\ tab.island = island /\ island \in Islands
      /\ loads \in [LoadSlots -> LoadRec] /\ LoadsSound /\ SitesAreTheIslands
      /\ island' = island
  BY TypesAre DEF ListsInv, ListsStay
<1>2. loads[s] \in LoadRec
  BY <1>1
<1>3. CASE ClearsCache(s)
  <2> DEFINE g == [loads[s] EXCEPT !.at = "cache"]
  <2>1. /\ loads[s].at = "clear" /\ cached' = Invalidated
        /\ loads' = [loads EXCEPT ![s].at = "cache"]
        /\ UNCHANGED <<tab, nearby, emitted, crossed, server, renewing>>
    BY <1>3 DEF ClearsCache
  <2>2. g \in LoadRec /\ g.at = "cache" /\ g.island = loads[s].island
    BY <1>2 DEF LoadRec
  <2>3. loads' = [loads EXCEPT ![s] = g] /\ loads[s].island \in Islands
    BY <1>1, <2>1 DEF LoadsSound, Free
  <2> HIDE DEF g
  <2>4. /\ loads' \in [LoadSlots -> LoadRec] /\ LoadsSound'
        /\ \A t \in LoadSlots : loads'[t] = g \/ loads'[t] = loads[t]
    BY <1>1, <2>2, <2>3, LoadReplaced
  <2>5. CacheTypeOK' /\ \A i \in Islands : cached'[i] = Nothing
    BY <1>1, <2>1, Numbers DEF CacheTypeOK, Invalidated
  <2>6. SitesTypeOK' /\ SitesAreTheIslands'
    BY <1>1, <2>1, <2>4 DEF SitesTypeOK, SitesAreTheIslands, LoadRec
  <2>7. \A i \in Islands, d \in Found :
          CopyFresh(i, d) /\ (\A t \in LoadSlots : Carries(loads[t], i, d))
            => CopyFresh(i, d)' /\ \A t \in LoadSlots : Carries(loads'[t], i, d)
    BY <2>1, <2>2, <2>4, <2>5 DEF CopyFresh, Carries
  <2>8. QED
    BY <2>1, <2>4, <2>5, <2>6, <2>7, ListsKept
<1>4. CASE SitesGoOn(s)
  <2>1. PICK a \in {"net", "back", "rest"}, v \in Found :
          LET g == [loads[s] EXCEPT !.at = a, !.version = v]
          IN  GoesOn(loads[s], g) /\ loads' = [loads EXCEPT ![s] = g]
    BY <1>4 DEF SitesGoOn
  <2> DEFINE g == [loads[s] EXCEPT !.at = a, !.version = v]
  <2>2. g \in LoadRec /\ g.at = a /\ g.island = loads[s].island
    BY <1>2 DEF LoadRec
  <2>3. GoesOn(loads[s], g) /\ loads' = [loads EXCEPT ![s] = g]
        /\ UNCHANGED <<tab, nearby, emitted, crossed>>
    BY <1>4, <2>1 DEF SitesGoOn
  <2> HIDE DEF g
  <2>4. loads[s].island \in Islands
    <3>1. loads[s].at # "no"
      BY <2>3 DEF GoesOn, ReadsCache, IsHandled, IsWritten, FallsBack, OnTheWire
    <3>2. QED
      BY <1>1, <3>1 DEF LoadsSound, Free
  <2>5. /\ loads' \in [LoadSlots -> LoadRec] /\ LoadsSound'
        /\ \A t \in LoadSlots : loads'[t] = g \/ loads'[t] = loads[t]
    BY <1>1, <2>2, <2>3, <2>4, LoadReplaced
  <2>6. CacheTypeOK'
    BY <1>1, <1>2, <2>3, <2>4, Goes DEF Fetches
  <2>7. SitesTypeOK' /\ SitesAreTheIslands'
    BY <1>1, <2>3, <2>5 DEF SitesTypeOK, SitesAreTheIslands, LoadRec
  <2>8. \A i \in Islands, d \in Found :
          CopyFresh(i, d) /\ (\A t \in LoadSlots : Carries(loads[t], i, d))
            => CopyFresh(i, d)' /\ \A t \in LoadSlots : Carries(loads'[t], i, d)
    <3>1. SUFFICES ASSUME NEW i \in Islands, NEW d \in Found, CopyFresh(i, d),
                          \A t \in LoadSlots : Carries(loads[t], i, d)
                   PROVE  CopyFresh(i, d)' /\ \A t \in LoadSlots : Carries(loads'[t], i, d)
      OBVIOUS
    <3>2. CopyFresh(i, d)' /\ Carries(g, i, d)
      BY <1>1, <1>2, <2>3, <2>4, <3>1, GoesFresh DEF Fetches
    <3>3. QED
      BY <2>5, <3>1, <3>2
  <2>9. QED
    BY <2>3, <2>5, <2>6, <2>7, <2>8, ListsKept
<1>5. CASE SitesArrive(s)
  <2>1. /\ loads[s].at = "rest" /\ loads' = [loads EXCEPT ![s] = NoLoad]
        /\ emitted' = loads[s].island /\ crossed' = (loads[s].island # tab.island)
        /\ tab' = [tab EXCEPT !.rows = loads[s].island, !.phase = "ready"]
        /\ nearby' \in {nearby, [nearby EXCEPT !.rows = loads[s].island, !.phase = "ready"]}
        /\ UNCHANGED cacheVars
    BY <1>5 DEF SitesArrive, Given
  <2>2. loads[s].island \in Islands
    BY <1>1, <2>1 DEF LoadsSound, Free
  <2>3. /\ loads' \in [LoadSlots -> LoadRec] /\ LoadsSound'
        /\ \A t \in LoadSlots : loads'[t] = NoLoad \/ loads'[t] = loads[t]
    BY <1>1, <2>1, NoLoadIs, LoadReplaced
  <2>4. CacheTypeOK'
    BY <1>1, <2>1 DEF CacheTypeOK, cacheVars
  <2>5. /\ tab' \in [island : Islands, rows : Islands \cup {NoIsland}, phase : Phases]
        /\ tab'.island = tab.island /\ tab'.rows = loads[s].island
    BY <1>1, <2>1, <2>2 DEF SitesTypeOK, Phases
  <2>6. nearby' \in [up : BOOLEAN, rows : Islands \cup {NoIsland}, phase : Phases]
    BY <1>1, <2>1, <2>2 DEF SitesTypeOK, Phases
  <2>7. SitesTypeOK'
    BY <2>1, <2>2, <2>3, <2>5, <2>6 DEF SitesTypeOK, LoadRec
  <2>8. SitesAreTheIslands'
    BY <1>1, <2>1, <2>5 DEF SitesAreTheIslands
  <2>9. \A i \in Islands, d \in Found :
          CopyFresh(i, d) /\ (\A t \in LoadSlots : Carries(loads[t], i, d))
            => CopyFresh(i, d)' /\ \A t \in LoadSlots : Carries(loads'[t], i, d)
    BY <2>1, <2>3, NoLoadIs DEF CopyFresh, Carries, cacheVars
  <2>10. QED
    BY <2>3, <2>4, <2>5, <2>7, <2>8, <2>9, ListsKept
<1>6. CASE SitesFail(s)
  <2>1. /\ loads' = [loads EXCEPT ![s] = NoLoad] /\ UNCHANGED <<emitted, crossed>>
        /\ tab' \in {tab, ErrorPainted(tab)} /\ nearby' \in {nearby, ErrorPainted(nearby)}
        /\ UNCHANGED cacheVars
    BY <1>6 DEF SitesFail, GivesUp
  <2>2. /\ loads' \in [LoadSlots -> LoadRec] /\ LoadsSound'
        /\ \A t \in LoadSlots : loads'[t] = NoLoad \/ loads'[t] = loads[t]
    BY <1>1, <2>1, NoLoadIs, LoadReplaced
  <2>3. CacheTypeOK'
    BY <1>1, <2>1 DEF CacheTypeOK, cacheVars
  <2>4. tab' = tab \/ tab' = [tab EXCEPT !.phase = "error"]
    BY <2>1 DEF ErrorPainted
  <2>5. /\ tab' \in [island : Islands, rows : Islands \cup {NoIsland}, phase : Phases]
        /\ tab'.island = tab.island /\ (tab' = tab \/ tab'.phase = "error")
    BY <1>1, <2>4 DEF SitesTypeOK, Phases
  <2>6. nearby' \in [up : BOOLEAN, rows : Islands \cup {NoIsland}, phase : Phases]
    BY <1>1, <2>1 DEF SitesTypeOK, Phases, ErrorPainted
  <2>7. SitesTypeOK'
    BY <1>1, <2>1, <2>2, <2>5, <2>6 DEF SitesTypeOK, LoadRec
  <2>8. SitesAreTheIslands'
    BY <1>1, <2>1, <2>5 DEF SitesAreTheIslands
  <2>9. \A i \in Islands, d \in Found :
          CopyFresh(i, d) /\ (\A t \in LoadSlots : Carries(loads[t], i, d))
            => CopyFresh(i, d)' /\ \A t \in LoadSlots : Carries(loads'[t], i, d)
    BY <2>1, <2>2, NoLoadIs DEF CopyFresh, Carries, cacheVars
  <2>10. QED
    BY <2>2, <2>3, <2>5, <2>7, <2>8, <2>9, ListsKept
<1>7. QED
  BY <1>3, <1>4, <1>5, <1>6 DEF SitesAnswer

LEMMA MapStep == ASSUME ListsInv, ListsStay, MapNext PROVE ListsInv'
<1>1. /\ CacheTypeOK /\ SitesTypeOK /\ tab.island = island /\ island \in Islands
      /\ loads \in [LoadSlots -> LoadRec] /\ LoadsSound /\ SitesAreTheIslands
      /\ island' = island
  BY TypesAre DEF ListsInv, ListsStay
<1>2. ASSUME UNCHANGED <<emitted, crossed, cacheVars>>, loads' \in [LoadSlots -> LoadRec], LoadsSound',
             \A t \in LoadSlots : loads'[t].at = "back"
               => loads'[t].island = loads[t].island /\ loads'[t].version = loads[t].version
                  /\ loads[t].at = "back",
             tab' = tab \/ tab' = [tab EXCEPT !.phase = "loading"],
             nearby' \in [up : BOOLEAN, rows : Islands \cup {NoIsland}, phase : Phases]
      PROVE  ListsInv'
  <2>1. CacheTypeOK'
    BY <1>1, <1>2 DEF CacheTypeOK, cacheVars
  <2>2. /\ tab' \in [island : Islands, rows : Islands \cup {NoIsland}, phase : Phases]
        /\ tab'.island = tab.island /\ (tab' = tab \/ tab'.phase = "loading")
    BY <1>1, <1>2 DEF SitesTypeOK, Phases
  <2>3. SitesTypeOK' /\ SitesAreTheIslands'
    BY <1>1, <1>2, <2>2 DEF SitesTypeOK, SitesAreTheIslands, LoadRec
  <2>4. \A i \in Islands, d \in Found :
          CopyFresh(i, d) /\ (\A t \in LoadSlots : Carries(loads[t], i, d))
            => CopyFresh(i, d)' /\ \A t \in LoadSlots : Carries(loads'[t], i, d)
    BY <1>2 DEF CopyFresh, Carries, cacheVars
  <2>5. QED
    BY <1>2, <2>1, <2>2, <2>3, <2>4, ListsKept
<1>3. CASE OpenNearby
  <2>1. /\ Load("nearby", tab.island, "cache")
        /\ UNCHANGED <<tab, emitted, crossed, cacheVars>>
        /\ nearby' = [up |-> TRUE, rows |-> emitted,
                      phase |-> IF emitted = NoIsland THEN "loading" ELSE "ready"]
    BY <1>3 DEF OpenNearby
  <2>2. /\ loads' \in [LoadSlots -> LoadRec] /\ LoadsSound'
        /\ \A t \in LoadSlots : loads'[t] = loads[t] \/ loads'[t].at # "back"
    BY <1>1, <2>1, LoadBegun
  <2>3. nearby' \in [up : BOOLEAN, rows : Islands \cup {NoIsland}, phase : Phases]
    BY <1>1, <2>1 DEF SitesTypeOK, Phases
  <2>4. QED
    BY <1>2, <2>1, <2>2, <2>3
<1>4. CASE CloseNearby
  <2>1. /\ nearby' = Closed
        /\ loads' = [t \in LoadSlots |-> IF loads[t].by = "nearby"
                                         THEN [loads[t] EXCEPT !.by = "gone"] ELSE loads[t]]
        /\ UNCHANGED <<tab, emitted, crossed, cacheVars>>
    BY <1>4 DEF CloseNearby
  <2>2. \A g \in LoadRec : LET h == [g EXCEPT !.by = "gone"]
                           IN  /\ h \in LoadRec /\ h.at = g.at /\ h.island = g.island
                               /\ h.version = g.version
    BY DEF LoadRec
  <2>3. \A t \in LoadSlots : /\ loads'[t] \in LoadRec /\ loads'[t].at = loads[t].at
                             /\ loads'[t].island = loads[t].island
                             /\ loads'[t].version = loads[t].version
    BY <1>1, <2>1, <2>2
  <2>4. loads' \in [LoadSlots -> LoadRec] /\ LoadsSound'
    BY <1>1, <2>1, <2>3 DEF LoadsSound, Free
  <2>5. nearby' \in [up : BOOLEAN, rows : Islands \cup {NoIsland}, phase : Phases]
    BY <2>1 DEF Closed, Phases
  <2>6. QED
    BY <1>2, <2>1, <2>3, <2>4, <2>5
<1>5. CASE Retry
  <2>1. /\ Load("tab", tab.island, "clear") \/ Load("nearby", tab.island, "clear")
        /\ tab' = tab \/ tab' = [tab EXCEPT !.phase = "loading"]
        /\ nearby' = nearby \/ nearby' = [nearby EXCEPT !.phase = "loading"]
        /\ UNCHANGED <<emitted, crossed, cacheVars>>
    BY <1>5 DEF Retry
  <2>2. /\ loads' \in [LoadSlots -> LoadRec] /\ LoadsSound'
        /\ \A t \in LoadSlots : loads'[t] = loads[t] \/ loads'[t].at # "back"
    BY <1>1, <2>1, LoadBegun
  <2>3. nearby' \in [up : BOOLEAN, rows : Islands \cup {NoIsland}, phase : Phases]
    BY <1>1, <2>1 DEF SitesTypeOK, Phases
  <2>4. QED
    BY <1>2, <2>1, <2>2, <2>3
<1>6. QED
  BY <1>3, <1>4, <1>5 DEF MapNext

LEMMA CacheKept ==
  ASSUME ListsInv, CacheStep, UNCHANGED <<island, listVars, mapVars>> PROVE ListsInv'
<1>1. /\ CacheTypeOK /\ SitesTypeOK /\ tab.island = island
      /\ loads \in [LoadSlots -> LoadRec] /\ LoadsSound /\ SitesAreTheIslands
      /\ server \in Nat /\ \A i \in Islands : renewing[i].version \in Found
  BY TypesAre, Numbers DEF ListsInv, CacheTypeOK
<1>2. ListsStay /\ UNCHANGED <<island, tab, nearby, emitted, loads, crossed>>
  BY DEF listVars, mapVars, ListsStay
<1>3. SitesTypeOK' /\ LoadsSound' /\ SitesAreTheIslands'
  BY <1>1, <1>2 DEF SitesTypeOK, LoadsSound, Free, SitesAreTheIslands
<1>4. CacheTypeOK' /\ \A i \in Islands, d \in Found : CopyFresh(i, d) => CopyFresh(i, d)'
  <2>1. CASE ServerChanges
    <3>1. server' = server + 1 /\ server < MaxVersion /\ UNCHANGED <<cached, renewing>>
      BY <2>1 DEF ServerChanges
    <3>2. server' \in Versions /\ server < server' /\ server' \in Nat
      BY <1>1, <3>1 DEF Versions, CacheTypeOK
    <3>3. \A d \in Found : d <= server => d <= server'
      BY <1>1, <3>2, Numbers
    <3>4. QED
      BY <1>1, <3>1, <3>2, <3>3 DEF CacheTypeOK, CopyFresh
  <2>2. ASSUME NEW j \in Islands, Renews(j)
        PROVE  CacheTypeOK' /\ \A i \in Islands, d \in Found : CopyFresh(i, d) => CopyFresh(i, d)'
    <3>1. /\ server' = server
          /\ \/ renewing' = [renewing EXCEPT ![j] = [at |-> "back", version |-> server]]
                /\ UNCHANGED cached
             \/ /\ renewing[j].at = "back"
                /\ cached' = [cached EXCEPT ![j] = renewing[j].version]
                /\ renewing' = [renewing EXCEPT ![j] = Idle]
             \/ renewing' = [renewing EXCEPT ![j] = Idle] /\ UNCHANGED cached
      BY <2>2 DEF Renews
    <3>2. Idle \in [at : {"no", "net", "back"}, version : Found] /\ Idle.at = "no"
      BY Numbers DEF Idle
    <3>3. CacheTypeOK'
      BY <1>1, <3>1, <3>2, Numbers DEF CacheTypeOK
    <3>4. ASSUME NEW i \in Islands, NEW d \in Found, CopyFresh(i, d) PROVE CopyFresh(i, d)'
      <4>1. cached'[i] # Nothing => d <= cached'[i]
        BY <1>1, <3>1, <3>4 DEF CopyFresh, CacheTypeOK
      <4>2. renewing'[i].at = "back" => d <= renewing'[i].version
        BY <1>1, <3>1, <3>2, <3>4 DEF CopyFresh, CacheTypeOK
      <4>3. QED
        BY <3>1, <3>4, <4>1, <4>2 DEF CopyFresh
    <3>5. QED
      BY <3>3, <3>4
  <2>3. QED
    BY <2>1, <2>2 DEF CacheStep
<1>5. QED
  BY <1>1, <1>2, <1>3, <1>4, ListsKept

LEMMA NextStep == ASSUME ListsInv, [Next]_vars PROVE ListsInv'
<1>1. ASSUME UNCHANGED <<island, mapVars>> PROVE MapsStay
  BY <1>1 DEF MapsStay, mapVars
<1>2. ASSUME UNCHANGED <<island, listVars>> PROVE ListsStay
  BY <1>2 DEF ListsStay, listVars
<1>3. CASE Lists(PullRefresh) \/ Lists(SearchNext)
  BY <1>1, <1>3, SearchStep DEF Lists
<1>4. CASE Lists(\E s \in Slots : Answers(s))
  BY <1>1, <1>4, AnswerStep DEF Lists
<1>5. CASE Maps(\E s \in LoadSlots : SitesAnswer(s))
  BY <1>2, <1>5, SitesStep DEF Maps
<1>6. CASE Maps(MapNext)
  BY <1>2, <1>6, MapStep DEF Maps
<1>7. CASE UNCHANGED vars
  <2>1. /\ MapsStay /\ UNCHANGED <<cubit, requests, home, pull, search, listas, lost>>
        /\ UNCHANGED cacheVars
    BY <1>7 DEF vars, listVars, mapVars, MapsStay
  <2>2. pull \in BOOLEAN /\ search \in SearchRec /\ listas \in Islands \cup {NoIsland}
        /\ lost \subseteq {"pool", "search"}
    BY TypesAre DEF ListsInv
  <2>3. QED
    BY <2>1, <2>2, NothingAsked
<1>8. QED
  BY <1>3, <1>4, <1>5, <1>6, <1>7, ChangeStep, PullStep, CacheKept DEF Next

-----------------------------------------------------------------------------
(* The theorems.                                                           *)

(* The parts of ListsInv hold of every reachable state: whose the newest   *)
(* request is, and how old what may still be written into a copy can be.   *)
THEOREM ListsAreConsistent == Spec => []ListsInv
<1>1. Init => ListsInv
  BY InitHolds
<1>2. ListsInv /\ [Next]_vars => ListsInv'
  BY NextStep
<1>3. QED
  BY <1>1, <1>2, PTL DEF Spec

(* The cubits, the screens and the cache keep their types, and the map of  *)
(* the tab is always of the island in use.                                 *)
THEOREM ListsTypeCorrect == Spec => []TypeOK
<1>1. ListsInv => TypeOK
  BY DEF ListsInv
<1>2. QED
  BY <1>1, ListsAreConsistent, PTL

(* The pool of the home is its island's or on its way, unless its load has *)
(* failed or a search has overtaken it, however everything interleaves.    *)
THEOREM HomeFollowsTheIsland == Spec => []PoolIsTheIslands
<1>1. ListsInv => PoolIsTheIslands
  BY DEF ListsInv
<1>2. QED
  BY <1>1, ListsAreConsistent, PTL

(* No late answer, to an older search or to another screen's, takes the    *)
(* place of the results the list last asked for.                           *)
THEOREM ResultsAreNotMixed == Spec => []ResultsAreItsOwn
<1>1. ListsInv => ResultsAreItsOwn
  BY DEF ListsInv, SearchSound, ResultsAreItsOwn
<1>2. QED
  BY <1>1, ListsAreConsistent, PTL

(* What pull to refresh brings is no older than the server was when the    *)
(* cache was emptied, whatever the maps and the revalidations write.       *)
THEOREM PullBringsNoneOlder == Spec => []PullIsFresh
<1>1. ListsInv => PullIsFresh
  BY DEF ListsInv
<1>2. QED
  BY <1>1, ListsAreConsistent, PTL

(* The map of the tab shows its island's sites, unless the answer for      *)
(* another one came after the change.                                      *)
THEOREM TabShowsItsIsland == Spec => []SitesAreTheIslands
<1>1. ListsInv => SitesAreTheIslands
  BY DEF ListsInv
<1>2. QED
  BY <1>1, ListsAreConsistent, PTL

=============================================================================

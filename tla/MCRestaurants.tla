---------------------------- MODULE MCRestaurants ----------------------------
(***************************************************************************)
(* The home with its results, the maps and the cache share little, so each *)
(* behaviour checked is of one kind, in which the rest stands still:       *)
(*   search    islands change under the home, Listas and the results;      *)
(*   reload    a pull to refresh goes on after the results are open;       *)
(*   settles   the results, «Hoy» included, with the fairness of calls;    *)
(*   refresh   the home, the tab's map and the revalidation over one       *)
(*             island's copy, the server changing, two fetches on the wire *)
(*             at most;                                                    *)
(*   map       both maps over changes of island, with the fairness of      *)
(*             calls.                                                      *)
(***************************************************************************)
EXTENDS Restaurants

VARIABLE kind

Kinds      == {"search", "reload", "settles", "refresh", "map"}
OneIsland  == {"reload", "settles", "refresh"}
OfLists    == {"search", "reload", "settles"}
AQuery     == CHOOSE q \in Queries : TRUE
Others     == Islands \ {island}

MCInit ==
  /\ Init /\ kind \in Kinds
  /\ kind \in {"search", "settles"} => \A i \in Islands : cached[i] = 1
  /\ kind \in {"reload", "refresh"} => \A i \in Others : cached[i] = Nothing

(* What stands still is answered at once, from the cache if it is there.   *)
MapsStill ==
  IF \E s \in LoadSlots : ~Free(s)
  THEN /\ loads' # loads /\ tab'.phase # "error" /\ cached' = cached
       /\ \A s \in LoadSlots : OnTheWire(loads'[s]) => cached[island] = Nothing
  ELSE mapVars' = mapVars \/ island' # island
ListsStill ==
  IF \E s \in Slots : Waiting(s)
  THEN /\ requests' # requests /\ "pool" \notin lost' /\ cached' = cached
       /\ \A s \in Slots : OnTheWire(requests'[s]) => cached[island] = Nothing
  ELSE listVars' = listVars \/ island' # island

OnWire == Cardinality({s \in Slots : OnTheWire(requests[s])})
          + Cardinality({s \in LoadSlots : OnTheWire(loads[s])})
          + Cardinality({i \in Islands : renewing[i] # Idle})

Within ==
  /\ kind \in OneIsland => island' = island /\ listas' = NoIsland
  /\ kind \in OfLists =>
       /\ MapsStill
       /\ \A s \in Slots : OnTheWire(requests'[s]) => cached[requests[s].island] = Nothing
  /\ kind \in {"search", "settles"} => ~pull'
  /\ kind # "settles" => search'.asked \in {NoQuery, AQuery}
  /\ kind # "settles" => ~search'.today
  /\ kind # "refresh" => server' = 1 /\ renewing' = renewing
  /\ kind = "refresh" =>
       /\ OnWire' <= 2 /\ Cardinality({s \in Slots : Waiting(s)})' <= 1
       /\ tab'.phase # "error" /\ "pool" \notin lost'
       /\ ~search'.up /\ ~nearby'.up /\ \A i \in Others : renewing'[i] = Idle
  /\ kind = "map" => ListsStill

MCNext == Next /\ Within /\ UNCHANGED kind
MCSpec == MCInit /\ [][MCNext]_<<vars, kind>>

(* Calls answer, fail or time out; the user stops typing for as long as    *)
(* the debouncer wants, and one day leaves the last search the time to be  *)
(* answered.                                                               *)
MCFairSpec ==
  /\ MCSpec
  /\ WF_vars(kind = "settles" /\ Lists(TypingEnds))
  /\ WF_vars(kind = "settles" /\ Lists(\E s \in Slots : Answers(s)))
  /\ SF_vars(kind = "settles" /\ Lists(\E s \in Slots : NewestAnswers(s)))
  /\ \A s \in LoadSlots : WF_vars(kind = "map" /\ Maps(SitesAnswer(s)))

(* The list of results does not stay loading: it ends with results or with *)
(* the error and its retry, whatever searches overtook each other          *)
(* (advanced_search.dart:621).                                             *)
SearchSettles == kind = "settles" /\ Waits ~> ~Waits

(* Neither map stays loading: each load of its own ends with sites or with *)
(* the error and its retry, whoever closed the other or crossed it         *)
(* meanwhile (map_search.dart:244).                                        *)
MapSettles ==
  /\ kind = "map" /\ TabLoads ~> ~TabLoads
  /\ kind = "map" /\ NearbyLoads ~> ~NearbyLoads
=============================================================================

--------------------------- MODULE RestaurantLists ---------------------------
(***************************************************************************)
(* The app's one RestaurantCubit and the screens over it: the home, which  *)
(* keeps the pool of its island, and the list of results (AdvancedSearch), *)
(* opened from the home or from Listas.  They share one sequence number:   *)
(* a request is dropped when any of them has made another one.             *)
(*                                                                         *)
(* `newest` is `seq == _requestSeq`.  Listas' _lastPool is the home's      *)
(* pool: the same emission sets both.                                      *)
(***************************************************************************)
EXTENDS HttpCache

CONSTANTS
  Queries, NoQuery,
  MaxRequests  \* bound: requests in flight

ASSUME ListsAssumption == NoQuery \notin Queries /\ MaxRequests \in Nat \ {0}

VARIABLES
  island,      \* NewHomeFiltersCubit.state.islandId
  cubit,       \* RestaurantCubit.state; of results, whose they are
  requests,    \* its calls in flight, by slot
  home,        \* the pool of the home: island, version, least version due
  pull,        \* pull to refresh, waiting for the cache to be emptied
  search,      \* the list of results on screen
  listas,      \* Listas, gathering what its search needs: for which island
  lost         \* what another request has overtaken, or has failed (history)

listVars == <<cubit, requests, home, pull, search, listas, lost>>

Slots     == 1..MaxRequests
NoRequest == [what |-> "none", island |-> NoIsland, query |-> NoQuery,
              at |-> "no", version |-> Nothing, due |-> Nothing, newest |-> FALSE]
Pool(i, due) == [NoRequest EXCEPT !.what = "pool", !.island = i, !.at = "cache",
                                  !.due = due, !.newest = TRUE]
Find(i, q)   == [NoRequest EXCEPT !.what = "find", !.island = i, !.query = q,
                                  !.at = "find", !.newest = TRUE]
Waiting(s)   == requests[s].what # "none"
PoolComing   == \E s \in Slots : requests[s].what = "pool" /\ requests[s].newest

Shows(is)    == [is |-> is, island |-> NoIsland, query |-> NoQuery]
Results(r)   == [is |-> "results", island |-> r.island, query |-> r.query]

(* ++_requestSeq, and RestaurantLoading.                                   *)
Begin(r) ==
  /\ \E s \in Slots :
       /\ ~Waiting(s) /\ \A t \in Slots : t < s => Waiting(t)
       /\ requests' = [t \in Slots |-> IF t = s THEN r
                                       ELSE [requests[t] EXCEPT !.newest = FALSE]]
  /\ cubit' = Shows("loading")

(* getAllRestaurants for the home.                                         *)
LoadPool(i, due) ==
  /\ Begin(Pool(i, due))
  /\ lost' = IF search.up THEN {"search"} ELSE {}

(* getFilterRestaurantsAdvance for the list.                               *)
Ask(q) ==
  /\ Begin(Find(search'.island, q))
  /\ lost' = IF PoolComing THEN {"pool"} ELSE lost \ {"search"}

Ends(s) == requests' = [requests EXCEPT ![s] = NoRequest]

(* seq != _requestSeq.                                                     *)
NeverOvertaken(s) == FALSE
Overtaken(s) == ~requests[s].newest

-----------------------------------------------------------------------------
(* What the cubit does with its answers.                                   *)

(* The first page, from the cache or from the network.                     *)
FirstPage(s) ==
  /\ requests[s].what = "pool"
  /\ \E a \in {"net", "back", "rest"}, v \in Found :
       LET r == [requests[s] EXCEPT !.at = a, !.version = v]
       IN  /\ GoesOn(requests[s], r)
           /\ IF r.at = "rest" /\ Overtaken(s) THEN Ends(s)
              ELSE requests' = [requests EXCEPT ![s] = r]
  /\ UNCHANGED <<cubit, home, pull, search, listas, lost>>

(* The other pages, in batches or one by one.                              *)
PoolArrives(s) ==
  /\ requests[s].what = "pool" /\ requests[s].at = "rest"
  /\ Ends(s)
  /\ IF Overtaken(s) THEN UNCHANGED <<cubit, home>>
     ELSE /\ cubit' = Shows("all")
          /\ home' = [island |-> requests[s].island, version |-> requests[s].version,
                      due |-> requests[s].due]
  /\ UNCHANGED <<pull, search, listas, lost, cacheVars>>

(* The error goes to the home, which only writes it down.                  *)
PoolFails(s) ==
  /\ requests[s].what = "pool" /\ GivesUp(requests[s])
  /\ Ends(s)
  /\ lost' = IF requests[s].newest THEN lost \cup {"pool"} ELSE lost
  /\ UNCHANGED <<cubit, home, pull, search, listas>>

FindArrives(s) ==
  /\ requests[s].what = "find"
  /\ Ends(s)
  /\ cubit' = IF Overtaken(s) THEN cubit ELSE Results(requests[s])
  /\ UNCHANGED <<home, pull, search, listas, lost, cacheVars>>

ErrorSwallowed == cubit
ErrorShown     == Shows("error")
FindFails(s) ==
  /\ requests[s].what = "find"
  /\ Ends(s)
  /\ cubit' = IF Overtaken(s) THEN cubit ELSE ErrorShown
  /\ UNCHANGED <<home, pull, search, listas, lost, cacheVars>>

Answers(s) == FirstPage(s) \/ PoolArrives(s) \/ PoolFails(s) \/ FindArrives(s) \/ FindFails(s)

-----------------------------------------------------------------------------
(* The home.                                                               *)

PullRefresh ==
  /\ ~pull /\ ~search.up
  /\ pull' = TRUE
  /\ UNCHANGED <<cubit, requests, home, search, listas, lost, cacheVars>>

(* _onPullRefresh goes on: the cache is empty, and everything is asked for *)
(* again, for the island there is by now.                                  *)
PullReloads(due) ==
  /\ pull /\ pull' = FALSE
  /\ cached' = Invalidated
  /\ LoadPool(island, due)
  /\ UNCHANGED <<home, search, listas, server, renewing>>

-----------------------------------------------------------------------------
(* The list of results.                                                    *)

NoSearch == [up |-> FALSE, island |-> NoIsland, pool |-> FALSE, today |-> FALSE,
             text |-> FALSE, filters |-> FALSE, searched |-> FALSE, typing |-> FALSE,
             asked |-> NoQuery]

(* _usePresetPool: the list of «Hoy», untouched, shows the home's places;   *)
(* `today` is its theme, where the home has places to show.                *)
Pooled(l)     == l.today /\ ~l.text
Showing(l)    == l.up /\ (l.text \/ l.filters \/ l.searched)

(* _runSearch of the list l.                                               *)
RunSearch(l) ==
  IF Pooled(l)
  THEN /\ search' = [l EXCEPT !.searched = TRUE, !.asked = NoQuery]
       /\ UNCHANGED <<cubit, requests, lost>>
  ELSE \E q \in Queries : /\ search' = [l EXCEPT !.searched = TRUE, !.asked = q]
                          /\ Ask(q)

Opened(i) == [NoSearch EXCEPT !.up = TRUE, !.island = i, !.pool = home.version # Nothing]

(* With filters of its own it searches at once; «Hoy» has its own theme.   *)
OpensWithFilters(i) ==
  \E today \in BOOLEAN :
    RunSearch([Opened(i) EXCEPT !.filters = TRUE, !.today = today /\ home.version # Nothing])

OpenSearch ==
  /\ ~search.up
  /\ \/ search' = Opened(island) /\ UNCHANGED <<cubit, requests, lost>>
     \/ OpensWithFilters(island)
  /\ UNCHANGED <<home, pull, listas, cacheVars>>

(* Listas takes the island, waits for its types and municipalities, and    *)
(* opens the list then.                                                    *)
OpenFromListas ==
  /\ listas = NoIsland /\ ~search.up
  /\ listas' = island
  /\ UNCHANGED <<cubit, requests, home, pull, search, lost, cacheVars>>

ListasOpens ==
  /\ listas # NoIsland /\ ~search.up
  /\ listas' = NoIsland
  /\ OpensWithFilters(listas)
  /\ UNCHANGED <<home, pull, cacheVars>>

Type(text) ==
  /\ search.up
  /\ search' = [search EXCEPT !.text = text, !.typing = TRUE]
  /\ UNCHANGED <<cubit, requests, home, pull, listas, lost, cacheVars>>

(* With nothing to look for, back to «Explorar».                           *)
SearchOrBrowse(l) ==
  /\ IF l.text \/ l.filters
     THEN RunSearch(l)
     ELSE search' = [l EXCEPT !.searched = FALSE] /\ UNCHANGED <<cubit, requests, lost>>
  /\ UNCHANGED <<home, pull, listas, cacheVars>>

(* The end of _onQueryChanged's debounce; and onClear.                     *)
TypingEnds == search.up /\ search.typing /\ SearchOrBrowse([search EXCEPT !.typing = FALSE])
Clear      == search.up /\ search.text /\ SearchOrBrowse([search EXCEPT !.text = FALSE])

(* The enter key, a type, a context, other filters, a retry.               *)
SearchNow ==
  /\ search.up
  /\ \E text, filters, today \in BOOLEAN, typing \in {FALSE, search.typing} :
       RunSearch([search EXCEPT !.text = text, !.filters = filters, !.typing = typing,
                                !.today = today /\ filters /\ search.pool])
  /\ UNCHANGED <<home, pull, listas, cacheVars>>

CloseSearch ==
  /\ search.up
  /\ search' = NoSearch
  /\ lost' = lost \ {"search"}
  /\ UNCHANGED <<cubit, requests, home, pull, listas, cacheVars>>

SearchNext == OpenSearch \/ OpenFromListas \/ ListasOpens \/ TypingEnds \/ Clear
              \/ SearchNow \/ CloseSearch \/ \E text \in BOOLEAN : Type(text)

Asks == [what : {"none", "pool", "find"}, island : Islands \cup {NoIsland},
         query : Queries \cup {NoQuery}, at : {"no", "cache", "net", "back", "rest", "find"},
         version : Found, due : Found, newest : BOOLEAN]

ListsTypeOK ==
  /\ island \in Islands
  /\ cubit \in [is : {"initial", "loading", "all", "results", "error"},
                island : Islands \cup {NoIsland}, query : Queries \cup {NoQuery}]
  /\ requests \in [Slots -> Asks]
  /\ home \in [island : Islands \cup {NoIsland}, version : Found, due : Found]
  /\ pull \in BOOLEAN
  /\ search \in [up : BOOLEAN, island : Islands \cup {NoIsland}, pool : BOOLEAN,
                 today : BOOLEAN, text : BOOLEAN, filters : BOOLEAN, searched : BOOLEAN,
                 typing : BOOLEAN, asked : Queries \cup {NoQuery}]
  /\ listas \in Islands \cup {NoIsland}
  /\ lost \subseteq {"pool", "search"}

=============================================================================

------------------------------ MODULE HttpCache ------------------------------
(***************************************************************************)
(* What HttpRemoteRepository keeps of the lists of restaurants: one copy   *)
(* per island (its pages are alike), read before the network and written   *)
(* after it (_withSwr, HttpCacheStore).                                    *)
(*                                                                         *)
(* A list is known by its version: how often the restaurants had changed   *)
(* in the server when it was made.  How old a copy is is left open: a read *)
(* may find it young, old enough to be renewed, or too old.                *)
(***************************************************************************)
EXTENDS Naturals, FiniteSets

CONSTANTS
  Islands, NoIsland,
  MaxVersion   \* bound: versions of the lists

ASSUME CacheAssumption == NoIsland \notin Islands /\ MaxVersion \in Nat \ {0}

VARIABLES
  server,      \* the version the server would answer with
  cached,      \* per island: the version of its row of http_cache, if any
  renewing     \* per island: its revalidation in the background

cacheVars == <<server, cached, renewing>>

Nothing  == 0
Versions == 1..MaxVersion
Found    == Versions \cup {Nothing}
Idle     == [at |-> "no", version |-> Nothing]

CacheInit ==
  /\ server = 1
  /\ cached \in [Islands -> {Nothing, 1}]
  /\ renewing = [i \in Islands |-> Idle]

(* A fetch is a record with an island, where it is and what it has found.  *)
OnTheWire(f) == f.at \in {"net", "back"}

(* A hit is served as it is, and may be renewed behind the caller's back;  *)
(* a copy too old is as good as none.                                      *)
ReadsCache(f, g) ==
  /\ f.at = "cache"
  /\ \/ /\ cached[f.island] # Nothing
        /\ g = [f EXCEPT !.at = "rest", !.version = cached[f.island]]
        /\ \/ UNCHANGED renewing
           \/ /\ renewing[f.island] = Idle
              /\ renewing' = [renewing EXCEPT ![f.island].at = "net"]
     \/ g = [f EXCEPT !.at = "net"] /\ UNCHANGED renewing
  /\ UNCHANGED <<server, cached>>

IsHandled(f, g) ==
  /\ f.at = "net"
  /\ g = [f EXCEPT !.at = "back", !.version = server]
  /\ UNCHANGED cacheVars

IsWritten(f, g) ==
  /\ f.at = "back"
  /\ cached' = [cached EXCEPT ![f.island] = f.version]
  /\ g = [f EXCEPT !.at = "rest"]
  /\ UNCHANGED <<server, renewing>>

(* No network, a status that is not 2xx, or 15 seconds: any copy will do.  *)
FallsBack(f, g) ==
  /\ OnTheWire(f) /\ cached[f.island] # Nothing
  /\ g = [f EXCEPT !.at = "rest", !.version = cached[f.island]]
  /\ UNCHANGED cacheVars

GoesOn(f, g) == ReadsCache(f, g) \/ IsHandled(f, g) \/ IsWritten(f, g) \/ FallsBack(f, g)

(* With no copy to fall back to the caller gets the error; the later pages *)
(* of a list may fail too.                                                 *)
GivesUp(f) ==
  /\ \/ OnTheWire(f) /\ cached[f.island] = Nothing
     \/ f.at = "rest"
  /\ UNCHANGED cacheVars

Renews(i) ==
  /\ \/ /\ renewing[i].at = "net"
        /\ renewing' = [renewing EXCEPT ![i] = [at |-> "back", version |-> server]]
        /\ UNCHANGED cached
     \/ /\ renewing[i].at = "back"
        /\ cached' = [cached EXCEPT ![i] = renewing[i].version]
        /\ renewing' = [renewing EXCEPT ![i] = Idle]
     \/ /\ renewing[i] # Idle            \* it fails, and nobody is told
        /\ renewing' = [renewing EXCEPT ![i] = Idle]
        /\ UNCHANGED cached
  /\ UNCHANGED server

ServerChanges ==
  /\ server < MaxVersion /\ server' = server + 1
  /\ UNCHANGED <<cached, renewing>>

(* invalidateCache('restaurants:'): every row of the prefix.               *)
OthersKept  == cached
Invalidated == [i \in Islands |-> Nothing]

CacheTypeOK ==
  /\ server \in Versions
  /\ cached \in [Islands -> Found]
  /\ renewing \in [Islands -> [at : {"no", "net", "back"}, version : Found]]

=============================================================================

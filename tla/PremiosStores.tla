---------------------------- MODULE PremiosStores ----------------------------
(***************************************************************************)
(* The two singletons the awards screens share (lib/ui/pages/premios):     *)
(* PremiosEditionStore, the edition in course, and PremiosVotedStore, what *)
(* this phone has voted in it.  Each keeps a copy on disk; both are        *)
(* written by a survey page, by the queries of "my votes" and of the       *)
(* edition, and by the home page, whose listener runs inside every change. *)
(*                                                                         *)
(* The life of one ballot is the subject of SurveyVote; here a page reads  *)
(* the edition, reads my-votes, and may have a vote counted.               *)
(***************************************************************************)
EXTENDS Naturals

CONSTANTS
  LastEdition,    \* editions are opened in order: 1, 2, ... LastEdition
  Business,
  Refresh         \* bound: GET editions/current that may be on their way

ASSUME EditionAssumption == LastEdition \in Nat

VARIABLES
  \* ---- the server (external)
  current,        \* the edition it serves
  box,            \* edition -> businesses this phone has voted for in it
  \* ---- secure storage
  editionDisk, votedDisk,
  \* ---- PremiosEditionStore
  edition, editionConfirmed, editionLoad,
  \* ---- PremiosVotedStore: store is (_edition, value)
  store, votedConfirmed, votedLoad, sync,
  \* ---- who uses them
  home,           \* the slot of the home page
  refreshes,      \* the answer each edition query is bringing
  page,           \* the survey page (V3PremiosFlowController)
  query           \* refreshFromServer of the "my votes" page

EditionId == 1..LastEdition
NoEdition == 0                  \* PremiosEdition.none, or a null id
Editions  == EditionId \cup {NoEdition}
Idle      == LastEdition + 1    \* no query of the edition on its way
Offline   == LastEdition + 2    \* an answer: the network failed

Votes   == [edition : Editions, voted : SUBSET Business]
NoVotes == [edition |-> NoEdition, voted |-> {}]

(* Not begun, waiting for the disk, done (_loaded and the read itself).    *)
Loads == {"no", "reading", "done"}

(* What a page or a query holds between two awaits.                        *)
FlowStages == {"none", "edition", "myVotes", "candidates", "ready", "submitting"}
Flow   == [at : FlowStages, edition : Editions, voted : SUBSET Business]
NoFlow == [at |-> "none", edition |-> NoEdition, voted |-> {}]

server       == <<current, box>>
editionStore == <<edition, editionConfirmed, editionLoad, editionDisk>>
votedStore   == <<store, votedConfirmed, votedLoad, votedDisk>>
vars == <<server, editionStore, votedStore, sync, home, refreshes, page, query>>

-----------------------------------------------------------------------------
(* Mutant: the votes of the other edition are relabelled, not dropped.     *)
ForEditionRelabels(e, s) ==
  IF e = NoEdition \/ e = s.edition \/ s.voted = {} THEN s
  ELSE [edition |-> e, voted |-> s.voted]

(* forEdition: what was voted in another edition does not count.           *)
ForEdition(e, s) ==
  IF e = NoEdition \/ e = s.edition \/ s.voted = {} THEN s
  ELSE [edition |-> e, voted |-> {}]

(* Mutant: the home page does not listen.                                  *)
NobodyHears(e, s) == s

(* _onChange of the home page, run inside the change of either store.      *)
Heard(e, s) ==
  IF home # "absent" /\ (e # edition \/ s # store) THEN ForEdition(e, s) ELSE s

(* _persist and _writeCache are not waited for: they may fail, or the      *)
(* process may die before them.                                            *)
Saved(disk, new) == {disk, new}

(* The edition becomes e.                                                  *)
SetEdition(e) ==
  /\ edition' = e
  /\ store' = Heard(e, store)
  /\ votedDisk' \in IF store' = store THEN {votedDisk} ELSE Saved(votedDisk, store')

(* update: the server's word on the votes of edition e.                    *)
Update(e, votes) ==
  /\ votedConfirmed' = TRUE
  /\ votedLoad' = IF votedLoad = "no" THEN "done" ELSE votedLoad
  /\ LET new == [edition |-> e, voted |-> votes]
     IN  /\ store' = Heard(edition, new)
         /\ votedDisk' \in IF new = store THEN {votedDisk} ELSE Saved(votedDisk, store')

(* publish: the edition a presenter has read.                              *)
Published(e) ==
  /\ editionLoad' = IF editionLoad = "no" THEN "done" ELSE editionLoad
  /\ editionConfirmed' = TRUE
  /\ editionDisk' \in Saved(editionDisk, e)

-----------------------------------------------------------------------------
AppStarts ==
  /\ edition' = NoEdition /\ editionConfirmed' = FALSE /\ editionLoad' = "no"
  /\ store' = NoVotes /\ votedConfirmed' = FALSE /\ votedLoad' = "no"
  /\ sync' = "idle" /\ home' = "absent"
  /\ refreshes' = [c \in Refresh |-> Idle]
  /\ page' = NoFlow /\ query' = NoFlow

Init ==
  /\ current = NoEdition /\ box = [e \in EditionId |-> {}]
  /\ editionDisk = NoEdition /\ votedDisk = NoVotes
  /\ edition = NoEdition /\ editionConfirmed = FALSE /\ editionLoad = "no"
  /\ store = NoVotes /\ votedConfirmed = FALSE /\ votedLoad = "no"
  /\ sync = "idle" /\ home = "absent"
  /\ refreshes = [c \in Refresh |-> Idle]
  /\ page = NoFlow /\ query = NoFlow

(* The process dies: only what reached the disk survives.                  *)
Restart ==
  /\ AppStarts
  /\ UNCHANGED <<server, editionDisk, votedDisk>>

(* The next edition opens (external).                                      *)
EditionOpens ==
  /\ current < LastEdition /\ current' = current + 1
  /\ UNCHANGED <<box, editionStore, votedStore, sync, home, refreshes, page, query>>

-----------------------------------------------------------------------------
(* PremiosEditionStore.                                                    *)

EnsureEdition == editionLoad' = IF editionLoad = "no" THEN "reading" ELSE editionLoad

(* refresh() leaves: the answer is fixed when the server gives it, and may *)
(* be read long after.                                                     *)
Asked(c) ==
  /\ refreshes[c] = Idle
  /\ \E a \in {current, Offline} : refreshes' = [refreshes EXCEPT ![c] = a]

(* _readCache: only a fresh copy counts, and only if the server has not    *)
(* spoken; then the server is asked.                                       *)
EditionCacheRead ==
  /\ editionLoad = "reading" /\ editionLoad' = "done"
  /\ \E c \in Refresh : Asked(c)
  /\ \E fresh \in BOOLEAN :
       IF fresh /\ editionDisk # NoEdition /\ ~editionConfirmed
         THEN SetEdition(editionDisk)
         ELSE UNCHANGED <<edition, store, votedDisk>>
  /\ UNCHANGED <<server, editionConfirmed, editionDisk, votedConfirmed, votedLoad,
                 sync, home, page, query>>

(* Pull to refresh, or refreshIfStale when the app comes back.             *)
RefreshAsked ==
  /\ home # "absent"
  /\ \E c \in Refresh : Asked(c)
  /\ UNCHANGED <<server, editionStore, votedStore, sync, home, page, query>>

(* Mutant: whatever comes back is taken for an edition.                    *)
RefreshTakesAnything(c) ==
  /\ refreshes[c] # Idle /\ refreshes' = [refreshes EXCEPT ![c] = Idle]
  /\ SetEdition(refreshes[c])
  /\ editionConfirmed' = TRUE
  /\ editionDisk' \in Saved(editionDisk, refreshes[c])
  /\ UNCHANGED <<server, editionLoad, votedConfirmed, votedLoad, sync, home, page,
                 query>>

(* refresh() ends: with an edition, without one (a 404 also clears the     *)
(* copy), or without network.                                              *)
RefreshEnds(c) ==
  /\ refreshes[c] # Idle /\ refreshes' = [refreshes EXCEPT ![c] = Idle]
  /\ \/ /\ refreshes[c] \in Editions
        /\ SetEdition(refreshes[c])
        /\ editionConfirmed' = TRUE
        /\ editionDisk' \in Saved(editionDisk, refreshes[c])
     \/ /\ refreshes[c] = Offline
        /\ SetEdition(NoEdition)
        /\ UNCHANGED <<editionConfirmed, editionDisk>>
  /\ UNCHANGED <<server, editionLoad, votedConfirmed, votedLoad, sync, home, page,
                 query>>

-----------------------------------------------------------------------------
(* The slot of the home page.                                              *)

(* initState: both stores are loaded once, and the slot starts listening.  *)
HomeOpens ==
  /\ home = "absent"
  /\ EnsureEdition
  /\ home' = IF votedLoad = "no" THEN "opening" ELSE "waiting"
  /\ votedLoad' = IF votedLoad = "no" THEN "reading" ELSE votedLoad
  /\ UNCHANGED <<server, edition, editionConfirmed, editionDisk, store,
                 votedConfirmed, votedDisk, sync, refreshes, page, query>>

(* Mutant: the copy on disk prevails over what the server has said.        *)
CacheAlwaysCounts == votedDisk.edition # NoEdition

(* A copy counts if it has an edition, and if the server has not spoken.   *)
CacheCounts == votedDisk.edition # NoEdition /\ ~votedConfirmed

(* PremiosVotedStore.ensureLoaded comes back from the disk.                *)
VotedCacheRead ==
  /\ votedLoad = "reading" /\ votedLoad' = "done"
  /\ IF CacheCounts
       THEN /\ store' = Heard(edition, votedDisk)
            /\ votedDisk' \in Saved(votedDisk, store')
       ELSE UNCHANGED <<store, votedDisk>>
  /\ home' = IF home = "opening" THEN "waiting" ELSE home
  /\ UNCHANGED <<server, editionStore, votedConfirmed, sync, refreshes, page, query>>

(* _init goes on once the copy of the edition is read.                     *)
HomeReady ==
  /\ home = "waiting" /\ editionLoad # "reading"
  /\ home' = "ready"
  /\ store' = ForEdition(edition, store)
  /\ votedDisk' \in IF store' = store THEN {votedDisk} ELSE Saved(votedDisk, store')
  /\ UNCHANGED <<server, editionStore, votedConfirmed, votedLoad, sync, refreshes,
                 page, query>>

HomeCloses ==
  /\ home # "absent" /\ home' = "absent"
  /\ UNCHANGED <<server, editionStore, votedStore, sync, refreshes, page, query>>

-----------------------------------------------------------------------------
(* A survey page: V3PremiosFlowController over its presenter.              *)

PageOpens ==
  /\ page.at = "none" /\ page' = [NoFlow EXCEPT !.at = "edition"]
  /\ EnsureEdition
  /\ UNCHANGED <<server, edition, editionConfirmed, editionDisk, votedStore, sync,
                 home, refreshes, query>>

(* The edition arrives: _sync publishes it.                                *)
PageReadsEdition ==
  /\ page.at = "edition" /\ current # NoEdition
  /\ page' = [page EXCEPT !.at = "myVotes", !.edition = current]
  /\ Published(current) /\ SetEdition(current)
  /\ UNCHANGED <<server, votedConfirmed, votedLoad, sync, home, refreshes, query>>

PageReadsMyVotes ==
  /\ page.at = "myVotes"
  /\ page' = [page EXCEPT !.at = "candidates", !.voted = box[page.edition]]
  /\ UNCHANGED <<server, editionStore, votedStore, sync, home, refreshes, query>>

(* _sync on "ready": when the candidates arrive, and at each tap after.    *)
PageSyncs ==
  /\ page.at \in {"candidates", "ready"}
  /\ page' = [page EXCEPT !.at = "ready"]
  /\ Update(page.edition, page.voted)
  /\ UNCHANGED <<server, editionStore, sync, home, refreshes, query>>

(* A vote is sent and the server counts it; the page may not live to know. *)
PageVotes(b) ==
  /\ page.at = "ready" /\ b \notin box[page.edition]
  /\ box' = [box EXCEPT ![page.edition] = @ \cup {b}]
  /\ page' = [page EXCEPT !.at = "submitting",
                          !.voted = box[page.edition] \cup {b}]
  /\ UNCHANGED <<current, editionStore, votedStore, sync, home, refreshes, query>>

(* _sync on "sent", with the votes of the receipt.                         *)
PageThanks ==
  /\ page.at = "submitting"
  /\ page' = [page EXCEPT !.at = "ready"]
  /\ Update(page.edition, page.voted)
  /\ UNCHANGED <<server, editionStore, sync, home, refreshes, query>>

(* The page is closed, or its load ends in a gate or in an error.          *)
PageCloses ==
  /\ page.at # "none" /\ page' = NoFlow
  /\ UNCHANGED <<server, editionStore, votedStore, sync, home, refreshes, query>>

-----------------------------------------------------------------------------
(* refreshFromServer: its own presenter, load()ed once.                    *)

QueryStarts ==
  /\ query.at = "none" /\ query' = [NoFlow EXCEPT !.at = "edition"]
  /\ sync' = "loading"
  /\ EnsureEdition
  /\ UNCHANGED <<server, edition, editionConfirmed, editionDisk, votedStore, home,
                 refreshes, page>>

QueryReadsEdition ==
  /\ query.at = "edition" /\ current # NoEdition
  /\ query' = [query EXCEPT !.at = "myVotes", !.edition = current]
  /\ UNCHANGED <<server, editionStore, votedStore, sync, home, refreshes, page>>

QueryReadsMyVotes ==
  /\ query.at = "myVotes"
  /\ query' = [query EXCEPT !.at = "candidates", !.voted = box[query.edition]]
  /\ UNCHANGED <<server, editionStore, votedStore, sync, home, refreshes, page>>

(* The votes store after update and then publish: the listener of the home *)
(* page has run in between, with the edition of before.                    *)
UpdatedThenPublished(new) ==
  LET updated == Heard(edition, new)
  IN  IF home # "absent" /\ new.edition # edition
        THEN ForEdition(new.edition, updated) ELSE updated

(* load() ends well: update, then sync, then publish.                      *)
QueryEnds ==
  /\ query.at = "candidates" /\ query' = NoFlow
  /\ LET new == [edition |-> query.edition, voted |-> query.voted]
     IN  /\ store' = UpdatedThenPublished(new)
         /\ votedDisk' \in IF new = store /\ store' = store THEN {votedDisk}
                           ELSE Saved(votedDisk, store')
  /\ votedConfirmed' = TRUE
  /\ votedLoad' = IF votedLoad = "no" THEN "done" ELSE votedLoad
  /\ sync' = "ok"
  /\ Published(query.edition) /\ edition' = query.edition
  /\ UNCHANGED <<server, home, refreshes, page>>

(* load() ends in a gate or in an error: the copy stays.                   *)
QueryFails ==
  /\ query.at # "none" /\ query' = NoFlow
  /\ sync' = "failed"
  /\ IF query.edition = NoEdition
       THEN UNCHANGED <<editionStore, store, votedDisk>>
       ELSE Published(query.edition) /\ SetEdition(query.edition)
  /\ UNCHANGED <<server, votedConfirmed, votedLoad, home, refreshes, page>>

-----------------------------------------------------------------------------
EditionNext == EditionCacheRead \/ RefreshAsked \/ \E c \in Refresh : RefreshEnds(c)
HomeNext    == HomeOpens \/ VotedCacheRead \/ HomeReady \/ HomeCloses
PageNext    == \/ PageOpens \/ PageReadsEdition \/ PageReadsMyVotes \/ PageSyncs
               \/ PageThanks \/ PageCloses \/ \E b \in Business : PageVotes(b)
QueryNext   == QueryStarts \/ QueryReadsEdition \/ QueryReadsMyVotes \/ QueryEnds
               \/ QueryFails

Next == Restart \/ EditionOpens \/ EditionNext \/ HomeNext \/ PageNext \/ QueryNext

Spec == Init /\ [][Next]_vars

-----------------------------------------------------------------------------
TypeOK ==
  /\ current \in Editions /\ box \in [EditionId -> SUBSET Business]
  /\ editionDisk \in Editions /\ votedDisk \in Votes
  /\ edition \in Editions /\ editionConfirmed \in BOOLEAN /\ editionLoad \in Loads
  /\ store \in Votes /\ votedConfirmed \in BOOLEAN /\ votedLoad \in Loads
  /\ sync \in {"idle", "loading", "ok", "failed"}
  /\ home \in {"absent", "opening", "waiting", "ready"}
  /\ refreshes \in [Refresh -> Editions \cup {Idle, Offline}]
  /\ page \in Flow /\ query \in Flow

(* The home page never says "you have voted" on account of another edition.*)
HomeShowsItsEdition ==
  home = "ready" /\ edition # NoEdition /\ store.voted # {}
    => store.edition = edition

Counted(s) == s.voted # {} => s.edition \in EditionId /\ s.voted \subseteq box[s.edition]

(* Whatever is read late, saved late or lost, what the phone shows as voted*)
(* in an edition, and what the next launch will show, was counted in it.   *)
VotedWereCounted == Counted(store) /\ Counted(votedDisk)

Forgets ==
  /\ store.edition = current
  /\ store'.edition # current \/ ~(store.voted \subseteq store'.voted)
  /\ store.voted # {}

(* While the app lives, votes of the edition in course are only forgotten  *)
(* when a late answer is believed: of my-votes, older than the last vote,  *)
(* or of editions/current, with an edition that is over.                   *)
OnlyLateAnswersForget ==
  [][Forgets => Restart \/ QueryEnds \/ edition' \notin {NoEdition, current}]_vars

(* "You have not voted yet" is only said if the server has confirmed it: a *)
(* query that brings votes leaves votes to show.                           *)
NotVotedIsConfirmed ==
  [][QueryEnds /\ query.voted # {} => store'.voted # {}]_vars

=============================================================================

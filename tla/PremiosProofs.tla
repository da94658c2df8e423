---------------------------- MODULE PremiosProofs ----------------------------
(***************************************************************************)
(* Theorems about PremiosStores, for any number of editions, any places    *)
(* and any queries of the edition on their way at once.                    *)
(***************************************************************************)
EXTENDS PremiosStores, TLAPS

USE EditionAssumption

(* A page or a query that has read an edition holds nothing but votes      *)
(* counted in it.                                                          *)
Holds(fl) ==
  /\ fl.at \notin {"none", "edition"} => fl.edition \in EditionId
  /\ fl.at \in {"none", "edition"} => fl.edition = NoEdition
  /\ fl.edition = NoEdition => fl.voted = {}
  /\ fl.edition \in EditionId => fl.voted \subseteq box[fl.edition]

(* Votes are the survey page's: from my-votes on it knows them all, and    *)
(* there are none in an edition later than its own, nor than the server's. *)
PageKnows ==
  /\ page.at \in {"candidates", "ready", "submitting"} => page.voted = box[page.edition]
  /\ page.edition # NoEdition => \A e \in EditionId : e > page.edition => box[e] = {}
  /\ page.edition <= current
  /\ \A e \in EditionId : e > current => box[e] = {}

(* Until the server speaks or the copy is read, there are no votes.        *)
NothingYet == ~votedConfirmed /\ votedLoad # "done" => store.voted = {}

StoresInv ==
  /\ TypeOK /\ HomeShowsItsEdition /\ VotedWereCounted
  /\ Holds(page) /\ Holds(query) /\ PageKnows /\ NothingYet

-----------------------------------------------------------------------------
(* The helpers.                                                            *)

LEMMA EditionsAre ==
  /\ NoEdition \in Editions /\ NoEdition \notin EditionId
  /\ Editions = EditionId \cup {NoEdition}
  /\ \A e \in Editions : e \in Nat
  /\ Idle \notin Editions /\ Offline \notin Editions
BY DEF Editions, EditionId, NoEdition, Idle, Offline

LEMMA NoneHeld == NoVotes \in Votes /\ NoFlow \in Flow
BY EditionsAre DEF NoVotes, Votes, NoFlow, Flow, FlowStages

(* forEdition keeps an edition's votes or none.                            *)
LEMMA ForEditionKeeps ==
  ASSUME NEW e \in Editions, NEW s \in Votes
  PROVE  LET t == ForEdition(e, s)
         IN  /\ t \in Votes /\ t.voted \subseteq s.voted
             /\ t.voted # {} => t = s
             /\ e # NoEdition /\ t.voted # {} => t.edition = e
             /\ e = NoEdition \/ e = s.edition => t = s
BY DEF ForEdition, Votes

LEMMA HeardKeeps ==
  ASSUME NEW e \in Editions, NEW s \in Votes
  PROVE  LET t == Heard(e, s)
         IN  /\ t \in Votes /\ t.voted \subseteq s.voted
             /\ t.voted # {} => t = s
             /\ e = NoEdition \/ e = s.edition => t = s
             /\ home # "absent" /\ (e # edition \/ s # store) /\ e # NoEdition /\ t.voted # {}
                  => t.edition = e
<1>1. CASE home # "absent" /\ (e # edition \/ s # store)
  BY <1>1, ForEditionKeeps DEF Heard
<1>2. CASE ~(home # "absent" /\ (e # edition \/ s # store))
  BY <1>2 DEF Heard
<1>3. QED
  BY <1>1, <1>2

LEMMA CountedKept ==
  ASSUME NEW s \in Votes, NEW t \in Votes, Counted(s),
         t.voted # {} => t = s
  PROVE  Counted(t)
BY DEF Counted

(* What a change of the stores leaves of them.                             *)
StoresKept ==
  /\ edition' \in Editions /\ store' \in Votes /\ votedDisk' \in Votes
  /\ HomeShowsItsEdition' /\ VotedWereCounted' /\ NothingYet'

LEMMA SameStores ==
  ASSUME StoresInv, UNCHANGED <<edition, store, votedDisk>>,
         \A e \in EditionId : box[e] \subseteq box'[e],
         home' = home \/ home' # "ready",
         votedConfirmed' = votedConfirmed, votedLoad = "done" => votedLoad' = "done"
  PROVE  StoresKept
<1>1. Counted(store)' /\ Counted(votedDisk)'
  BY DEF StoresInv, VotedWereCounted, Counted
<1>2. HomeShowsItsEdition'
  BY DEF StoresInv, HomeShowsItsEdition
<1>3. NothingYet'
  BY DEF StoresInv, NothingYet, TypeOK, Loads
<1>4. QED
  BY <1>1, <1>2, <1>3 DEF StoresKept, StoresInv, TypeOK, VotedWereCounted

LEMMA EditionSet ==
  ASSUME StoresInv, NEW e \in Editions, SetEdition(e),
         UNCHANGED <<box, home, votedConfirmed, votedLoad>>
  PROVE  StoresKept
<1> DEFINE t == Heard(e, store)
<1>1. store \in Votes /\ votedDisk \in Votes
  BY DEF StoresInv, TypeOK
<1>2. edition' = e /\ store' = t
  BY DEF SetEdition
<1>3. /\ t \in Votes /\ t.voted \subseteq store.voted
      /\ t.voted # {} => t = store
      /\ home # "absent" /\ e # edition /\ e # NoEdition /\ t.voted # {} => t.edition = e
  BY <1>1, HeardKeeps
<1> HIDE DEF t
<1>4. votedDisk' \in {votedDisk, t}
  BY <1>2 DEF SetEdition, Saved
<1>5. Counted(store) /\ Counted(votedDisk)
  BY DEF StoresInv, VotedWereCounted
<1>6. Counted(t)
  BY <1>1, <1>3, <1>5, CountedKept
<1>7. VotedWereCounted'
  BY <1>2, <1>4, <1>5, <1>6 DEF VotedWereCounted, Counted
<1>8. HomeShowsItsEdition'
  BY <1>2, <1>3 DEF StoresInv, HomeShowsItsEdition
<1>9. NothingYet'
  BY <1>2, <1>3 DEF StoresInv, NothingYet
<1>10. QED
  BY <1>1, <1>2, <1>3, <1>4, <1>7, <1>8, <1>9 DEF StoresKept

LEMMA StoreUpdated ==
  ASSUME StoresInv, NEW e \in EditionId, NEW votes \in SUBSET Business,
         votes \subseteq box[e], Update(e, votes), UNCHANGED <<box, home, edition>>
  PROVE  StoresKept
<1> DEFINE new == [edition |-> e, voted |-> votes]
           t   == Heard(edition, new)
<1>1. new \in Votes /\ edition \in Editions /\ votedDisk \in Votes
  BY EditionsAre DEF StoresInv, TypeOK, Votes
<1>2. /\ store' = t /\ votedConfirmed' = TRUE
      /\ votedDisk' \in IF new = store THEN {votedDisk} ELSE Saved(votedDisk, t)
  BY DEF Update
<1>3. /\ t \in Votes
      /\ t.voted # {} => t = new
      /\ home # "absent" /\ new # store /\ edition # NoEdition /\ t.voted # {}
           => t.edition = edition
  BY <1>1, HeardKeeps
<1>4. new = store => t = store
  BY DEF Heard
<1>5. Counted(new)
  BY DEF Counted
<1> HIDE DEF t, new
<1>6. votedDisk' \in {votedDisk, t}
  BY <1>2 DEF Saved
<1>7. Counted(t) /\ Counted(votedDisk)
  BY <1>1, <1>3, <1>5, CountedKept DEF StoresInv, VotedWereCounted
<1>8. VotedWereCounted'
  BY <1>2, <1>6, <1>7 DEF VotedWereCounted, Counted
<1>9. HomeShowsItsEdition'
  BY <1>2, <1>3, <1>4 DEF StoresInv, HomeShowsItsEdition
<1>10. NothingYet'
  BY <1>2 DEF NothingYet
<1>11. QED
  BY <1>1, <1>2, <1>3, <1>6, <1>8, <1>9, <1>10 DEF StoresKept

-----------------------------------------------------------------------------
(* The steps.                                                              *)

OtherTypes ==
  /\ current \in Editions /\ box \in [EditionId -> SUBSET Business]
  /\ editionDisk \in Editions /\ editionConfirmed \in BOOLEAN /\ editionLoad \in Loads
  /\ votedConfirmed \in BOOLEAN /\ votedLoad \in Loads
  /\ sync \in {"idle", "loading", "ok", "failed"}
  /\ home \in {"absent", "opening", "waiting", "ready"}
  /\ refreshes \in [Refresh -> Editions \cup {Idle, Offline}]
  /\ page \in Flow /\ query \in Flow

FlowsHold == Holds(page) /\ Holds(query) /\ PageKnows

LEMMA OthersAre == StoresInv => OtherTypes /\ FlowsHold
BY DEF StoresInv, TypeOK, OtherTypes, FlowsHold

LEMMA Joined == ASSUME StoresKept, OtherTypes', FlowsHold' PROVE StoresInv'
BY DEF StoresKept, OtherTypes, FlowsHold, StoresInv, TypeOK

LEMMA FlowsStay == ASSUME FlowsHold, UNCHANGED <<current, box, page, query>> PROVE FlowsHold'
BY DEF FlowsHold, Holds, PageKnows

LEMMA InitHolds == Init => StoresInv
<1> SUFFICES ASSUME Init PROVE StoresInv
  OBVIOUS
<1>1. TypeOK
  BY EditionsAre, NoneHeld DEF Init, TypeOK, Loads
<1>2. VotedWereCounted /\ HomeShowsItsEdition /\ NothingYet
  BY DEF Init, VotedWereCounted, Counted, HomeShowsItsEdition, NothingYet, NoVotes
<1>3. Holds(page) /\ Holds(query) /\ PageKnows
  BY EditionsAre DEF Init, Holds, PageKnows, NoFlow
<1>4. QED
  BY <1>1, <1>2, <1>3 DEF StoresInv

LEMMA ServerStep == ASSUME StoresInv, Restart \/ EditionOpens PROVE StoresInv'
<1>1. CASE Restart
  <2>1. OtherTypes'
    BY <1>1, EditionsAre, NoneHeld, OthersAre DEF Restart, AppStarts, server, OtherTypes, Loads
  <2>2. FlowsHold'
    <3>1. /\ page' = NoFlow /\ query' = NoFlow /\ UNCHANGED <<current, box>>
          /\ current \in Nat
      BY <1>1, EditionsAre, OthersAre DEF Restart, AppStarts, server, OtherTypes
    <3>2. NoFlow.at = "none" /\ NoFlow.edition = NoEdition /\ NoFlow.voted = {}
      BY DEF NoFlow
    <3>3. Holds(page)' /\ Holds(query)'
      BY <3>1, <3>2, EditionsAre DEF Holds
    <3>4. PageKnows'
      BY <3>1, <3>2, OthersAre DEF FlowsHold, PageKnows, NoEdition
    <3>5. QED
      BY <3>3, <3>4 DEF FlowsHold
  <2>3. edition' \in Editions /\ store' \in Votes /\ votedDisk' \in Votes
    BY <1>1, EditionsAre, NoneHeld DEF Restart, AppStarts, StoresInv, TypeOK
  <2>4. HomeShowsItsEdition' /\ VotedWereCounted' /\ NothingYet'
    BY <1>1 DEF Restart, AppStarts, server, HomeShowsItsEdition, VotedWereCounted, Counted,
                NothingYet, NoVotes, StoresInv
  <2>5. QED
    BY <2>1, <2>2, <2>3, <2>4, Joined DEF StoresKept
<1>2. CASE EditionOpens
  <2>1. /\ current' = current + 1 /\ current < LastEdition
        /\ UNCHANGED <<box, editionStore, votedStore, sync, home, refreshes, page, query>>
    BY <1>2 DEF EditionOpens
  <2>2. StoresKept
    BY <2>1, SameStores DEF editionStore, votedStore
  <2>3. current \in Nat /\ current' \in Editions
    <3>1. current \in Editions
      BY OthersAre DEF OtherTypes
    <3>2. current \in Nat
      BY <3>1, EditionsAre
    <3>3. current + 1 \in 1..LastEdition
      BY <2>1, <3>2
    <3>4. QED
      BY <2>1, <3>2, <3>3 DEF Editions, EditionId
  <2>4. OtherTypes'
    BY <2>1, <2>3, OthersAre DEF OtherTypes, editionStore, votedStore
  <2>5. page.edition \in Nat
    BY OthersAre, EditionsAre DEF OtherTypes, Flow
  <2>6. FlowsHold'
    BY <2>1, <2>3, <2>5, OthersAre DEF FlowsHold, Holds, PageKnows, EditionId
  <2>7. QED
    BY <2>2, <2>4, <2>6, Joined
<1>3. QED
  BY <1>1, <1>2

LEMMA EditionStep == ASSUME StoresInv, EditionNext PROVE StoresInv'
<1>1. UNCHANGED <<current, box, page, query>>
  BY DEF EditionNext, EditionCacheRead, RefreshAsked, RefreshEnds, server
<1>2. FlowsHold'
  BY <1>1, FlowsStay, OthersAre
<1>3. CASE EditionCacheRead
  <2>1. PICK c \in Refresh : Asked(c)
    BY <1>3 DEF EditionCacheRead
  <2>2. OtherTypes'
    BY <1>3, <2>1, OthersAre DEF EditionCacheRead, Asked, OtherTypes, Loads, server
  <2>3. StoresKept
    <3>1. CASE SetEdition(editionDisk)
      BY <1>3, <3>1, EditionSet, OthersAre DEF EditionCacheRead, OtherTypes, server
    <3>2. CASE UNCHANGED <<edition, store, votedDisk>>
      BY <1>3, <3>2, SameStores DEF EditionCacheRead, server
    <3>3. QED
      BY <1>3, <3>1, <3>2 DEF EditionCacheRead
  <2>4. QED
    BY <1>2, <2>2, <2>3, Joined
<1>4. CASE RefreshAsked
  <2>1. PICK c \in Refresh : Asked(c)
    BY <1>4 DEF RefreshAsked
  <2>2. OtherTypes'
    BY <1>4, <2>1, OthersAre
       DEF RefreshAsked, Asked, OtherTypes, server, editionStore, votedStore
  <2>3. StoresKept
    BY <1>4, SameStores DEF RefreshAsked, server, editionStore, votedStore
  <2>4. QED
    BY <1>2, <2>2, <2>3, Joined
<1>5. ASSUME NEW c \in Refresh, RefreshEnds(c) PROVE StoresInv'
  <2>1. OtherTypes'
    BY <1>5, OthersAre DEF RefreshEnds, OtherTypes, server, Saved
  <2>2. PICK e \in Editions : SetEdition(e)
    BY <1>5, EditionsAre DEF RefreshEnds
  <2>3. StoresKept
    BY <1>5, <2>2, EditionSet DEF RefreshEnds, server
  <2>4. QED
    BY <1>2, <2>1, <2>3, Joined
<1>6. QED
  BY <1>3, <1>4, <1>5 DEF EditionNext

LEMMA HomeStep == ASSUME StoresInv, HomeNext PROVE StoresInv'
<1>1. UNCHANGED <<current, box, page, query>>
  BY DEF HomeNext, HomeOpens, VotedCacheRead, HomeReady, HomeCloses, server
<1>2. FlowsHold'
  BY <1>1, FlowsStay, OthersAre
<1>3. CASE HomeOpens
  <2>1. OtherTypes'
    BY <1>3, OthersAre DEF HomeOpens, EnsureEdition, OtherTypes, Loads, server
  <2>2. StoresKept
    BY <1>3, SameStores DEF HomeOpens, server
  <2>3. QED
    BY <1>2, <2>1, <2>2, Joined
<1>4. CASE HomeCloses
  <2>1. OtherTypes'
    BY <1>4, OthersAre DEF HomeCloses, OtherTypes, server, editionStore, votedStore
  <2>2. StoresKept
    BY <1>4, SameStores DEF HomeCloses, server, editionStore, votedStore
  <2>3. QED
    BY <1>2, <2>1, <2>2, Joined
<1>5. CASE HomeReady
  <2> DEFINE t == ForEdition(edition, store)
  <2>1. /\ store' = t /\ votedDisk' \in {votedDisk, t}
        /\ UNCHANGED <<server, editionStore, votedConfirmed, votedLoad, sync, refreshes>>
    BY <1>5 DEF HomeReady, Saved
  <2>2. store \in Votes /\ votedDisk \in Votes /\ edition \in Editions
    BY DEF StoresInv, TypeOK
  <2>3. /\ t \in Votes /\ t.voted \subseteq store.voted /\ (t.voted # {} => t = store)
        /\ edition # NoEdition /\ t.voted # {} => t.edition = edition
    BY <2>2, ForEditionKeeps
  <2> HIDE DEF t
  <2>4. Counted(t) /\ Counted(votedDisk)
    BY <2>2, <2>3, CountedKept DEF StoresInv, VotedWereCounted
  <2>5. StoresKept
    BY <2>1, <2>2, <2>3, <2>4
       DEF StoresKept, StoresInv, HomeShowsItsEdition, VotedWereCounted, Counted, NothingYet,
           server, editionStore
  <2>6. OtherTypes'
    BY <1>5, <2>1, OthersAre DEF HomeReady, OtherTypes, server, editionStore
  <2>7. QED
    BY <1>2, <2>5, <2>6, Joined
<1>6. CASE VotedCacheRead
  <2>1. OtherTypes'
    BY <1>6, OthersAre DEF VotedCacheRead, OtherTypes, Loads, server, editionStore
  <2>2. CASE ~CacheCounts
    <3>1. StoresKept
      BY <1>6, <2>2, SameStores DEF VotedCacheRead, server, editionStore
    <3>2. QED
      BY <1>2, <2>1, <3>1, Joined
  <2>3. CASE CacheCounts
    <3> DEFINE t == Heard(edition, votedDisk)
    <3>1. /\ store' = t /\ votedDisk' \in {votedDisk, t}
          /\ votedLoad' = "done" /\ edition' = edition /\ box' = box
      BY <1>6, <2>3 DEF VotedCacheRead, Saved, server, editionStore
    <3>2. votedDisk \in Votes /\ edition \in Editions /\ store.voted = {}
      BY <1>6, <2>3 DEF StoresInv, TypeOK, NothingYet, CacheCounts, VotedCacheRead
    <3>3. /\ t \in Votes /\ (t.voted # {} => t = votedDisk)
          /\ home # "absent" /\ votedDisk # store /\ edition # NoEdition /\ t.voted # {}
               => t.edition = edition
      BY <3>2, HeardKeeps
    <3> HIDE DEF t
    <3>4. Counted(t) /\ Counted(votedDisk)
      BY <3>2, <3>3, CountedKept DEF StoresInv, VotedWereCounted
    <3>5. home' = "ready" => home # "absent"
      BY <1>6 DEF VotedCacheRead
    <3>6. HomeShowsItsEdition'
      BY <3>1, <3>2, <3>3, <3>5 DEF HomeShowsItsEdition
    <3>7. StoresKept
      BY <3>1, <3>2, <3>3, <3>4, <3>6 DEF StoresKept, VotedWereCounted, Counted, NothingYet
    <3>8. QED
      BY <1>2, <2>1, <3>7, Joined
  <2>4. QED
    BY <2>2, <2>3
<1>7. QED
  BY <1>3, <1>4, <1>5, <1>6 DEF HomeNext

LEMMA PageStep == ASSUME StoresInv, PageNext PROVE StoresInv'
<1>1. page \in Flow /\ box \in [EditionId -> SUBSET Business] /\ current \in Editions
  BY OthersAre DEF OtherTypes
<1>2. CASE PageOpens \/ PageCloses
  <2>1. page'.at \in {"edition", "none"} /\ page'.edition = NoEdition /\ page'.voted = {}
    BY <1>2 DEF PageOpens, PageCloses, NoFlow
  <2>2. /\ UNCHANGED <<server, edition, editionConfirmed, editionDisk, votedStore, sync,
                       home, refreshes, query>>
        /\ editionLoad' \in {editionLoad, "reading"}
    BY <1>2 DEF PageOpens, PageCloses, EnsureEdition, editionStore
  <2>3. page' \in Flow
    BY <1>2, EditionsAre DEF PageOpens, PageCloses, NoFlow, Flow, FlowStages
  <2>4. OtherTypes'
    BY <2>2, <2>3, OthersAre DEF OtherTypes, Loads, server, votedStore
  <2>5. StoresKept
    BY <2>2, SameStores DEF server, votedStore
  <2>6. FlowsHold'
    <3>1. current \in Nat /\ UNCHANGED <<current, box, query>>
      BY <1>1, <2>2, EditionsAre DEF server
    <3>2. Holds(page)' /\ Holds(query)'
      BY <2>1, <3>1, EditionsAre, OthersAre DEF FlowsHold, Holds
    <3>3. PageKnows'
      BY <2>1, <3>1, OthersAre DEF FlowsHold, PageKnows, NoEdition
    <3>4. QED
      BY <3>2, <3>3 DEF FlowsHold
  <2>7. QED
    BY <2>4, <2>5, <2>6, Joined
<1>3. CASE PageReadsEdition
  <2>1. /\ page.at = "edition" /\ current # NoEdition /\ SetEdition(current)
        /\ page' = [page EXCEPT !.at = "myVotes", !.edition = current]
        /\ UNCHANGED <<server, votedConfirmed, votedLoad, sync, home, refreshes, query>>
    BY <1>3 DEF PageReadsEdition
  <2>2. /\ page'.at = "myVotes" /\ page'.edition = current /\ page'.voted = page.voted
        /\ page' \in Flow
    BY <1>1, <2>1 DEF Flow, FlowStages
  <2>3. OtherTypes'
    BY <1>1, <1>3, <2>1, <2>2, OthersAre
       DEF PageReadsEdition, Published, Saved, OtherTypes, Loads, server
  <2>4. StoresKept
    BY <1>1, <2>1, EditionSet DEF server
  <2>5. page.edition = NoEdition /\ page.voted = {}
    BY <2>1, OthersAre DEF FlowsHold, Holds, PageKnows
  <2>6. FlowsHold'
    BY <1>1, <2>1, <2>2, <2>5, EditionsAre, OthersAre DEF FlowsHold, Holds, PageKnows, server
  <2>7. QED
    BY <2>3, <2>4, <2>6, Joined
<1>4. CASE PageReadsMyVotes
  <2>1. /\ page.at = "myVotes"
        /\ page' = [page EXCEPT !.at = "candidates", !.voted = box[page.edition]]
        /\ UNCHANGED <<server, editionStore, votedStore, sync, home, refreshes, query>>
    BY <1>4 DEF PageReadsMyVotes
  <2>2. page.edition \in EditionId
    BY <2>1, OthersAre DEF FlowsHold, Holds
  <2>3. /\ page'.at = "candidates" /\ page'.edition = page.edition
        /\ page'.voted = box[page.edition] /\ page' \in Flow
    BY <1>1, <2>1, <2>2 DEF Flow, FlowStages
  <2>4. OtherTypes'
    BY <2>1, <2>3, OthersAre DEF OtherTypes, server, editionStore, votedStore
  <2>5. StoresKept
    BY <2>1, SameStores DEF server, editionStore, votedStore
  <2>6. FlowsHold'
    BY <2>1, <2>2, <2>3, EditionsAre, OthersAre DEF FlowsHold, Holds, PageKnows, server
  <2>7. QED
    BY <2>4, <2>5, <2>6, Joined
<1>5. CASE PageSyncs \/ PageThanks
  <2>1. /\ page.at \in {"candidates", "ready", "submitting"}
        /\ page' = [page EXCEPT !.at = "ready"] /\ Update(page.edition, page.voted)
        /\ UNCHANGED <<server, editionStore, sync, home, refreshes, query>>
    BY <1>5 DEF PageSyncs, PageThanks
  <2>2. page.edition \in EditionId /\ page.voted \subseteq box[page.edition]
    BY <2>1, OthersAre DEF FlowsHold, Holds
  <2>3. /\ page'.at = "ready" /\ page'.edition = page.edition
        /\ page'.voted = page.voted /\ page' \in Flow /\ page.voted \in SUBSET Business
    BY <1>1, <2>1 DEF Flow, FlowStages
  <2>4. OtherTypes'
    BY <2>1, <2>3, OthersAre DEF Update, OtherTypes, Loads, server, editionStore
  <2>5. StoresKept
    BY <2>1, <2>2, <2>3, StoreUpdated DEF server, editionStore
  <2>6. FlowsHold'
    BY <2>1, <2>2, <2>3, EditionsAre, OthersAre DEF FlowsHold, Holds, PageKnows, server
  <2>7. QED
    BY <2>4, <2>5, <2>6, Joined
<1>6. ASSUME NEW b \in Business, PageVotes(b) PROVE StoresInv'
  <2> DEFINE e == page.edition
  <2>1. /\ page.at = "ready"
        /\ box' = [box EXCEPT ![e] = box[e] \cup {b}]
        /\ page' = [page EXCEPT !.at = "submitting", !.voted = box[e] \cup {b}]
        /\ UNCHANGED <<current, editionStore, votedStore, sync, home, refreshes, query>>
    BY <1>6 DEF PageVotes
  <2>2. e \in EditionId
    BY <2>1, OthersAre DEF FlowsHold, Holds
  <2>3. /\ box' \in [EditionId -> SUBSET Business] /\ box'[e] = box[e] \cup {b}
        /\ \A d \in EditionId : d # e => box'[d] = box[d]
        /\ \A d \in EditionId : box[d] \subseteq box'[d]
    BY <1>1, <2>1, <2>2
  <2>4. /\ page'.at = "submitting" /\ page'.edition = e
        /\ page'.voted = box'[e] /\ page' \in Flow
    <3>1. box[e] \cup {b} \in SUBSET Business
      BY <1>1, <2>2
    <3>2. QED
      BY <1>1, <2>1, <2>3, <3>1 DEF Flow, FlowStages
  <2>5. OtherTypes'
    BY <2>1, <2>3, <2>4, OthersAre DEF OtherTypes, editionStore, votedStore
  <2>6. StoresKept
    BY <2>1, <2>3, SameStores DEF editionStore, votedStore
  <2>7. \A d \in EditionId : d \in Nat /\ e \in Nat
    BY <2>2 DEF EditionId
  <2>8. PageKnows'
    <3>1. e <= current /\ current \in Nat
      BY <1>1, EditionsAre, OthersAre DEF FlowsHold, PageKnows
    <3>2. \A d \in EditionId : d > e \/ d > current => d # e /\ box'[d] = box[d]
      BY <2>3, <2>7, <3>1
    <3>3. e # NoEdition
      BY <2>2, EditionsAre
    <3>4. QED
      BY <2>1, <2>4, <3>1, <3>2, <3>3, OthersAre DEF FlowsHold, PageKnows
  <2>9. Holds(page)' /\ Holds(query)'
    <3>1. Holds(query)'
      BY <2>1, <2>3, OthersAre DEF FlowsHold, Holds
    <3>2. Holds(page)'
      BY <2>2, <2>4, EditionsAre DEF Holds
    <3>3. QED
      BY <3>1, <3>2
  <2>10. QED
    BY <2>5, <2>6, <2>8, <2>9, Joined DEF FlowsHold
<1>7. QED
  BY <1>2, <1>3, <1>4, <1>5, <1>6 DEF PageNext

(* Votes and edition are heard twice, with the edition of before between.  *)
LEMMA TwiceHeard ==
  ASSUME StoresInv, NEW e \in EditionId, NEW votes \in SUBSET Business,
         votes \subseteq box[e]
  PROVE  LET t == UpdatedThenPublished([edition |-> e, voted |-> votes])
         IN  /\ t \in Votes /\ Counted(t)
             /\ t.voted # {} => t.edition = e
<1> DEFINE new == [edition |-> e, voted |-> votes]
           u   == Heard(edition, new)
           t   == UpdatedThenPublished(new)
<1>1. new \in Votes /\ edition \in Editions /\ e \in Editions /\ Counted(new)
      /\ new.edition = e
  BY EditionsAre DEF StoresInv, TypeOK, Votes, Counted
<1>2. t = IF home # "absent" /\ new.edition # edition THEN ForEdition(e, u) ELSE u
  BY <1>1 DEF UpdatedThenPublished
<1> HIDE DEF new, t
<1>3. u \in Votes /\ (u.voted # {} => u = new)
  BY <1>1, HeardKeeps
<1> HIDE DEF u
<1>4. t \in Votes /\ (t.voted # {} => t = u /\ u = new)
  BY <1>1, <1>2, <1>3, ForEditionKeeps
<1>5. Counted(t) /\ (t.voted # {} => t.edition = e)
  BY <1>1, <1>4, CountedKept
<1>6. QED
  BY <1>4, <1>5 DEF new, t

LEMMA QueryStep == ASSUME StoresInv, QueryNext PROVE StoresInv'
<1>1. query \in Flow /\ box \in [EditionId -> SUBSET Business] /\ current \in Editions
      /\ current \in Nat /\ Holds(query) /\ Holds(page) /\ PageKnows
  BY OthersAre, EditionsAre DEF OtherTypes, FlowsHold
<1>2. ASSUME UNCHANGED <<current, box, page>>, Holds(query)' PROVE FlowsHold'
  <2>1. Holds(page)'
    BY <1>1, <1>2 DEF Holds
  <2>2. PageKnows'
    BY <1>1, <1>2 DEF PageKnows
  <2>3. QED
    BY <1>2, <2>1, <2>2 DEF FlowsHold
<1>3. ASSUME query' = NoFlow PROVE query' \in Flow /\ Holds(query)'
  <2>1. NoFlow.at = "none" /\ NoFlow.edition = NoEdition /\ NoFlow.voted = {}
    BY DEF NoFlow
  <2>2. QED
    BY <1>3, <2>1, NoneHeld, EditionsAre DEF Holds
<1>4. CASE QueryStarts
  <2>1. /\ query' = [NoFlow EXCEPT !.at = "edition"] /\ sync' = "loading"
        /\ editionLoad' \in {editionLoad, "reading"}
        /\ UNCHANGED <<server, edition, editionConfirmed, editionDisk, votedStore, home,
                       refreshes, page>>
    BY <1>4 DEF QueryStarts, EnsureEdition
  <2>2. /\ query'.at = "edition" /\ query'.edition = NoEdition /\ query'.voted = {}
        /\ query' \in Flow
    BY <2>1, EditionsAre DEF NoFlow, Flow, FlowStages
  <2>3. OtherTypes'
    BY <2>1, <2>2, OthersAre DEF OtherTypes, Loads, server, votedStore
  <2>4. StoresKept
    BY <2>1, SameStores DEF server, votedStore
  <2>5. Holds(query)'
    BY <2>2, EditionsAre DEF Holds
  <2>6. QED
    BY <1>2, <2>1, <2>3, <2>4, <2>5, Joined DEF server
<1>5. CASE QueryReadsEdition
  <2>1. /\ query.at = "edition" /\ current # NoEdition
        /\ query' = [query EXCEPT !.at = "myVotes", !.edition = current]
        /\ UNCHANGED <<server, editionStore, votedStore, sync, home, refreshes, page>>
    BY <1>5 DEF QueryReadsEdition
  <2>2. /\ query'.at = "myVotes" /\ query'.edition = current /\ query'.voted = query.voted
        /\ query' \in Flow
    BY <1>1, <2>1 DEF Flow, FlowStages
  <2>3. OtherTypes'
    BY <2>1, <2>2, OthersAre DEF OtherTypes, server, editionStore, votedStore
  <2>4. StoresKept
    BY <2>1, SameStores DEF server, editionStore, votedStore
  <2>5. query.voted = {}
    BY <1>1, <2>1 DEF Holds
  <2>6. Holds(query)'
    BY <1>1, <2>1, <2>2, <2>5, EditionsAre DEF Holds
  <2>7. QED
    BY <1>2, <2>1, <2>3, <2>4, <2>6, Joined DEF server
<1>6. CASE QueryReadsMyVotes
  <2>1. /\ query.at = "myVotes"
        /\ query' = [query EXCEPT !.at = "candidates", !.voted = box[query.edition]]
        /\ UNCHANGED <<server, editionStore, votedStore, sync, home, refreshes, page>>
    BY <1>6 DEF QueryReadsMyVotes
  <2>2. query.edition \in EditionId
    BY <1>1, <2>1 DEF Holds
  <2>3. /\ query'.at = "candidates" /\ query'.edition = query.edition
        /\ query'.voted = box[query.edition] /\ query' \in Flow
    BY <1>1, <2>1, <2>2 DEF Flow, FlowStages
  <2>4. OtherTypes'
    BY <2>1, <2>3, OthersAre DEF OtherTypes, server, editionStore, votedStore
  <2>5. StoresKept
    BY <2>1, SameStores DEF server, editionStore, votedStore
  <2>6. Holds(query)'
    BY <2>1, <2>2, <2>3, EditionsAre DEF Holds, server
  <2>7. QED
    BY <1>2, <2>1, <2>4, <2>5, <2>6, Joined DEF server
<1>7. CASE QueryEnds
  <2> DEFINE e   == query.edition
             new == [edition |-> e, voted |-> query.voted]
  <2>1. e \in EditionId /\ query.voted \in SUBSET Business /\ query.voted \subseteq box[e]
    BY <1>1, <1>7 DEF QueryEnds, Holds, Flow
  <2>2. /\ query' = NoFlow /\ store' = UpdatedThenPublished(new)
        /\ votedDisk' \in {votedDisk, store'}
        /\ votedConfirmed' = TRUE /\ votedLoad' \in {votedLoad, "done"}
        /\ sync' = "ok" /\ edition' = e /\ editionConfirmed' = TRUE
        /\ editionLoad' \in {editionLoad, "done"} /\ editionDisk' \in {editionDisk, e}
        /\ UNCHANGED <<server, home, refreshes, page>>
    BY <1>7 DEF QueryEnds, Published, Saved
  <2>3. store' \in Votes /\ Counted(store') /\ (store'.voted # {} => store'.edition = e)
    BY <2>1, <2>2, TwiceHeard
  <2>4. OtherTypes'
    BY <1>3, <2>1, <2>2, EditionsAre, OthersAre DEF OtherTypes, Loads, server
  <2>5. edition' \in Editions /\ votedDisk \in Votes /\ Counted(votedDisk)
    BY <2>1, <2>2, EditionsAre DEF StoresInv, TypeOK, VotedWereCounted
  <2>6. VotedWereCounted'
    BY <2>2, <2>3, <2>5 DEF VotedWereCounted, Counted, server
  <2>7. HomeShowsItsEdition' /\ NothingYet'
    BY <2>2, <2>3 DEF HomeShowsItsEdition, NothingYet
  <2>8. StoresKept
    BY <2>2, <2>3, <2>5, <2>6, <2>7 DEF StoresKept
  <2>9. QED
    BY <1>2, <1>3, <2>2, <2>4, <2>8, Joined DEF server
<1>8. CASE QueryFails
  <2>1. /\ query' = NoFlow /\ sync' = "failed"
        /\ UNCHANGED <<server, votedConfirmed, votedLoad, home, refreshes, page>>
    BY <1>8 DEF QueryFails
  <2>2. CASE query.edition = NoEdition
    <3>1. UNCHANGED <<editionStore, store, votedDisk>>
      BY <1>8, <2>2 DEF QueryFails
    <3>2. OtherTypes'
      BY <1>3, <2>1, <3>1, OthersAre DEF OtherTypes, server, editionStore
    <3>3. StoresKept
      BY <2>1, <3>1, SameStores DEF server, editionStore
    <3>4. QED
      BY <1>2, <1>3, <2>1, <3>2, <3>3, Joined DEF server
  <2>3. CASE query.edition # NoEdition
    <3>1. Published(query.edition) /\ SetEdition(query.edition)
      BY <1>8, <2>3 DEF QueryFails
    <3>2. query.edition \in Editions
      BY <1>1 DEF Flow
    <3>3. OtherTypes'
      BY <1>3, <2>1, <3>1, <3>2, OthersAre
         DEF Published, Saved, OtherTypes, Loads, server
    <3>4. StoresKept
      BY <2>1, <3>1, <3>2, EditionSet DEF server
    <3>5. QED
      BY <1>2, <1>3, <2>1, <3>3, <3>4, Joined DEF server
  <2>4. QED
    BY <2>2, <2>3
<1>9. QED
  BY <1>4, <1>5, <1>6, <1>7, <1>8 DEF QueryNext

LEMMA NextStep == ASSUME StoresInv, [Next]_vars PROVE StoresInv'
<1>1. CASE UNCHANGED vars
  <2>1. /\ UNCHANGED <<current, box, editionDisk, votedDisk, edition, editionConfirmed>>
        /\ UNCHANGED <<editionLoad, store, votedConfirmed, votedLoad, sync, home>>
        /\ UNCHANGED <<refreshes, page, query>>
    BY <1>1 DEF vars, server, editionStore, votedStore
  <2>2. TypeOK' /\ HomeShowsItsEdition' /\ VotedWereCounted' /\ NothingYet'
    BY <2>1 DEF StoresInv, TypeOK, HomeShowsItsEdition, VotedWereCounted, Counted, NothingYet
  <2>3. FlowsHold'
    BY <2>1, OthersAre, FlowsStay
  <2>4. QED
    BY <2>2, <2>3 DEF StoresInv, FlowsHold
<1>2. QED
  BY <1>1, ServerStep, EditionStep, HomeStep, PageStep, QueryStep DEF Next

-----------------------------------------------------------------------------
(* The theorems.                                                           *)

(* All of the above holds of every reachable state: what a page and a      *)
(* query hold between two awaits (Holds, PageKnows) is what makes their    *)
(* writes into the stores safe however late they come.                     *)
THEOREM StoresAreConsistent == Spec => []StoresInv
<1>1. Init => StoresInv
  BY InitHolds
<1>2. StoresInv /\ [Next]_vars => StoresInv'
  BY NextStep
<1>3. QED
  BY <1>1, <1>2, PTL DEF Spec

(* The two stores, their copies on disk and whoever writes them keep their *)
(* types: no edition the server has not opened, no vote without one.       *)
THEOREM StoresTypeCorrect == Spec => []TypeOK
<1>1. StoresInv => TypeOK
  BY DEF StoresInv
<1>2. QED
  BY <1>1, StoresAreConsistent, PTL

(* Once its slot is ready the home page never says "you have voted" on     *)
(* account of another edition, in whatever order the two stores change.    *)
THEOREM HomeIsOfItsEdition == Spec => []HomeShowsItsEdition
<1>1. StoresInv => HomeShowsItsEdition
  BY DEF StoresInv
<1>2. QED
  BY <1>1, StoresAreConsistent, PTL

(* Whatever is read late, saved late or lost with the process, what the    *)
(* phone holds as voted, and its copy on disk, the server counted.         *)
THEOREM ShownVotesWereCounted == Spec => []VotedWereCounted
<1>1. StoresInv => VotedWereCounted
  BY DEF StoresInv
<1>2. QED
  BY <1>1, StoresAreConsistent, PTL

(* The listener of the home page drops votes of the edition in course only *)
(* when it hears of another edition.                                       *)
LEMMA HeardForgets ==
  ASSUME NEW e \in Editions, NEW s \in Votes, Heard(e, s) # s
  PROVE  e \notin {NoEdition, s.edition}
BY DEF Heard, ForEdition

LEMMA SettingForgets ==
  ASSUME StoresInv, Forgets, NEW e \in Editions, SetEdition(e)
  PROVE  edition' \notin {NoEdition, current}
<1>1. edition' = e /\ store' = Heard(e, store) /\ store \in Votes
  BY DEF SetEdition, StoresInv, TypeOK
<1>2. Heard(e, store) # store /\ store.edition = current
  BY <1>1 DEF Forgets
<1>3. QED
  BY <1>1, <1>2, HeardForgets

(* What a page writes holds every vote of the edition in course.           *)
LEMMA PageForgets ==
  ASSUME StoresInv, Forgets, page.at \in {"candidates", "ready", "submitting"},
         Update(page.edition, page.voted), UNCHANGED edition
  PROVE  edition' \notin {NoEdition, current}
<1> DEFINE new == [edition |-> page.edition, voted |-> page.voted]
<1>1. /\ page.edition \in EditionId /\ page.voted = box[page.edition]
      /\ current \in Editions /\ page \in Flow /\ edition \in Editions
  BY OthersAre DEF OtherTypes, FlowsHold, Holds, PageKnows, StoresInv, TypeOK
<1>2. store.edition = current /\ current \in EditionId
      /\ store.voted \subseteq box[current] /\ box[current] # {}
  BY DEF Forgets, StoresInv, VotedWereCounted, Counted
<1>3. page.edition <= current /\ ~(current > page.edition)
  <2>1. page.edition # NoEdition
    BY <1>1, EditionsAre
  <2>2. QED
    BY <1>2, <2>1, OthersAre DEF FlowsHold, PageKnows
<1>4. page.edition = current
  BY <1>1, <1>2, <1>3 DEF EditionId
<1>5. new \in Votes /\ store' = Heard(edition, new)
  BY <1>1, EditionsAre DEF Update, Votes, Flow
<1>6. new.edition = current /\ store.voted \subseteq new.voted
  BY <1>1, <1>2, <1>4
<1> HIDE DEF new
<1>7. Heard(edition, new) # new
  BY <1>5, <1>6 DEF Forgets
<1>8. QED
  BY <1>1, <1>5, <1>6, <1>7, HeardForgets

LEMMA ForgettingSteps ==
  ASSUME StoresInv, [Next]_vars, Forgets
  PROVE  Restart \/ QueryEnds \/ edition' \notin {NoEdition, current}
<1>1. /\ store' # store /\ store.edition = current /\ store.voted # {}
      /\ store \in Votes /\ edition \in Editions /\ editionDisk \in Editions
      /\ current \in Editions /\ query \in Flow /\ votedDisk \in Votes
  BY OthersAre DEF Forgets, StoresInv, TypeOK
<1>2. CASE EditionNext
  <2>1. CASE EditionCacheRead
    BY <1>1, <2>1, SettingForgets DEF EditionCacheRead
  <2>2. ASSUME NEW c \in Refresh, RefreshEnds(c)
        PROVE  edition' \notin {NoEdition, current}
    BY <2>2, SettingForgets, EditionsAre DEF RefreshEnds
  <2>3. CASE RefreshAsked
    BY <1>1, <2>3 DEF RefreshAsked, votedStore
  <2>4. QED
    BY <1>2, <2>1, <2>2, <2>3 DEF EditionNext
<1>3. CASE HomeNext
  <2>1. CASE HomeReady
    BY <1>1, <2>1 DEF HomeReady, editionStore, ForEdition
  <2>2. CASE VotedCacheRead
    <3>1. votedLoad # "done"
      BY <2>2 DEF VotedCacheRead
    <3>2. votedConfirmed
      BY <1>1, <3>1 DEF StoresInv, NothingYet
    <3>3. QED
      BY <1>1, <2>2, <3>2 DEF VotedCacheRead, CacheCounts
  <2>3. CASE HomeOpens \/ HomeCloses
    BY <1>1, <2>3 DEF HomeOpens, HomeCloses, votedStore
  <2>4. QED
    BY <1>3, <2>1, <2>2, <2>3 DEF HomeNext
<1>4. CASE PageNext
  <2>1. CASE PageReadsEdition
    BY <1>1, <2>1, SettingForgets DEF PageReadsEdition
  <2>2. CASE PageSyncs \/ PageThanks
    BY <2>2, PageForgets DEF PageSyncs, PageThanks, editionStore
  <2>3. CASE PageOpens \/ PageReadsMyVotes \/ PageCloses
    BY <1>1, <2>3 DEF PageOpens, PageReadsMyVotes, PageCloses, votedStore
  <2>4. ASSUME NEW b \in Business, PageVotes(b) PROVE FALSE
    BY <1>1, <2>4 DEF PageVotes, votedStore
  <2>5. QED
    BY <1>4, <2>1, <2>2, <2>3, <2>4 DEF PageNext
<1>5. CASE QueryNext
  <2>1. CASE QueryFails
    BY <1>1, <2>1, SettingForgets DEF QueryFails, Flow
  <2>2. CASE QueryStarts \/ QueryReadsEdition \/ QueryReadsMyVotes
    BY <1>1, <2>2 DEF QueryStarts, QueryReadsEdition, QueryReadsMyVotes, votedStore
  <2>3. QED
    BY <1>5, <2>1, <2>2 DEF QueryNext
<1>6. CASE EditionOpens \/ UNCHANGED vars
  BY <1>1, <1>6 DEF EditionOpens, vars, votedStore
<1>7. QED
  BY <1>2, <1>3, <1>4, <1>5, <1>6 DEF Next

(* While the app lives, votes of the edition in course are only forgotten  *)
(* when a late answer is believed: a my-votes older than the last vote, or *)
(* an editions/current that is over.                                       *)
THEOREM VotesAreRemembered == Spec => OnlyLateAnswersForget
<1>1. StoresInv /\ [Next]_vars
        => [Forgets => Restart \/ QueryEnds \/ edition' \notin {NoEdition, current}]_vars
  BY ForgettingSteps
<1>2. QED
  BY <1>1, StoresAreConsistent, PTL DEF Spec, OnlyLateAnswersForget

=============================================================================

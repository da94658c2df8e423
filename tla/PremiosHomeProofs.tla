-------------------------- MODULE PremiosHomeProofs --------------------------
(***************************************************************************)
(* Theorems about PremiosHome: what the slot of the home page adds keeps   *)
(* to the rules of the stores, so that what PremiosProofs says of them     *)
(* holds under it, and its sheet comes out once and is not missed.         *)
(***************************************************************************)
EXTENDS PremiosHome, PremiosProofs

(* The votes are those of the edition, as forEdition leaves them.          *)
Ordered == ForEdition(edition, store) = store

(* What a step of the stores may do to what the slot looks at.             *)
EditionMoves ==
  \/ /\ edition' = edition /\ editionConfirmed' = editionConfirmed
     /\ editionLoad' = editionLoad \/ (editionLoad = "no" /\ editionLoad' = "reading")
     /\ \A c \in Refresh : refreshes[c] # Idle => refreshes'[c] # Idle
  \/ editionConfirmed'
  \/ edition' = NoEdition /\ editionConfirmed' = editionConfirmed /\ editionLoad' = editionLoad
  \/ /\ editionLoad = "reading" /\ editionLoad' = "done"
     /\ editionConfirmed' = editionConfirmed
     /\ editionConfirmed => edition' = edition
     /\ \E c \in Refresh : refreshes[c] = Idle /\ refreshes'[c] # Idle

HomeMoves ==
  /\ home' = "ready" => home \in {"waiting", "ready"}
  /\ home' # home => edition' = edition /\ editionConfirmed' = editionConfirmed
  /\ home = "waiting" /\ home' = "ready" => Ordered'
  /\ home # "absent" => UNCHANGED <<edition, store>> \/ Ordered' \/ home' = "absent"

StoresMove == EditionMoves /\ (editionConfirmed => editionConfirmed') /\ HomeMoves

OtherThanRestart == EditionOpens \/ EditionNext \/ HomeNext \/ PageNext \/ QueryNext

-----------------------------------------------------------------------------
LEMMA ForEditionTwice ==
  ASSUME NEW e \in Editions, NEW s \in Votes
  PROVE  ForEdition(e, ForEdition(e, s)) = ForEdition(e, s)
BY DEF ForEdition, Votes

LEMMA HeardOrders ==
  ASSUME NEW e \in Editions, NEW s \in Votes, home # "absent"
  PROVE  (e = edition /\ s = store /\ Heard(e, s) = store)
            \/ ForEdition(e, Heard(e, s)) = Heard(e, s)
BY ForEditionTwice DEF Heard

LEMMA SetEditionOrders ==
  ASSUME StoresInv, NEW e \in Editions, SetEdition(e), home' = home
  PROVE  HomeMoves
<1>1. store \in Votes /\ edition' = e /\ store' = Heard(e, store)
  BY DEF StoresInv, TypeOK, SetEdition
<1>2. home # "absent" => UNCHANGED <<edition, store>> \/ Ordered'
  BY <1>1, HeardOrders DEF Ordered
<1>3. QED
  BY <1>2 DEF HomeMoves

LEMMA UpdateOrders ==
  ASSUME StoresInv, NEW e \in EditionId, NEW votes \in SUBSET Business, Update(e, votes),
         UNCHANGED <<home, edition>>
  PROVE  HomeMoves
<1> DEFINE new == [edition |-> e, voted |-> votes]
<1>1. new \in Votes /\ edition \in Editions
  BY EditionsAre DEF StoresInv, TypeOK, Votes
<1>2. store' = Heard(edition, new)
  BY DEF Update
<1> HIDE DEF new
<1>3. home # "absent" => UNCHANGED <<edition, store>> \/ Ordered'
  BY <1>1, <1>2, HeardOrders DEF Ordered
<1>4. QED
  BY <1>3 DEF HomeMoves

LEMMA EditionStepMoves == ASSUME StoresInv, EditionNext PROVE StoresMove
<1>1. edition \in Editions /\ editionDisk \in Editions /\ editionConfirmed \in BOOLEAN
  BY DEF StoresInv, TypeOK
<1>2. CASE EditionCacheRead
  <2>1. \E c \in Refresh : refreshes[c] = Idle /\ refreshes'[c] # Idle
    <3>1. PICK c \in Refresh : Asked(c)
      BY <1>2 DEF EditionCacheRead
    <3>2. refreshes[c] = Idle /\ refreshes'[c] \in {current, Offline}
      BY <3>1 DEF Asked, StoresInv, TypeOK
    <3>3. current # Idle /\ Offline # Idle
      BY EditionsAre, EditionAssumption DEF StoresInv, TypeOK, Idle, Offline
    <3>4. QED
      BY <3>2, <3>3
  <2>2. EditionMoves /\ (editionConfirmed => editionConfirmed')
    BY <1>2, <2>1 DEF EditionCacheRead, EditionMoves
  <2>3. home' = home
    BY <1>2 DEF EditionCacheRead
  <2>4. CASE SetEdition(editionDisk)
    BY <1>1, <2>2, <2>3, <2>4, SetEditionOrders DEF StoresMove
  <2>5. CASE UNCHANGED <<edition, store>>
    BY <2>2, <2>3, <2>5 DEF StoresMove, HomeMoves
  <2>6. QED
    BY <1>2, <2>4, <2>5 DEF EditionCacheRead
<1>3. CASE RefreshAsked
  <2>1. \A c \in Refresh : refreshes[c] # Idle => refreshes'[c] # Idle
    BY <1>3 DEF RefreshAsked, Asked, StoresInv, TypeOK
  <2>2. QED
    BY <1>3, <2>1 DEF RefreshAsked, editionStore, votedStore, StoresMove, EditionMoves, HomeMoves
<1>4. ASSUME NEW c \in Refresh, RefreshEnds(c) PROVE StoresMove
  <2>1. CASE refreshes[c] \in Editions /\ SetEdition(refreshes[c]) /\ editionConfirmed' = TRUE
    BY <1>4, <2>1, SetEditionOrders DEF RefreshEnds, StoresMove, EditionMoves
  <2>2. CASE SetEdition(NoEdition) /\ UNCHANGED <<editionConfirmed, editionDisk>>
    <3>1. edition' = NoEdition /\ editionLoad' = editionLoad /\ home' = home
      BY <1>4, <2>2 DEF RefreshEnds, SetEdition
    <3>2. QED
      BY <2>2, <3>1, EditionsAre, SetEditionOrders DEF StoresMove, EditionMoves
  <2>3. QED
    BY <1>4, <2>1, <2>2 DEF RefreshEnds
<1>5. QED
  BY <1>2, <1>3, <1>4 DEF EditionNext

LEMMA HomeStepMoves == ASSUME StoresInv, HomeNext PROVE StoresMove
<1>1. /\ edition \in Editions /\ store \in Votes /\ votedDisk \in Votes
      /\ editionLoad \in Loads
  BY DEF StoresInv, TypeOK
<1>2. CASE HomeOpens
  BY <1>1, <1>2 DEF HomeOpens, EnsureEdition, StoresMove, EditionMoves, HomeMoves, Loads
<1>3. CASE VotedCacheRead
  <2>1. UNCHANGED <<edition, editionConfirmed, editionLoad, refreshes>>
    BY <1>3 DEF VotedCacheRead, editionStore
  <2>2. home' = home \/ (home = "opening" /\ home' = "waiting")
    BY <1>3 DEF VotedCacheRead
  <2>3. home # "absent" => store' = store \/ Ordered'
    BY <1>1, <1>3, <2>1, HeardOrders DEF VotedCacheRead, Ordered
  <2>4. QED
    BY <2>1, <2>2, <2>3 DEF StoresMove, EditionMoves, HomeMoves
<1>4. CASE HomeReady
  <2>1. UNCHANGED <<edition, editionConfirmed, editionLoad, refreshes>> /\ Ordered'
    BY <1>1, <1>4, ForEditionTwice DEF HomeReady, editionStore, Ordered
  <2>2. QED
    BY <1>4, <2>1 DEF HomeReady, StoresMove, EditionMoves, HomeMoves
<1>5. CASE HomeCloses
  BY <1>5 DEF HomeCloses, editionStore, votedStore, StoresMove, EditionMoves, HomeMoves
<1>6. QED
  BY <1>2, <1>3, <1>4, <1>5 DEF HomeNext

LEMMA PageStepMoves == ASSUME StoresInv, PageNext PROVE StoresMove
<1>1. /\ edition \in Editions /\ editionLoad \in Loads /\ page \in Flow
      /\ current \in Editions /\ box \in [EditionId -> SUBSET Business]
  BY DEF StoresInv, TypeOK
<1>2. CASE PageOpens
  BY <1>1, <1>2 DEF PageOpens, EnsureEdition, votedStore, StoresMove, EditionMoves, HomeMoves, Loads
<1>3. CASE PageReadsEdition
  <2>1. editionConfirmed' /\ home' = home /\ SetEdition(current)
    BY <1>3 DEF PageReadsEdition, Published
  <2>2. QED
    BY <1>1, <2>1, SetEditionOrders DEF StoresMove, EditionMoves
<1>4. CASE PageReadsMyVotes \/ PageCloses \/ \E b \in Business : PageVotes(b)
  <2>1. UNCHANGED <<edition, editionConfirmed, editionLoad, store, home, refreshes>>
    BY <1>4 DEF PageReadsMyVotes, PageCloses, PageVotes, editionStore, votedStore
  <2>2. QED
    BY <2>1 DEF StoresMove, EditionMoves, HomeMoves
<1>5. CASE PageSyncs \/ PageThanks
  <2>1. page.edition \in EditionId /\ page.voted \in SUBSET Business
    BY <1>1, <1>5 DEF PageSyncs, PageThanks, StoresInv, Holds, Flow
  <2>2. Update(page.edition, page.voted) /\ UNCHANGED <<home, edition>>
        /\ UNCHANGED <<editionConfirmed, editionLoad, refreshes>>
    BY <1>5 DEF PageSyncs, PageThanks, editionStore
  <2>3. HomeMoves
    BY <2>1, <2>2, UpdateOrders
  <2>4. QED
    BY <2>2, <2>3 DEF StoresMove, EditionMoves
<1>6. QED
  BY <1>2, <1>3, <1>4, <1>5 DEF PageNext

LEMMA QueryStepMoves == ASSUME StoresInv, QueryNext PROVE StoresMove
<1>1. /\ edition \in Editions /\ editionLoad \in Loads /\ query \in Flow /\ store \in Votes
      /\ box \in [EditionId -> SUBSET Business]
  BY DEF StoresInv, TypeOK
<1>2. CASE QueryStarts
  BY <1>1, <1>2 DEF QueryStarts, EnsureEdition, votedStore, StoresMove, EditionMoves, HomeMoves, Loads
<1>3. CASE QueryReadsEdition \/ QueryReadsMyVotes
  BY <1>3 DEF QueryReadsEdition, QueryReadsMyVotes, editionStore, votedStore, StoresMove,
              EditionMoves, HomeMoves
<1>4. CASE QueryEnds
  <2> DEFINE new == [edition |-> query.edition, voted |-> query.voted]
  <2>1. query.edition \in EditionId /\ query.voted \in SUBSET Business
    BY <1>1, <1>4 DEF QueryEnds, StoresInv, Holds, Flow
  <2>2. new \in Votes /\ new.edition \in Editions /\ new.edition = query.edition
    BY <2>1, EditionsAre DEF Votes
  <2>3. /\ store' = UpdatedThenPublished(new) /\ edition' = new.edition
        /\ editionConfirmed' /\ home' = home
    BY <1>4 DEF QueryEnds, Published
  <2> HIDE DEF new
  <2>4. Heard(edition, new) \in Votes
    BY <1>1, <2>2, HeardKeeps
  <2>5. home # "absent" => UNCHANGED <<edition, store>> \/ Ordered'
    BY <1>1, <2>2, <2>3, <2>4, HeardOrders, ForEditionTwice DEF UpdatedThenPublished, Ordered
  <2>6. QED
    BY <2>3, <2>5 DEF StoresMove, EditionMoves, HomeMoves
<1>5. CASE QueryFails
  <2>1. home' = home /\ refreshes' = refreshes
    BY <1>5 DEF QueryFails
  <2>2. CASE query.edition = NoEdition
    BY <1>5, <2>1, <2>2 DEF QueryFails, editionStore, StoresMove, EditionMoves, HomeMoves
  <2>3. CASE query.edition # NoEdition
    <3>1. query.edition \in Editions /\ SetEdition(query.edition) /\ editionConfirmed'
      BY <1>1, <1>5, <2>3 DEF QueryFails, Published, Flow
    <3>2. QED
      BY <2>1, <3>1, SetEditionOrders DEF StoresMove, EditionMoves
  <2>4. QED
    BY <2>2, <2>3
<1>6. QED
  BY <1>2, <1>3, <1>4, <1>5 DEF QueryNext

LEMMA StepMoves == ASSUME StoresInv, OtherThanRestart PROVE StoresMove
<1>1. CASE EditionOpens
  BY <1>1 DEF EditionOpens, editionStore, votedStore, StoresMove, EditionMoves, HomeMoves
<1>2. QED
  BY <1>1, EditionStepMoves, HomeStepMoves, PageStepMoves, QueryStepMoves DEF OtherThanRestart

-----------------------------------------------------------------------------
(* What the slot does in a step of the stores.                             *)

LEMMA NoAsksType == NoAsks \in [Asks -> AskStages]
BY DEF NoAsks, AskStages

LEMMA AwaitedKeeps ==
  ASSUME asks \in [Asks -> AskStages]
  PROVE  /\ Awaited \in [Asks -> AskStages]
         /\ asks # NoAsks => Awaited # NoAsks
         /\ asks = NoAsks => Awaited = NoAsks
         /\ StillLoading => Awaited = asks
<1>1. Awaited \in [Asks -> AskStages]
  BY DEF Awaited, AskStages
<1>2. asks # NoAsks => Awaited # NoAsks
  <2>1. SUFFICES ASSUME asks # NoAsks PROVE Awaited # NoAsks
    OBVIOUS
  <2>2. PICK i \in Asks : asks[i] # "idle"
    BY <2>1 DEF NoAsks
  <2>3. Awaited[i] # "idle" /\ NoAsks[i] = "idle"
    BY <2>2 DEF Awaited, NoAsks
  <2>4. QED
    BY <2>3
<1>3. asks = NoAsks => Awaited = NoAsks
  BY DEF Awaited, NoAsks
<1>4. StillLoading => Awaited = asks
  BY DEF Awaited
<1>5. QED
  BY <1>1, <1>2, <1>3, <1>4

LEMMA BegunAsks ==
  ASSUME NEW q \in [Asks -> AskStages], RefreshBegins(q)
  PROVE  /\ asks' \in [Asks -> AskStages] /\ asks' # NoAsks
         /\ StillLoading /\ (\A i \in Asks : q[i] \in {"idle", "loading"})
              => \A i \in Asks : asks'[i] \in {"idle", "loading"}
<1>1. PICK i \in Asks : /\ q[i] = "idle"
                        /\ asks' = [q EXCEPT ![i] = IF StillLoading THEN "loading" ELSE "loaded"]
  BY DEF RefreshBegins
<1>2. asks' \in [Asks -> AskStages] /\ asks'[i] # "idle"
  BY <1>1 DEF AskStages
<1>3. asks' # NoAsks
  BY <1>2 DEF NoAsks
<1>4. QED
  BY <1>1, <1>2, <1>3

LEMMA SheetCounted ==
  ASSUME SlotTypeOK, SheetsCounted, NEW e, NEW c, NEW h, MaybeSheet(e, c, h)
  PROVE  /\ shown' \in BOOLEAN /\ asking' \in Nat /\ (shown => shown')
         /\ sheets' = sheets => SheetsCounted'
         /\ c /\ h = "ready" /\ e # NoEdition => shown'
<1>1. asking \in Nat /\ sheets \in Nat /\ shown \in BOOLEAN
  BY DEF SlotTypeOK
<1>2. CASE ~shown /\ shown' = TRUE /\ asking' = asking + 1
  <2>1. asking = 0 /\ sheets = 0
    BY <1>1, <1>2 DEF SheetsCounted
  <2>2. QED
    BY <1>2, <2>1 DEF SheetsCounted
<1>3. CASE UNCHANGED <<shown, asking>> /\ (c /\ h = "ready" /\ e # NoEdition => shown)
  BY <1>1, <1>3 DEF SheetsCounted
<1>4. QED
  BY <1>1, <1>2, <1>3 DEF MaybeSheet

(* _loading after a step of the stores.                                    *)
LEMMA FollowedOn ==
  ASSUME SlotInv, StoresMove, Follows
  PROVE  /\ following' \subseteq Refresh
         /\ \A c \in following' : refreshes'[c] # Idle
         /\ ~editionConfirmed' /\ edition' # NoEdition => following' # {}
<1> DEFINE begun == {c \in Refresh : refreshes[c] = Idle /\ refreshes'[c] # Idle}
           left  == {c \in following : refreshes'[c] # Idle}
<1>1. /\ begun = {} => following' = left
      /\ begun # {} => following' \in {left, begun}
      /\ begun # {} /\ editionLoad' # editionLoad => following' = begun
  BY DEF Follows
<1>2. following' \subseteq Refresh /\ \A c \in following' : refreshes'[c] # Idle
  BY <1>1 DEF SlotInv, SlotTypeOK
<1>3. ASSUME ~editionConfirmed', edition' # NoEdition PROVE following' # {}
  <2>1. ~editionConfirmed
    BY <1>3 DEF StoresMove
  <2>2. CASE /\ edition' = edition
             /\ \A c \in Refresh : refreshes[c] # Idle => refreshes'[c] # Idle
    <3>1. following # {} /\ \A c \in following : c \in Refresh /\ refreshes[c] # Idle
      BY <1>3, <2>1, <2>2 DEF SlotInv, CacheIsFollowed, SlotTypeOK
    <3>2. left # {}
      BY <2>2, <3>1
    <3>3. QED
      BY <1>1, <3>2
  <2>3. CASE editionLoad' # editionLoad /\ begun # {}
    BY <1>1, <2>3
  <2>4. QED
    BY <1>3, <2>2, <2>3 DEF StoresMove, EditionMoves
<1>4. QED
  BY <1>2, <1>3

(* While the copy on disk is all there is, the ranking waits.              *)
LEMMA WaitsOn ==
  ASSUME StoresInv, SlotInv, StoresMove, Follows, ~editionConfirmed', edition' # NoEdition
  PROVE  /\ StillLoading /\ ~editionConfirmed
         /\ ranking # "none" => edition = edition' /\ edition # NoEdition
<1>1. ~editionConfirmed /\ StillLoading
  BY FollowedOn DEF StoresMove, StillLoading
<1>2. ASSUME ranking # "none" PROVE edition = edition'
  <2>1. editionLoad = "done"
    BY <1>1, <1>2 DEF SlotInv, CacheIsFollowed
  <2>2. QED
    BY <1>1, <2>1 DEF StoresMove, EditionMoves
<1>3. QED
  BY <1>1, <1>2

LEMMA AlongStep ==
  ASSUME StoresInv, SlotInv, StoresMove, Along
  PROVE  SlotInv'
<1> USE DEF SlotInv
<1>1. asks \in [Asks -> AskStages] /\ Follows /\ sheets' = sheets
  BY DEF SlotTypeOK, Along
<1>2. CASE home' = "absent" /\ SlotGone
  <2>1. SlotTypeOK' /\ RankingSound'
    <3>1. /\ ranking' = "none" /\ asks' = NoAsks /\ asking' = 0 /\ sheetOpen' = FALSE
          /\ shown' = shown /\ following' \subseteq Refresh
      BY <1>1, <1>2, FollowedOn DEF SlotGone
    <3>2. QED
      BY <1>1, <3>1, NoAsksType DEF SlotTypeOK, RankingSound
  <2>5. SheetsCounted'
    BY <1>1, <1>2 DEF SlotGone, SlotTypeOK, SheetsCounted
  <2>2. CacheIsFollowed'
    BY <1>1, <1>2, FollowedOn DEF SlotGone, CacheIsFollowed, StoresMove, EditionMoves
  <2>3. RankingWaits' /\ SheetIsDue'
    BY <1>2 DEF SlotGone, RankingWaits, SheetIsDue
  <2>4. QED
    BY <2>1, <2>2, <2>3, <2>5
<1>3. CASE home' # "absent"
  <2>1. /\ sheetOpen' = sheetOpen
        /\ \/ /\ Listened /\ EnsureRanking(edition')
              /\ MaybeSheet(edition', ConfirmedWhenHeard, home')
           \/ /\ ~Listened /\ ranking' = ranking /\ asks' = Awaited
              /\ UNCHANGED <<shown, asking>>
    BY <1>3 DEF Along, Stays
  <2>2. /\ Awaited \in [Asks -> AskStages]
        /\ asks # NoAsks => Awaited # NoAsks
        /\ asks = NoAsks => Awaited = NoAsks
        /\ StillLoading => Awaited = asks
    BY <1>1, AwaitedKeeps
  <2>3. \/ ranking' = ranking /\ asks' = Awaited
        \/ /\ Listened /\ ranking = "none" /\ ranking' = "loading" /\ edition' # NoEdition
           /\ RefreshBegins(Awaited)
    BY <2>1 DEF EnsureRanking
  <2>4. RefreshBegins(Awaited) =>
           /\ asks' \in [Asks -> AskStages] /\ asks' # NoAsks
           /\ StillLoading /\ (\A i \in Asks : Awaited[i] \in {"idle", "loading"})
                => \A i \in Asks : asks'[i] \in {"idle", "loading"}
    BY <2>2, BegunAsks
  <2>5. /\ shown' \in BOOLEAN /\ asking' \in Nat /\ (shown => shown') /\ SheetsCounted'
        /\ Listened /\ ConfirmedWhenHeard /\ home' = "ready" /\ edition' # NoEdition => shown'
    <3>1. CASE MaybeSheet(edition', ConfirmedWhenHeard, home')
      BY <1>1, <3>1, SheetCounted
    <3>2. CASE ~Listened /\ UNCHANGED <<shown, asking>>
      BY <1>1, <3>2 DEF SlotTypeOK, SheetsCounted
    <3>3. QED
      BY <2>1, <3>1, <3>2
  <2>6. SlotTypeOK'
    BY <1>1, <2>1, <2>2, <2>3, <2>4, <2>5, FollowedOn DEF SlotTypeOK
  <2>7. RankingSound'
    <3>1. ranking' = "none" => asks' = NoAsks
      BY <2>2, <2>3 DEF RankingSound
    <3>2. ASSUME ranking' # "none" PROVE Ordered'
      <4>1. home # "absent"
        BY <2>3, <3>2 DEF RankingSound, Listened
      <4>2. CASE UNCHANGED <<edition, store>> /\ ranking # "none"
        BY <4>2 DEF RankingSound, Ordered
      <4>3. CASE UNCHANGED <<edition, store>> /\ ranking = "none"
        BY <2>3, <3>2, <4>3 DEF Listened, StoresMove, HomeMoves
      <4>4. QED
        BY <1>3, <4>1, <4>2, <4>3 DEF StoresMove, HomeMoves
    <3>3. QED
      BY <1>3, <3>1, <3>2 DEF RankingSound, Ordered
  <2>8. CacheIsFollowed'
    <3>1. ASSUME ~editionConfirmed', editionLoad' # "done"
          PROVE  edition' = NoEdition /\ ranking' = "none"
      <4>1. ~editionConfirmed /\ editionLoad # "done"
        BY <3>1 DEF StoresMove, EditionMoves
      <4>2. edition = NoEdition /\ ranking = "none"
        BY <4>1 DEF CacheIsFollowed
      <4>3. edition' = NoEdition
        BY <3>1, <4>1, <4>2 DEF StoresMove, EditionMoves
      <4>4. QED
        BY <2>3, <4>2, <4>3
    <3>2. QED
      BY <1>1, <3>1, FollowedOn DEF CacheIsFollowed
  <2>9. RankingWaits'
    <3>1. SUFFICES ASSUME ~editionConfirmed', edition' # NoEdition, ranking' # "none"
                   PROVE  /\ ranking' = "loading" /\ asks' # NoAsks
                          /\ \A i \in Asks : asks'[i] \in {"idle", "loading"}
      BY DEF RankingWaits
    <3>2. /\ StillLoading /\ ~editionConfirmed
          /\ ranking # "none" => edition # NoEdition
      BY <1>1, <3>1, WaitsOn
    <3>3. Awaited = asks
      BY <2>2, <3>2
    <3>4. CASE ranking' = ranking /\ asks' = Awaited
      BY <3>1, <3>2, <3>3, <3>4 DEF RankingWaits
    <3>5. CASE ranking = "none" /\ ranking' = "loading" /\ RefreshBegins(Awaited)
      BY <2>4, <3>2, <3>3, <3>5 DEF RankingSound, NoAsks
    <3>6. QED
      BY <2>3, <3>4, <3>5
  <2>10. SheetIsDue'
    <3>1. SUFFICES ASSUME home' = "ready", edition' # NoEdition, ~shown'
                   PROVE  ranking' \in {"loading", "error"} /\ asks' # NoAsks
      BY DEF SheetIsDue
    <3>2. ~shown /\ home \in {"waiting", "ready"}
      BY <2>5, <3>1 DEF StoresMove, HomeMoves
    <3>3. CASE edition' # edition
      <4>1. home' = home /\ Listened
        BY <3>2, <3>3 DEF StoresMove, HomeMoves, Listened
      <4>2. ~editionConfirmed'
        BY <2>5, <3>1, <3>3, <4>1 DEF ConfirmedWhenHeard
      <4>3. editionLoad = "reading" /\ ~editionConfirmed
        BY <3>1, <3>3, <4>2 DEF StoresMove, EditionMoves
      <4>4. ranking = "none"
        BY <4>3 DEF CacheIsFollowed
      <4>5. QED
        BY <2>1, <2>4, <3>1, <4>1, <4>4 DEF EnsureRanking
    <3>4. CASE edition' = edition /\ home = "ready"
      BY <2>2, <2>3, <2>4, <3>1, <3>2, <3>4 DEF SheetIsDue
    <3>5. CASE edition' = edition /\ home = "waiting"
      <4>1. Listened /\ editionConfirmed' = editionConfirmed /\ ~editionConfirmed
        BY <2>5, <3>1, <3>5 DEF Listened, ConfirmedWhenHeard, StoresMove, HomeMoves
      <4>2. CASE ranking = "none"
        BY <2>1, <2>4, <3>1, <4>1, <4>2 DEF EnsureRanking
      <4>3. CASE ranking # "none"
        BY <2>2, <2>3, <3>1, <3>5, <4>1, <4>3 DEF RankingWaits
      <4>4. QED
        BY <4>2, <4>3
    <3>6. QED
      BY <3>2, <3>3, <3>4, <3>5
  <2>11. QED
    BY <2>5, <2>6, <2>7, <2>8, <2>9, <2>10
<1>4. QED
  BY <1>2, <1>3 DEF Along

-----------------------------------------------------------------------------
(* The slot's own steps.                                                   *)

LEMMA HeardMovesNothing ==
  ASSUME SlotInv, ranking # "none", RankingHeard
  PROVE  UNCHANGED <<vars, following, sheetOpen, sheets>>
<1>1. store' = store /\ votedDisk' = votedDisk
  BY DEF SlotInv, RankingSound, RankingHeard
<1>2. QED
  BY <1>1 DEF RankingHeard, vars, votedStore

LEMMA AskedOf ==
  ASSUME SlotInv, NEW i \in Asks, asks[i] # "idle"
  PROVE  ranking # "none"
BY DEF SlotInv, RankingSound, NoAsks

(* A step of the ranking that the slot hears, or that changes little.      *)
LEMMA RankingMoves ==
  ASSUME SlotInv, ranking # "none", ranking' \in {"loading", "ready", "error"},
         asks' \in [Asks -> AskStages], RankingHeard \/ RankingQuiet, RankingWaits',
         RankingHeard \/ SheetIsDue', ~editionConfirmed => SheetIsDue'
  PROVE  SlotInv' /\ UNCHANGED vars
<1>1. /\ UNCHANGED <<vars, following, sheetOpen, sheets>>
      /\ MaybeSheet(edition, editionConfirmed, home) \/ UNCHANGED <<shown, asking>>
  BY HeardMovesNothing DEF RankingHeard, RankingQuiet
<1>2. UNCHANGED <<edition, store, home, editionConfirmed, editionLoad, refreshes>>
  BY <1>1 DEF vars, editionStore, votedStore
<1>3. CASE MaybeSheet(edition, editionConfirmed, home)
  <2>1. shown' \in BOOLEAN /\ asking' \in Nat /\ SheetsCounted'
    BY <1>1, <1>3, SheetCounted DEF SlotInv
  <2>2. SheetIsDue'
    BY <1>2, <1>3, SheetCounted DEF SlotInv, SheetIsDue
  <2>3. QED
    BY <1>1, <1>2, <2>1, <2>2 DEF SlotInv, SlotTypeOK, RankingSound, CacheIsFollowed
<1>4. CASE RankingQuiet
  <2>1. UNCHANGED <<shown, asking>>
    BY <1>4 DEF RankingQuiet
  <2>2. SheetsCounted'
    BY <1>1, <2>1 DEF SlotInv, SheetsCounted
  <2>3. SheetIsDue'
    BY <1>4, <1>2, <2>1, HeardMovesNothing DEF RankingHeard, MaybeSheet, SlotInv, SheetIsDue
  <2>4. QED
    BY <1>1, <1>2, <2>1, <2>2, <2>3 DEF SlotInv, SlotTypeOK, RankingSound, CacheIsFollowed
<1>5. QED
  BY <1>3, <1>4 DEF RankingHeard

LEMMA RankingStep == ASSUME SlotInv, RankingNext PROVE SlotInv' /\ UNCHANGED vars
<1>1. asks \in [Asks -> AskStages] /\ ranking \in {"none", "loading", "ready", "error"}
  BY DEF SlotInv, SlotTypeOK
<1>2. RankingHeard \/ RankingQuiet =>
        (ranking # "none" => UNCHANGED <<edition, editionConfirmed, editionLoad, home, following>>)
  BY HeardMovesNothing DEF RankingQuiet, vars, editionStore
<1>3. CASE RankingAsked
  <2>1. ranking # "none" /\ RefreshBegins(asks) /\ (RankingHeard \/ RankingQuiet)
        /\ ranking' = (IF ranking = "error" THEN "loading" ELSE ranking)
        /\ (RankingHeard \/ ranking' = ranking)
    BY <1>3 DEF RankingAsked
  <2>2. UNCHANGED <<edition, editionConfirmed, editionLoad, home, following>>
    BY <1>2, <2>1
  <2>3. /\ asks' \in [Asks -> AskStages] /\ asks' # NoAsks
        /\ StillLoading /\ (\A i \in Asks : asks[i] \in {"idle", "loading"})
             => \A i \in Asks : asks'[i] \in {"idle", "loading"}
    BY <1>1, <2>1, BegunAsks
  <2>4. RankingWaits'
    BY <2>1, <2>2, <2>3 DEF SlotInv, RankingWaits, CacheIsFollowed, StillLoading
  <2>5. shown => shown'
    BY <2>1, SheetCounted DEF RankingHeard, RankingQuiet, SlotInv
  <2>6. SheetIsDue'
    BY <1>1, <2>1, <2>2, <2>3, <2>5 DEF SlotInv, SheetIsDue
  <2>7. QED
    BY <1>1, <2>1, <2>3, <2>4, <2>6, RankingMoves
<1>4. ASSUME NEW i \in Asks, asks[i] \in {"loaded", "results"},
             asks' = [asks EXCEPT ![i] = "idle"],
             \/ ranking' \in {"ready", "error"} /\ RankingHeard
             \/ ranking = "ready" /\ ranking' = ranking /\ RankingQuiet
      PROVE  SlotInv' /\ UNCHANGED vars
  <2>1. ranking # "none" /\ asks' \in [Asks -> AskStages]
    BY <1>1, <1>4, AskedOf DEF AskStages
  <2>2. UNCHANGED <<edition, editionConfirmed, editionLoad, home, following>>
    BY <1>2, <1>4, <2>1
  <2>3. ~editionConfirmed => edition = NoEdition
    BY <1>4, <2>1 DEF SlotInv, RankingWaits
  <2>4. RankingWaits' /\ (~editionConfirmed => SheetIsDue')
    BY <2>2, <2>3 DEF RankingWaits, SheetIsDue
  <2>5. RankingHeard \/ SheetIsDue'
    BY <1>4, <2>2 DEF RankingQuiet, SlotInv, SheetIsDue
  <2>6. QED
    BY <1>4, <2>1, <2>4, <2>5, RankingMoves
<1>5. ASSUME NEW i \in Asks, AskGoesOn(i) PROVE SlotInv' /\ UNCHANGED vars
  <2>1. CASE edition = NoEdition
    BY <1>1, <1>4, <1>5, <2>1 DEF AskGoesOn, RankingFails
  <2>2. CASE edition # NoEdition
    <3>1. /\ asks' = [asks EXCEPT ![i] = "results"] /\ ranking' = ranking /\ RankingQuiet
          /\ ranking # "none" /\ asks[i] = "loaded"
      BY <1>5, <2>2, AskedOf DEF AskGoesOn
    <3>2. asks' \in [Asks -> AskStages] /\ asks'[i] = "results"
      BY <1>1, <3>1 DEF AskStages
    <3>3. asks' # NoAsks
      BY <3>2 DEF NoAsks
    <3>4. UNCHANGED <<edition, editionConfirmed, home>> /\ shown' = shown
      BY <1>2, <3>1 DEF RankingQuiet
    <3>5. editionConfirmed
      BY <2>2, <3>1 DEF SlotInv, RankingWaits
    <3>6. RankingWaits' /\ SheetIsDue'
      BY <3>1, <3>3, <3>4, <3>5 DEF RankingWaits, SlotInv, SheetIsDue
    <3>7. QED
      BY <1>1, <3>1, <3>2, <3>6, RankingMoves
  <2>3. QED
    BY <2>1, <2>2
<1>6. ASSUME NEW i \in Asks, AskAnswered(i) \/ AskRefused(i) PROVE SlotInv' /\ UNCHANGED vars
  BY <1>1, <1>4, <1>6 DEF AskAnswered, AskRefused, RankingFails
<1>7. QED
  BY <1>3, <1>5, <1>6 DEF RankingNext

LEMMA SheetStep ==
  ASSUME SlotInv, SheetDecided \/ SheetCloses
  PROVE  SlotInv' /\ UNCHANGED vars
<1>1. UNCHANGED <<vars, following, ranking, asks, shown>>
  BY DEF SheetDecided, SheetCloses
<1>2. UNCHANGED <<edition, store, home, editionConfirmed, editionLoad, refreshes>>
  BY <1>1 DEF vars, editionStore, votedStore
<1>3. asking \in Nat /\ sheets \in Nat
  BY DEF SlotInv, SlotTypeOK
<1>4. sheetOpen' \in BOOLEAN
  BY DEF SheetDecided, SheetCloses, SlotInv, SlotTypeOK
<1>5. \/ asking > 0 /\ asking' = asking - 1 /\ (sheets' = sheets + 1 \/ sheets' = sheets)
      \/ asking' = asking /\ sheets' = sheets
  BY DEF SheetDecided, SheetCloses
<1>6. /\ asking' \in Nat /\ sheets' \in Nat
      /\ (asking + sheets <= 1 => asking' + sheets' <= 1)
      /\ (asking' + sheets' # 0 => asking + sheets # 0)
  BY <1>3, <1>5
<1>7. asking + sheets <= 1 /\ (asking + sheets # 0 => shown)
  BY DEF SlotInv, SheetsCounted
<1>8. asking' + sheets' <= 1
  BY <1>6, <1>7
<1>9. asking' + sheets' # 0 => shown'
  BY <1>1, <1>6, <1>7
<1>10. SheetsCounted'
  BY <1>8, <1>9 DEF SheetsCounted
<1>11. SlotTypeOK'
  BY <1>1, <1>4, <1>6 DEF SlotInv, SlotTypeOK
<1>12. RankingSound' /\ RankingWaits'
  BY <1>1, <1>2 DEF SlotInv, RankingSound, RankingWaits
<1>13. CacheIsFollowed' /\ SheetIsDue'
  BY <1>1, <1>2 DEF SlotInv, CacheIsFollowed, SheetIsDue
<1>14. QED
  BY <1>1, <1>10, <1>11, <1>12, <1>13 DEF SlotInv

LEMMA NewSlot ==
  ASSUME following' = {}, ranking' = "none", asks' = NoAsks, shown' = FALSE, asking' = 0,
         sheetOpen' = FALSE, sheets' = 0, home' = "absent", edition' = NoEdition
  PROVE  SlotInv'
<1>1. SlotTypeOK'
  BY NoAsksType DEF SlotTypeOK
<1>2. SheetsCounted'
  BY DEF SheetsCounted
<1>3. CacheIsFollowed'
  BY DEF CacheIsFollowed
<1>4. RankingSound' /\ RankingWaits' /\ SheetIsDue'
  BY DEF RankingSound, RankingWaits, SheetIsDue
<1>5. QED
  BY <1>1, <1>2, <1>3, <1>4 DEF SlotInv

LEMMA SlotInitHolds == SlotInit => StoresInv /\ SlotInv
<1> SUFFICES ASSUME SlotInit PROVE StoresInv /\ SlotInv
  OBVIOUS
<1>1. StoresInv
  BY InitHolds DEF SlotInit
<1>2. home = "absent" /\ edition = NoEdition
  BY DEF SlotInit, Init
<1>3. /\ following = {} /\ ranking = "none" /\ asks = NoAsks
      /\ shown = FALSE /\ asking = 0 /\ sheetOpen = FALSE /\ sheets = 0
  BY DEF SlotInit
<1>4. SlotTypeOK
  BY <1>3, NoAsksType DEF SlotTypeOK
<1>5. SheetsCounted
  BY <1>3 DEF SheetsCounted
<1>6. CacheIsFollowed
  BY <1>2, <1>3 DEF CacheIsFollowed
<1>7. RankingSound /\ RankingWaits /\ SheetIsDue
  BY <1>2, <1>3 DEF RankingSound, RankingWaits, SheetIsDue
<1>8. QED
  BY <1>1, <1>4, <1>5, <1>6, <1>7 DEF SlotInv

LEMMA SlotStep ==
  ASSUME StoresInv, SlotInv, [SlotNext]_svars
  PROVE  SlotInv' /\ [Next]_vars
<1>1. CASE StoresStep
  <2>1. OtherThanRestart /\ Along /\ Next
    BY <1>1 DEF StoresStep, OtherThanRestart, Next
  <2>2. QED
    BY <2>1, StepMoves, AlongStep
<1>2. CASE SlotRestarts
  BY <1>2, NewSlot DEF SlotRestarts, Restart, AppStarts, Next
<1>3. CASE UNCHANGED svars
  <2>1. UNCHANGED <<vars, slot>>
    BY <1>3 DEF svars
  <2>2. UNCHANGED <<edition, store, home, editionConfirmed, editionLoad, refreshes>>
    BY <2>1 DEF vars, editionStore, votedStore
  <2>3. QED
    BY <2>1, <2>2 DEF slot, SlotInv, SlotTypeOK, RankingSound, CacheIsFollowed, RankingWaits,
                      SheetIsDue, SheetsCounted
<1>4. QED
  BY <1>1, <1>2, <1>3, RankingStep, SheetStep DEF SlotNext

-----------------------------------------------------------------------------
(* The theorems.                                                           *)

(* The slot of the home page, its ranking and its sheet fit the stores in  *)
(* every reachable state.                                                  *)
THEOREM SlotIsConsistent == SlotSpec => [](StoresInv /\ SlotInv)
<1>1. StoresInv /\ SlotInv /\ [SlotNext]_svars => (StoresInv /\ SlotInv)'
  BY SlotStep, NextStep
<1>2. QED
  BY <1>1, SlotInitHolds, PTL DEF SlotSpec

(* Nothing that the ranking or the sheet does is more than a step of the   *)
(* stores, or none: forEdition, which every notification of the ranking    *)
(* runs again, never finds votes to drop.                                  *)
THEOREM SlotIsAStore == SlotSpec => SlotKeepsTheStores
<1>1. StoresInv /\ SlotInv /\ [SlotNext]_svars => [Next]_vars
  BY SlotStep
<1>2. QED
  BY <1>1, SlotIsConsistent, PTL DEF SlotSpec, SlotKeepsTheStores

(* ... so whatever is proved of the stores holds on the home page.         *)
THEOREM SlotImplementsStores == SlotSpec => Spec
<1>1. SlotInit => Init
  BY DEF SlotInit
<1>2. QED
  BY <1>1, SlotIsAStore, PTL DEF SlotSpec, Spec, SlotKeepsTheStores

(* The invitation to vote is not lost with the silent confirmation of an   *)
(* edition that came from the copy on disk: _maybeSheet is called again    *)
(* when the ranking, which awaited that confirmation, is answered.         *)
THEOREM SheetComesOut == SlotSpec => []SheetIsNotMissed
<1>1. SlotInv => SheetIsNotMissed
  BY DEF SlotInv, SheetIsDue, SheetIsNotMissed
<1>2. QED
  BY <1>1, SlotIsConsistent, PTL

(* One start of the app shows one sheet at most: sheetShownThisSession is  *)
(* set before "Ahora no" is read.                                          *)
THEOREM SheetComesOutOnce == SlotSpec => []OneSheetPerStart
<1>1. SlotInv => OneSheetPerStart
  BY DEF SlotInv, SlotTypeOK, SheetsCounted, OneSheetPerStart
<1>2. QED
  BY <1>1, SlotIsConsistent, PTL

=============================================================================

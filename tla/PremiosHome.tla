----------------------------- MODULE PremiosHome -----------------------------
(***************************************************************************)
(* The awards on the home page (PremiosHomeSlot), over the two stores: the *)
(* ranking it keeps (PremiosResultsController) and the sheet that invites  *)
(* to vote, once for each start of the app.                                *)
(*                                                                         *)
(* Nobody asks for either: the slot's listener begins them when a store,   *)
(* or the ranking itself, says that something has changed.  An edition     *)
(* that has an id is open here, so it is shown and counts votes.           *)
(***************************************************************************)
EXTENDS PremiosStores

CONSTANT Asks      \* bound: refreshes of the ranking under way

VARIABLES
  following,  \* the queries of the edition that _loading stands for
  ranking,    \* the controller's load; "none" before there is one
  asks,       \* refresh(), await by await
  shown,      \* PremiosHomeStore.sheetShownThisSession
  asking,     \* calls of _maybeSheet that read "Ahora no"
  sheetOpen,
  sheets      \* history: sheets shown since the app started

slot  == <<following, ranking, asks, shown, asking, sheetOpen, sheets>>
svars == <<vars, slot>>

AskStages == {"idle", "loading", "loaded", "results"}
NoAsks    == [i \in Asks |-> "idle"]

SlotInit ==
  /\ Init
  /\ following = {} /\ ranking = "none" /\ asks = NoAsks
  /\ shown = FALSE /\ asking = 0 /\ sheetOpen = FALSE /\ sheets = 0

-----------------------------------------------------------------------------
(* PremiosEditionStore._loading: the first query, from the reading of the  *)
(* copy on, or the one of an app that comes back; not that of a pull.      *)
Follows ==
  LET begun == {c \in Refresh : refreshes[c] = Idle /\ refreshes'[c] # Idle}
      left  == {c \in following : refreshes'[c] # Idle}
  IN  IF begun = {} THEN following' = left
      ELSE IF editionLoad' # editionLoad THEN following' = begun
      ELSE following' \in {left, begun}

StillLoading == editionLoad' = "reading" \/ following' # {}

(* Mutant: the ranking does not wait for the server's edition.             *)
RefreshBeginsAtOnce(q) ==
  \E i \in Asks : q[i] = "idle" /\ asks' = [q EXCEPT ![i] = "loaded"]

(* refresh() of the ranking, up to its first await.                        *)
RefreshBegins(q) ==
  \E i \in Asks : /\ q[i] = "idle"
                  /\ asks' = [q EXCEPT ![i] = IF StillLoading THEN "loading" ELSE "loaded"]

(* Who awaits store.loading goes on when it ends.                          *)
Awaited ==
  [i \in Asks |-> IF asks[i] = "loading" /\ ~StillLoading THEN "loaded" ELSE asks[i]]

(* _ensureRanking: the first time that an edition is shown.                *)
EnsureRanking(e) ==
  IF ranking = "none" /\ e # NoEdition
    THEN ranking' = "loading" /\ RefreshBegins(Awaited)
    ELSE ranking' = ranking /\ asks' = Awaited

(* Mutant: only a sheet that has come out keeps others from being asked.   *)
MaybeAnotherSheet(e, confirmed, at) ==
  IF at = "ready" /\ sheets = 0 /\ confirmed /\ e # NoEdition
    THEN shown' = TRUE /\ asking' = asking + 1
    ELSE UNCHANGED <<shown, asking>>

(* _maybeSheet up to its await: with an edition the server has confirmed.  *)
MaybeSheet(e, confirmed, at) ==
  IF at = "ready" /\ ~shown /\ confirmed /\ e # NoEdition
    THEN shown' = TRUE /\ asking' = asking + 1
    ELSE UNCHANGED <<shown, asking>>

-----------------------------------------------------------------------------
(* A step of the stores, with what the slot does in it.                    *)

(* Mutant: the ranking is made with the slot, before the votes are.        *)
ListenedFromTheStart == home' # "absent"

(* _onChange was called, or _init reached its end.                         *)
Listened == /\ home # "absent"
            /\ \/ edition' # edition \/ store' # store
               \/ home = "waiting" /\ home' = "ready"

(* update notifies before publish has said that the server has spoken.     *)
ConfirmedWhenHeard == IF edition' # edition THEN editionConfirmed' ELSE editionConfirmed

SlotGone ==
  /\ ranking' = "none" /\ asks' = NoAsks /\ asking' = 0 /\ sheetOpen' = FALSE
  /\ UNCHANGED shown

Stays == UNCHANGED <<shown, asking, sheetOpen>>

Along ==
  /\ Follows
  /\ sheets' = sheets
  /\ \/ home' = "absent" /\ SlotGone
     \/ /\ home' # "absent" /\ Listened
        /\ EnsureRanking(edition')
        /\ MaybeSheet(edition', ConfirmedWhenHeard, home')
        /\ sheetOpen' = sheetOpen
     \/ /\ home' # "absent" /\ ~Listened
        /\ ranking' = ranking /\ asks' = Awaited /\ Stays

StoresStep == (EditionOpens \/ EditionNext \/ HomeNext \/ PageNext \/ QueryNext) /\ Along

(* A new process remembers neither a ranking nor a sheet.                  *)
SlotRestarts ==
  /\ Restart
  /\ following' = {} /\ ranking' = "none" /\ asks' = NoAsks
  /\ shown' = FALSE /\ asking' = 0 /\ sheetOpen' = FALSE /\ sheets' = 0

-----------------------------------------------------------------------------
(* The ranking.                                                            *)

(* Nothing but the ranking has moved, and the slot's listener runs.        *)
RankingHeard ==
  /\ store' = ForEdition(edition, store)
  /\ votedDisk' \in IF store' = store THEN {votedDisk} ELSE Saved(votedDisk, store')
  /\ MaybeSheet(edition, editionConfirmed, home)
  /\ UNCHANGED <<server, editionStore, votedConfirmed, votedLoad, sync, home,
                 refreshes, page, query, following, sheetOpen, sheets>>

RankingQuiet == UNCHANGED <<vars, following, shown, asking, sheetOpen, sheets>>

(* A pull, the way back from a survey page, or the ranking page's own pull:*)
(* after an error the skeletons are back, which the slot hears.            *)
RankingAsked ==
  /\ ranking # "none"
  /\ IF ranking = "error" THEN ranking' = "loading" /\ RankingHeard
                          ELSE ranking' = ranking /\ RankingQuiet
  /\ RefreshBegins(asks)

(* An error is only said over a ranking that has never been read.          *)
RankingFails(i) ==
  /\ asks' = [asks EXCEPT ![i] = "idle"]
  /\ IF ranking # "ready" THEN ranking' = "error" /\ RankingHeard
                          ELSE ranking' = ranking /\ RankingQuiet

(* The edition is known: its results are asked for, if there is one.       *)
AskGoesOn(i) ==
  /\ asks[i] = "loaded"
  /\ IF edition = NoEdition THEN RankingFails(i)
     ELSE /\ asks' = [asks EXCEPT ![i] = "results"]
          /\ ranking' = ranking /\ RankingQuiet

AskAnswered(i) ==
  /\ asks[i] = "results"
  /\ asks' = [asks EXCEPT ![i] = "idle"]
  /\ ranking' = "ready" /\ RankingHeard

AskRefused(i) == asks[i] = "results" /\ RankingFails(i)

-----------------------------------------------------------------------------
(* The sheet.                                                              *)

(* dismissedAt is read.  A phone that has voted, or has said "Ahora no" in *)
(* the last seven days, is not asked.                                      *)
SheetDecided ==
  /\ asking > 0 /\ asking' = asking - 1
  /\ \E recently \in BOOLEAN :
       IF store.voted = {} /\ ~recently
         THEN sheetOpen' = TRUE /\ sheets' = sheets + 1
         ELSE UNCHANGED <<sheetOpen, sheets>>
  /\ UNCHANGED <<vars, following, ranking, asks, shown>>

(* "Votar" or "Ahora no".                                                  *)
SheetCloses ==
  /\ sheetOpen /\ sheetOpen' = FALSE
  /\ UNCHANGED <<vars, following, ranking, asks, shown, asking, sheets>>

-----------------------------------------------------------------------------
RankingNext ==
  RankingAsked \/ \E i \in Asks : AskGoesOn(i) \/ AskAnswered(i) \/ AskRefused(i)

SlotNext == StoresStep \/ SlotRestarts \/ RankingNext \/ SheetDecided \/ SheetCloses

SlotSpec == SlotInit /\ [][SlotNext]_svars

-----------------------------------------------------------------------------
(* The sheet does not come out with the copy on disk, and the confirmation *)
(* of an edition that is already shown tells nobody (PremiosEdition.==).   *)
(* It is not missed all the same: by the time nothing is on its way, the   *)
(* ranking, which awaits the same confirmation, has woken the listener.    *)
SheetIsNotMissed ==
  home = "ready" /\ editionConfirmed /\ edition # NoEdition /\ asks = NoAsks => shown

(* However many changes are heard while "Ahora no" is being read, one start*)
(* of the app shows one sheet.                                             *)
OneSheetPerStart == sheets <= 1

(* The listener puts the votes in order whenever the ranking speaks, and   *)
(* there is never anything to put in order: the ranking is only made by a  *)
(* listener that has already done it.  The slot keeps to the stores' rules.*)
SlotKeepsTheStores == [][Next]_vars

-----------------------------------------------------------------------------
(* The inductive invariant behind the theorems of PremiosHomeProofs.       *)
SlotTypeOK ==
  /\ following \subseteq Refresh /\ ranking \in {"none", "loading", "ready", "error"}
  /\ asks \in [Asks -> AskStages]
  /\ shown \in BOOLEAN /\ asking \in Nat /\ sheetOpen \in BOOLEAN /\ sheets \in Nat

(* There is a ranking under a slot that has put the votes in order.        *)
RankingSound ==
  /\ ranking = "none" => asks = NoAsks
  /\ home = "absent" => ranking = "none"
  /\ ranking # "none" => ForEdition(edition, store) = store

(* An edition the server has not confirmed is that of the copy on disk,    *)
(* and the query that follows its reading is on its way.                   *)
CacheIsFollowed ==
  /\ \A c \in following : refreshes[c] # Idle
  /\ ~editionConfirmed /\ editionLoad # "done" => edition = NoEdition /\ ranking = "none"
  /\ ~editionConfirmed /\ edition # NoEdition => following # {}

(* Meanwhile the ranking waits for it.                                     *)
RankingWaits ==
  ~editionConfirmed /\ edition # NoEdition /\ ranking # "none"
    => /\ ranking = "loading" /\ asks # NoAsks
       /\ \A i \in Asks : asks[i] \in {"idle", "loading"}

(* A sheet that has not been asked for has an answer of the ranking, which *)
(* the slot will hear, to be asked by.                                     *)
SheetIsDue ==
  home = "ready" /\ edition # NoEdition /\ ~shown
    => ranking \in {"loading", "error"} /\ asks # NoAsks

SheetsCounted == asking + sheets <= 1 /\ (asking + sheets # 0 => shown)

SlotInv ==
  /\ SlotTypeOK /\ RankingSound /\ CacheIsFollowed /\ RankingWaits /\ SheetIsDue
  /\ SheetsCounted

=============================================================================

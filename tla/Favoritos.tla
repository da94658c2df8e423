------------------------------ MODULE Favoritos ------------------------------
(***************************************************************************)
(* The saved places of this phone: the SQLite table `fav`, the copy of its *)
(* ids that every heart paints from (GmFavorites), the page that lists     *)
(* them and lets a removal be undone (FavoritosPage), and the screen of a  *)
(* restaurant, which reads and writes the table directly.                  *)
(*                                                                         *)
(* A statement is sent, run by SQLite, and answered, in that order and one *)
(* at a time (sqflite keeps one queue for a database); the user acts       *)
(* between any two of those steps.  The order of the list is left out: the *)
(* table is the number of rows of each place.                              *)
(***************************************************************************)
EXTENDS Naturals, Sequences, FiniteSets

CONSTANTS
  Places,      \* ids of restaurants
  NoPlace,
  Faults,      \* statements SQLite may refuse: "read", "write"
  Overlap,     \* may the user act while the hearts are being read?
  MaxRows,     \* bound: rows of a place
  MaxCalls     \* bound: statements on their way

ASSUME PlaceAssumption == NoPlace \notin Places

VARIABLES
  fav,         \* the table: how many rows a place has
  saved,       \* GmFavorites.value
  loaded,      \* GmFavorites._loaded
  calls,       \* statements on their way, oldest first
  page,        \* FavoritosPage
  detail       \* RestaurantDetailScreen

vars == <<fav, saved, loaded, calls, page, detail>>

Call == [stmt : {"select", "insert", "delete"}, id : Places \cup {NoPlace},
         then : {"hearts", "page", "order", "icon", "tap", "toggle", "detail"},
         at : {"waiting", "ok", "failed"}, rows : SUBSET Places, mounted : BOOLEAN]

Ask(stmt, then, id) ==
  [stmt |-> stmt, then |-> then, id |-> id,
   at |-> "waiting", rows |-> {}, mounted |-> TRUE]

(* ensureLoaded once it has decided to read.                               *)
LoadHearts == Ask("select", "hearts", NoPlace)
LoadPage   == Ask("select", "page", NoPlace)

(* The ids of some rows, each once.                                        *)
Ids(rows) == {x \in Places : rows[x] > 0}

NoPage == [open |-> FALSE, status |-> "loading", loading |-> FALSE, fetching |-> FALSE,
           found |-> {}, ordered |-> {}, byId |-> {}, pending |-> NoPlace, late |-> {}]
NoDetail == [id |-> NoPlace, icon |-> FALSE]

OnHome == ~page.open /\ detail.id = NoPlace
OnPage == page.open /\ detail.id = NoPlace

(* favoritosVisible.                                                       *)
Visible(p, s) == (p.ordered \cap s \cap p.byId) \ {p.pending}

(* No read of the hearts is on its way.                                    *)
Calm == \A i \in DOMAIN calls : calls[i].then \notin {"hearts", "page"}

(* Bounds: one more action of the user, that leaves so many statements,    *)
(* and one more row.                                                       *)
Room    == Len(calls') <= MaxCalls /\ (Overlap \/ Calm)
Writers(x) ==
  {i \in DOMAIN calls : calls[i].id = x /\ (calls[i].stmt = "insert" \/ calls[i].then = "tap")}
RowRoom(x) == fav[x] + Cardinality(Writers(x)) < MaxRows

-----------------------------------------------------------------------------
(* The page's listener, run inside every change of `saved`: an id it does  *)
(* not list starts a quiet load, unless one is under way.                  *)
Reloads(p, s) ==
  /\ p.open /\ p.status = "ready" /\ ~p.loading
  /\ ~(s \subseteq p.ordered)

Notified(p, s) == IF Reloads(p, s) THEN [p EXCEPT !.loading = TRUE] ELSE p
Told(q, p, s)  == IF Reloads(p, s) THEN Append(q, LoadPage) ELSE q

(* GmFavorites.value = s, with the statements q on their way.              *)
SetSaved(s, p, q) ==
  /\ saved' = s
  /\ page' = Notified(p, s)
  /\ calls' = Told(q, p, s)

Flipped(s, x)   == IF x \in s THEN s \ {x} ELSE s \cup {x}
ToggleCall(s, x) == Ask(IF x \in s THEN "delete" ELSE "insert", "toggle", x)

(* _commitPending: the row that was waiting leaves the list, and the table *)
(* if it is still saved; `next` waits instead (NoPlace if nothing does).   *)
Dropped(p) == [p EXCEPT !.ordered = @ \ {p.pending}]
Kept == saved \ {page.pending}

Commit(next) ==
  /\ saved' = Kept
  /\ LET p == [Dropped(page) EXCEPT !.pending = next] IN
     page' = IF page.pending \in saved THEN Notified(p, Kept) ELSE p

Committed ==
  IF page.pending \in saved
    THEN Append(Told(calls, Dropped(page), Kept), ToggleCall(saved, page.pending))
    ELSE calls

-----------------------------------------------------------------------------
Init ==
  /\ fav = [x \in Places |-> 0] /\ saved = {} /\ loaded = FALSE /\ calls = <<>>
  /\ page = NoPage /\ detail = NoDetail

(* ---- screens with hearts ---------------------------------------------- *)
(* A heart appears, or, with force, a pull to refresh or the way back from *)
(* the page.                                                               *)
EnsureLoaded(force) ==
  /\ OnHome
  /\ force \/ ~loaded
  /\ loaded' = TRUE
  /\ calls' = Append(calls, LoadHearts)
  /\ UNCHANGED <<fav, saved, page, detail>>
  /\ Room

Toggle(x) ==
  /\ OnHome /\ RowRoom(x)
  /\ SetSaved(Flipped(saved, x), page, Append(calls, ToggleCall(saved, x)))
  /\ UNCHANGED <<fav, loaded, detail>>
  /\ Room

OpenDetail(x) ==
  /\ OnHome
  /\ detail' = [id |-> x, icon |-> FALSE]
  /\ calls' = Append(calls, Ask("select", "icon", x))
  /\ UNCHANGED <<fav, saved, loaded, page>>
  /\ Room

(* ---- FavoritosPage ----------------------------------------------------- *)
OpenPage ==
  /\ OnHome
  /\ page' = [NoPage EXCEPT !.open = TRUE, !.loading = TRUE]
  /\ loaded' = TRUE
  /\ calls' = Append(calls, LoadPage)
  /\ UNCHANGED <<fav, saved, detail>>
  /\ Room

(* _load(quiet: true) from pull to refresh, _load() from "Reintentar".     *)
Load(quiet) ==
  /\ OnPage /\ ~page.loading
  /\ quiet \/ page.status = "error"
  /\ page' = [page EXCEPT !.loading = TRUE, !.status = IF quiet THEN @ ELSE "loading"]
  /\ calls' = Append(calls, LoadPage)
  /\ UNCHANGED <<fav, saved, loaded, detail>>
  /\ Room

(* Mutant: the row is deleted at once, and the undo still offered.         *)
TakeOutAtOnce(x) ==
  /\ OnPage /\ page.status = "ready" /\ x \in Visible(page, saved)
  /\ page' = [page EXCEPT !.pending = x]
  /\ saved' = saved \ {x}
  /\ calls' = Append(calls, ToggleCall(saved, x))
  /\ UNCHANGED <<fav, loaded, detail>>
  /\ Room

(* _remove: another place that waits is committed first.                   *)
TakeOut(x) ==
  /\ OnPage /\ page.status = "ready" /\ x \in Visible(page, saved)
  /\ Commit(x) /\ calls' = Committed
  /\ UNCHANGED <<fav, loaded, detail>>
  /\ Room

Undo ==
  /\ OnPage /\ page.pending # NoPlace
  /\ page' = [page EXCEPT !.pending = NoPlace]
  /\ UNCHANGED <<fav, saved, loaded, calls, detail>>

(* The timer, which is slower than a read of the hearts (see Overlap).     *)
PendingExpires ==
  /\ page.pending # NoPlace
  /\ Commit(NoPlace) /\ calls' = Committed
  /\ UNCHANGED <<fav, loaded, detail>>
  /\ Room

OpenRow(x) ==
  /\ OnPage /\ page.status = "ready" /\ x \in Visible(page, saved)
  /\ Commit(NoPlace) /\ calls' = Append(Committed, Ask("select", "icon", x))
  /\ detail' = [id |-> x, icon |-> FALSE]
  /\ UNCHANGED <<fav, loaded>>
  /\ Room

(* Whoever asked for these is gone: their answers change no screen.        *)
Forsaken(q, whose) ==
  [i \in DOMAIN q |-> IF q[i].then \in whose THEN [q[i] EXCEPT !.mounted = FALSE] ELSE q[i]]

(* Mutant: dispose toggles without asking whether anything waits.          *)
ClosePageToggles ==
  /\ OnPage
  /\ page' = NoPage
  /\ saved' = saved \ {page.pending}
  /\ calls' = Append(Forsaken(calls, {"page", "order"}), ToggleCall(saved, page.pending))
  /\ UNCHANGED <<fav, loaded, detail>>
  /\ Room

(* dispose: the listener is gone before the pending removal is committed.  *)
ClosePage ==
  /\ OnPage
  /\ page' = NoPage
  /\ saved' = saved \ {page.pending}
  /\ LET left == Forsaken(calls, {"page", "order"}) IN
     calls' = IF page.pending \in saved
                THEN Append(left, ToggleCall(saved, page.pending)) ELSE left
  /\ UNCHANGED <<fav, loaded, detail>>
  /\ Room

(* ---- RestaurantDetailScreen -------------------------------------------- *)
TapSave ==
  /\ detail.id # NoPlace /\ RowRoom(detail.id)
  /\ calls' = Append(calls, Ask("select", "tap", detail.id))
  /\ UNCHANGED <<fav, saved, loaded, page, detail>>
  /\ Room

(* Back to the page, if it is underneath, which loads quietly.             *)
CloseDetail ==
  /\ detail.id # NoPlace
  /\ detail' = NoDetail
  /\ LET left == Forsaken(calls, {"icon", "tap", "detail"}) IN
     IF page.open /\ ~page.loading
       THEN /\ page' = [page EXCEPT !.loading = TRUE]
            /\ calls' = Append(left, LoadPage)
       ELSE page' = page /\ calls' = left
  /\ UNCHANGED <<fav, saved, loaded>>
  /\ Room

-----------------------------------------------------------------------------
(* History: places saved after the load under way had read the order.      *)
Ordered == \/ page.fetching
           \/ \E i \in DOMAIN calls :
                calls[i].then = "order" /\ calls[i].mounted /\ calls[i].at = "ok"

LateAfter(call) ==
  IF call.then = "order" /\ call.mounted THEN {}
  ELSE IF call.stmt = "insert" /\ Ordered THEN page.late \cup {call.id}
  ELSE page.late

(* SQLite runs the oldest statement that waits.                            *)
Waiting(i) == /\ i \in DOMAIN calls /\ calls[i].at = "waiting"
              /\ \A j \in 1..(i - 1) : calls[j].at # "waiting"

RunStatement ==
  \E i \in DOMAIN calls :
    /\ Waiting(i)
    /\ calls' = [calls EXCEPT ![i].at = "ok",
                              ![i].rows = IF calls[i].stmt = "select" THEN Ids(fav) ELSE {}]
    /\ fav' = CASE calls[i].stmt = "insert" -> [fav EXCEPT ![calls[i].id] = @ + 1]
                [] calls[i].stmt = "delete" -> [fav EXCEPT ![calls[i].id] = 0]
                [] OTHER -> fav
    /\ page' = [page EXCEPT !.late = LateAfter(calls[i])]
    /\ UNCHANGED <<saved, loaded, detail>>

RefuseStatement ==
  \E i \in DOMAIN calls :
    /\ Waiting(i)
    /\ (IF calls[i].stmt = "select" THEN "read" ELSE "write") \in Faults
    /\ calls' = [calls EXCEPT ![i].at = "failed"]
    /\ UNCHANGED <<fav, saved, loaded, page, detail>>

(* ---- and the answers are taken in order -------------------------------- *)
Answered(then) == calls # <<>> /\ Head(calls).then = then /\ Head(calls).at # "waiting"
Answer == Head(calls)

(* ensureLoaded: rows read, or the failure logged.                         *)
HeartsLoaded ==
  /\ Answered("hearts")
  /\ IF Answer.at = "ok" THEN SetSaved(Answer.rows, page, Tail(calls))
                         ELSE calls' = Tail(calls) /\ UNCHANGED <<saved, page>>
  /\ UNCHANGED <<fav, loaded, detail>>

(* _load after ensureLoaded, which swallows its failure: the order is read *)
(* in a second statement.                                                  *)
PageHeartsLoaded ==
  /\ Answered("page")
  /\ saved' = IF Answer.at = "ok" THEN Answer.rows ELSE saved
  /\ IF Answer.mounted
       THEN page' = page /\ calls' = Append(Tail(calls), Ask("select", "order", NoPlace))
       ELSE IF Answer.at = "ok"
              THEN page' = Notified(page, saved') /\ calls' = Told(Tail(calls), page, saved')
              ELSE page' = page /\ calls' = Tail(calls)
  /\ UNCHANGED <<fav, loaded, detail>>

(* Mutant: _loadingNow is left set, as without the finally.                *)
ListedStillLoading(p, found, known) ==
  [p EXCEPT !.ordered = found, !.byId = known, !.fetching = FALSE, !.found = {},
            !.status = "ready"]

(* The load has the order `found` and the restaurants `known`.             *)
Listed(p, found, known) ==
  [p EXCEPT !.ordered = found, !.byId = known, !.loading = FALSE,
            !.fetching = FALSE, !.found = {},
            !.status = IF found # {} /\ found \cap known = {}
                         THEN "error" ELSE "ready"]

(* The order is read: the restaurants not known yet are fetched.           *)
OrderRead ==
  /\ Answered("order")
  /\ calls' = Tail(calls)
  /\ page' = IF ~Answer.mounted THEN page
             ELSE IF Answer.at = "failed"
               THEN [page EXCEPT !.status = "error", !.loading = FALSE]
             ELSE IF Answer.rows \subseteq page.byId
               THEN Listed(page, Answer.rows, page.byId)
             ELSE [page EXCEPT !.fetching = TRUE, !.found = Answer.rows]
  /\ UNCHANGED <<fav, saved, loaded, detail>>

(* Every fetch has ended; one that fails leaves its place out.             *)
PageFetched ==
  /\ page.fetching
  /\ \E got \in SUBSET (page.found \ page.byId) :
       page' = Listed(page, page.found, page.byId \cup got)
  /\ UNCHANGED <<fav, saved, loaded, calls, detail>>

(* Mutant: a write that fails is not undone.                               *)
ToggledNoRollback ==
  /\ Answered("toggle")
  /\ calls' = Tail(calls)
  /\ UNCHANGED <<fav, saved, loaded, page, detail>>

(* toggle after its write: a failure is undone on the value of now.        *)
Toggled ==
  /\ Answered("toggle")
  /\ IF Answer.at = "ok"
       THEN calls' = Tail(calls) /\ UNCHANGED <<saved, page>>
       ELSE SetSaved(IF Answer.stmt = "delete" THEN saved \cup {Answer.id}
                                               ELSE saved \ {Answer.id},
                     page, Tail(calls))
  /\ UNCHANGED <<fav, loaded, detail>>

(* setFav: the icon, if its screen is there, and ensureLoaded(force: true).*)
SetFav(isFav) ==
  /\ detail' = IF Answer.mounted THEN [detail EXCEPT !.icon = isFav] ELSE detail
  /\ loaded' = TRUE
  /\ calls' = Append(Tail(calls), LoadHearts)

(* getIsFav; a failed read is logged.                                      *)
IconRead ==
  /\ Answered("icon")
  /\ IF Answer.at = "ok" THEN SetFav(Answer.id \in Answer.rows)
                         ELSE calls' = Tail(calls) /\ UNCHANGED <<loaded, detail>>
  /\ UNCHANGED <<fav, saved, page>>

(* saveFavRestaurant after isFavorite: the write it chooses.               *)
TapRead ==
  /\ Answered("tap")
  /\ calls' = IF Answer.at = "failed" THEN Tail(calls)
              ELSE Append(Tail(calls),
                [Ask(IF Answer.id \in Answer.rows THEN "delete" ELSE "insert",
                     "detail", Answer.id) EXCEPT !.mounted = Answer.mounted])
  /\ UNCHANGED <<fav, saved, loaded, page, detail>>

(* setFav(ok ? wanted : the opposite).                                     *)
DetailWritten ==
  /\ Answered("detail")
  /\ SetFav((Answer.stmt = "insert") = (Answer.at = "ok"))
  /\ UNCHANGED <<fav, saved, page>>

(* The app is killed; what SQLite has written stays.                       *)
Killed ==
  /\ saved' = {} /\ loaded' = FALSE /\ calls' = <<>>
  /\ page' = NoPage /\ detail' = NoDetail
  /\ UNCHANGED fav

-----------------------------------------------------------------------------
User ==
  \/ OpenPage \/ Undo \/ ClosePage \/ TapSave \/ CloseDetail
  \/ \E x \in Places : Toggle(x) \/ OpenDetail(x) \/ TakeOut(x) \/ OpenRow(x)
  \/ \E force \in BOOLEAN : EnsureLoaded(force)
  \/ \E quiet \in BOOLEAN : Load(quiet)

Take == HeartsLoaded \/ PageHeartsLoaded \/ OrderRead \/ Toggled
          \/ IconRead \/ TapRead \/ DetailWritten

Next == User \/ RunStatement \/ RefuseStatement \/ Take \/ PageFetched
          \/ PendingExpires \/ Killed

(* SQLite answers, Dart takes the answers, a fetch ends or times out, the  *)
(* timer of four seconds fires.  Nothing is asked of the user.             *)
Fairness ==
  /\ WF_vars(RunStatement \/ RefuseStatement) /\ WF_vars(Take)
  /\ WF_vars(PageFetched) /\ WF_vars(PendingExpires)

Spec == Init /\ [][Next]_vars /\ Fairness

-----------------------------------------------------------------------------
Typed ==
  /\ fav \in [Places -> Nat] /\ saved \subseteq Places /\ loaded \in BOOLEAN
  /\ calls \in Seq(Call)
  /\ page \in [open : BOOLEAN, status : {"loading", "ready", "error"},
               loading : BOOLEAN, fetching : BOOLEAN, found : SUBSET Places,
               ordered : SUBSET Places, byId : SUBSET Places,
               pending : Places \cup {NoPlace}, late : SUBSET Places]
  /\ detail \in [id : Places \cup {NoPlace}, icon : BOOLEAN]

(* Every variable has its type, and a write is never sent without a place: *)
(* _commitPending runs with no _pending too, from _open and dispose.       *)
TypeOK ==
  Typed /\ \A i \in DOMAIN calls : calls[i].stmt # "select" => calls[i].id \in Places

(* Nothing is on its way.                                                  *)
Quiet == calls = <<>> /\ ~page.loading

(* Once everything has been answered, the page lists exactly the rows of   *)
(* the table whose restaurant it could fetch, but the one it offers to     *)
(* bring back, whatever was removed, undone, refused by SQLite, saved from *)
(* the restaurant's screen or reloaded while something else was on its way;*)
(* but a place saved after the load had read the order is left out, as     *)
(* neither _onFavoritesChanged nor the way back asks again (_loadingNow).  *)
PageShowsTheTable ==
  Quiet /\ page.open /\ page.status = "ready"
    => \A x \in Places \ page.late :
         x \in Visible(page, saved) <=> x \in (Ids(fav) \cap page.byId) \ {page.pending}

(* While "Deshacer" is offered the removal has not been made: the row does *)
(* not leave the table, unless the restaurant's own screen takes it out.   *)
UndoKeepsTheRow ==
  [][page.pending # NoPlace /\ page'.pending = page.pending
       /\ page.pending \in Ids(fav) \ Ids(fav')
     => \E i \in DOMAIN calls : Waiting(i) /\ calls[i].then = "detail"]_vars

(* Every heart tells what the table holds once nothing is on its way.      *)
HeartsTellTheTable == Quiet /\ loaded => saved = Ids(fav)

(* A load ends, and the page can be asked again.                           *)
LoadEnds == page.loading ~> ~page.loading

=============================================================================
